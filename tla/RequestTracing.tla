--------------------------- MODULE RequestTracing ---------------------------
(***************************************************************************)
(* The way of HTTP requests through the middleware of register_middleware, *)
(* the exception handlers of register_exception_handlers and the layers    *)
(* that Starlette puts around them, one app mounted in another or not.     *)
(*                                                                         *)
(* A stack is the sequence of layers from the outside in:                  *)
(*   "error"     Starlette's ServerErrorMiddleware, always the outermost   *)
(*               of an app, which runs the handler of Exception            *)
(*   "trace"     TraceIDMiddleware                                         *)
(*   "service"   ServiceNameMiddleware                                     *)
(*   "access"    AccessLogMiddleware                                       *)
(*   "handlers"  Starlette's ExceptionMiddleware, always the innermost,    *)
(*               which runs the other handlers                             *)
(* Each layer belongs to an app; the endpoint is below the last one.       *)
(* A task serves one request after another in one contextvars context.     *)
(***************************************************************************)
EXTENDS Naturals, Sequences, FiniteSets

CONSTANTS
    Task,         \* the tasks that serve requests
    Id,           \* request ids, well-formed ones
    NoId,         \* no id; also a header that is missing or malformed
    App,
    NoApp,
    Stack,        \* the stacks requests take
    Registered,   \* the apps with register_exception_handlers
    Status        \* what endpoints and business exceptions answer with

ServerError == 500
UpstreamStatus == 400      \* response_bad_request
ValidationStatus == 422    \* response_unprocessable_entity

Layer == [kind : {"error", "trace", "service", "access", "handlers"}, app : App]

ASSUME ValuesAssumption ==
    /\ NoId \notin Id /\ NoApp \notin App
    /\ Stack \subseteq Seq(Layer)
    /\ Registered \subseteq App
    /\ Status \subseteq Nat \ {0}

\* An endpoint that answers 500 itself, before an upstream failure or not, has
\* decided so: UpstreamIsNot5xx is about those that leave it to the library.
ASSUME EndpointAssumption == ServerError \notin Status

\* Starlette's build_middleware_stack: an app's ExceptionMiddleware is its
\* innermost layer, so what follows it is the outermost one of a mounted app.
ASSUME StackAssumption ==
    \A s \in Stack : \A n \in DOMAIN s :
        /\ n = Len(s) => s[n].kind = "handlers"
        /\ n < Len(s) /\ s[n].kind = "handlers" => s[n + 1].kind = "error"

Upstream == {"status", "request"}   \* httpx's HTTPStatusError and RequestError

Raised == Upstream \cup {"business", "validation", "other", "cancelled"}

VARIABLES
    mode,      \* going down, up with a result, up with an exception, or idle
    stack,     \* the layers of the request's way
    frames,    \* the layers it is in, each with what its call keeps
    header,    \* X-Request-ID of the request
    context,   \* _request_id_ctx_var and _service_name_ctx_var of the task
    error,     \* the exception on its way up
    cause,     \* history: the first exception of the request
    answer,    \* what the client has been sent of the response
    issued,    \* history: the ids the request has been given
    told,      \* history: the ids its logs and outgoing calls carried
    accessed   \* history: the statuses its access logs told

vars == <<mode, stack, frames, header, context, error, cause, answer, issued, told,
          accessed>>

NoError == "none"
NoAnswer == [status |-> 0, ids |-> <<>>]
Clean == [id |-> NoId, service |-> NoApp]

Depth(t) == Len(frames[t])
Top(t) == frames[t][Depth(t)]
Popped(t) == SubSeq(frames[t], 1, Depth(t) - 1)

\* Ids that a generator may not return again: uuid4 never repeats itself.
InUse == UNION {issued[t] \cup {header[t]} : t \in Task}

\* add_middleware puts a layer around those that were added before it.
Around(kind, kinds) == <<kind>> \o kinds

\* The layers of an app that registers its middleware, with a service name or
\* without, from the outside in.
RegisterMiddleware(named) ==
    Around("trace", IF named THEN Around("service", <<"access">>) ELSE <<"access">>)

Init ==
    /\ mode = [t \in Task |-> "idle"]
    /\ stack = [t \in Task |-> <<>>]
    /\ frames = [t \in Task |-> <<>>]
    /\ header = [t \in Task |-> NoId]
    /\ context = [t \in Task |-> Clean]
    /\ error = [t \in Task |-> NoError]
    /\ cause = [t \in Task |-> NoError]
    /\ answer = [t \in Task |-> NoAnswer]
    /\ issued = [t \in Task |-> {}]
    /\ told = [t \in Task |-> {}]
    /\ accessed = [t \in Task |-> {}]

Receive(t, s, h) ==
    /\ mode[t] = "idle"
    /\ mode' = [mode EXCEPT ![t] = "down"]
    /\ stack' = [stack EXCEPT ![t] = s]
    /\ header' = [header EXCEPT ![t] = h]
    /\ error' = [error EXCEPT ![t] = NoError]
    /\ cause' = [cause EXCEPT ![t] = NoError]
    /\ answer' = [answer EXCEPT ![t] = NoAnswer]
    /\ issued' = [issued EXCEPT ![t] = {}]
    /\ told' = [told EXCEPT ![t] = {}]
    /\ accessed' = [accessed EXCEPT ![t] = {}]
    /\ UNCHANGED <<frames, context>>

-----------------------------------------------------------------------------
(* Down: each layer calls the next one.                                    *)

NextLayer(t) == stack[t][Depth(t) + 1]

Entering(t, kind) ==
    /\ mode[t] = "down"
    /\ Depth(t) < Len(stack[t])
    /\ NextLayer(t).kind = kind

\* A frame keeps a token to reset a context variable with, the request id of
\* a send_wrapper, or a status_code; whatever its layer does not use is empty.
Frame(l, id, old, status) ==
    [kind |-> l.kind, app |-> l.app, id |-> id, old |-> old, status |-> status]

Push(t, f) == frames' = [frames EXCEPT ![t] = Append(@, f)]

\* Mutant: the id is kept in a variable of the module, one for all tasks.
EnterTraceGlobal(t) ==
    /\ Entering(t, "trace")
    /\ \E id \in IF header[t] # NoId THEN {header[t]} ELSE Id \ InUse :
           /\ Push(t, Frame(NextLayer(t), id, context[t].id, 0))
           /\ context' = [u \in Task |-> [context[u] EXCEPT !.id = id]]
           /\ issued' = [issued EXCEPT ![t] = @ \cup {id}]
    /\ UNCHANGED <<mode, stack, header, error, cause, answer, told, accessed>>

\* request_id_scope: the header's id if it is well-formed, else a new one.
EnterTrace(t) ==
    /\ Entering(t, "trace")
    /\ \E id \in IF header[t] # NoId THEN {header[t]} ELSE Id \ InUse :
           /\ Push(t, Frame(NextLayer(t), id, context[t].id, 0))
           /\ context' = [context EXCEPT ![t].id = id]
           /\ issued' = [issued EXCEPT ![t] = @ \cup {id}]
    /\ UNCHANGED <<mode, stack, header, error, cause, answer, told, accessed>>

\* service_name_scope.
EnterService(t) ==
    /\ Entering(t, "service")
    /\ Push(t, Frame(NextLayer(t), NoId, context[t].service, 0))
    /\ context' = [context EXCEPT ![t].service = NextLayer(t).app]
    /\ UNCHANGED <<mode, stack, header, error, cause, answer, issued, told, accessed>>

\* Mutant: no response counts as a success.
EnterAccessOptimist(t) ==
    /\ Entering(t, "access")
    /\ Push(t, Frame(NextLayer(t), NoId, NoId, 200))
    /\ UNCHANGED <<mode, stack, header, context, error, cause, answer, issued, told,
                   accessed>>

\* status_code = 500 until a response starts.
EnterAccess(t) ==
    /\ Entering(t, "access")
    /\ Push(t, Frame(NextLayer(t), NoId, NoId, ServerError))
    /\ UNCHANGED <<mode, stack, header, context, error, cause, answer, issued, told,
                   accessed>>

EnterOther(t) ==
    /\ Entering(t, "error") \/ Entering(t, "handlers")
    /\ Push(t, Frame(NextLayer(t), NoId, NoId, 0))
    /\ UNCHANGED <<mode, stack, header, context, error, cause, answer, issued, told,
                   accessed>>

-----------------------------------------------------------------------------
(* The endpoint.                                                           *)

AtEndpoint(t) == mode[t] = "down" /\ Depth(t) = Len(stack[t])

Carried(id) == {id} \ {NoId}

Of(fs, kind) == {n \in DOMAIN fs : fs[n].kind = kind}

\* A response starts below the frames fs: their send_wrappers append the ids,
\* each its own, and note the status.
Started(fs, status) ==
    [status |-> status, ids |-> [n \in Of(fs, "trace") |-> fs[n].id]]

Noted(fs, status) ==
    [n \in DOMAIN fs |-> IF fs[n].kind = "access" THEN [fs[n] EXCEPT !.status = status]
                         ELSE fs[n]]

\* A log line, or a request sent with a ZodiacClient whose hook adds the id.
Tells(t) ==
    /\ AtEndpoint(t)
    /\ told' = [told EXCEPT ![t] = @ \cup Carried(context[t].id)]
    /\ UNCHANGED <<mode, stack, frames, header, context, error, cause, answer, issued,
                   accessed>>

StartsResponse(t) ==
    /\ AtEndpoint(t)
    /\ answer[t] = NoAnswer
    /\ \E s \in Status :
           /\ answer' = [answer EXCEPT ![t] = Started(frames[t], s)]
           /\ frames' = [frames EXCEPT ![t] = Noted(@, s)]
    /\ UNCHANGED <<mode, stack, header, context, error, cause, issued, told, accessed>>

Returns(t) ==
    /\ AtEndpoint(t)
    /\ answer[t] # NoAnswer
    /\ mode' = [mode EXCEPT ![t] = "up"]
    /\ UNCHANGED <<stack, frames, header, context, error, cause, answer, issued, told,
                   accessed>>

\* Mutant: only an upstream that answered is translated.
TranslatedStatus(e) == IF e = "status" THEN "upstream" ELSE e

\* translate_upstream_errors: every httpx error, whatever its status.
Translated(e) == IF e \in Upstream THEN "upstream" ELSE e

\* An exception of the endpoint, whose upstream calls are decorated.
Raises(t) ==
    /\ AtEndpoint(t)
    /\ mode' = [mode EXCEPT ![t] = "raise"]
    /\ \E e \in Raised :
           /\ error' = [error EXCEPT ![t] = Translated(e)]
           /\ cause' = [cause EXCEPT ![t] = e]
    /\ UNCHANGED <<stack, frames, header, context, answer, issued, told, accessed>>

-----------------------------------------------------------------------------
(* Up: each layer returns or raises.                                       *)

Leaving(t, kind) ==
    /\ mode[t] \in {"up", "raise"}
    /\ Depth(t) > 0
    /\ Top(t).kind = kind

Pop(t) == frames' = [frames EXCEPT ![t] = Popped(t)]

\* The variable of the scope gets the value of its token.
Reset(t) ==
    IF Top(t).kind = "trace" THEN [context EXCEPT ![t].id = Top(t).old]
    ELSE [context EXCEPT ![t].service = Top(t).old]

\* Mutant: the scopes are not left by an exception.
LeaveScopeUnlessRaising(t) ==
    /\ Leaving(t, "trace") \/ Leaving(t, "service")
    /\ context' = IF mode[t] = "raise" THEN context ELSE Reset(t)
    /\ Pop(t)
    /\ UNCHANGED <<mode, stack, header, error, cause, answer, issued, told, accessed>>

\* The finally of the two scopes.
LeaveScope(t) ==
    /\ Leaving(t, "trace") \/ Leaving(t, "service")
    /\ context' = Reset(t)
    /\ Pop(t)
    /\ UNCHANGED <<mode, stack, header, error, cause, answer, issued, told, accessed>>

\* The finally of the access log.
LeaveAccess(t) ==
    /\ Leaving(t, "access")
    /\ accessed' = [accessed EXCEPT ![t] = @ \cup {Top(t).status}]
    /\ told' = [told EXCEPT ![t] = @ \cup Carried(context[t].id)]
    /\ Pop(t)
    /\ UNCHANGED <<mode, stack, header, context, error, cause, answer, issued>>

\* The statuses the handlers of register_exception_handlers answer with.
Answers(e) ==
    CASE e = "business" -> Status \cup {ServerError}
      [] e = "validation" -> {ValidationStatus}
      [] e = "upstream" -> {UpstreamStatus}

Handles(app, e) == app \in Registered /\ e \in {"business", "validation", "upstream"}

Sends(t, status) ==
    /\ answer' = [answer EXCEPT ![t] = Started(Popped(t), status)]
    /\ frames' = [frames EXCEPT ![t] = Noted(Popped(t), status)]

\* ExceptionMiddleware: an exception with a handler becomes its response.  A
\* response that has started makes it an error of another kind.
LeaveHandlers(t) ==
    /\ Leaving(t, "handlers")
    /\ \/ /\ mode[t] = "raise" /\ Handles(Top(t).app, error[t])
          /\ IF answer[t] = NoAnswer
             THEN /\ \E s \in Answers(error[t]) : Sends(t, s)
                  /\ mode' = [mode EXCEPT ![t] = "up"]
                  /\ UNCHANGED error
             ELSE /\ error' = [error EXCEPT ![t] = "other"]
                  /\ Pop(t)
                  /\ UNCHANGED <<mode, answer>>
       \/ /\ mode[t] = "up" \/ ~Handles(Top(t).app, error[t])
          /\ Pop(t)
          /\ UNCHANGED <<mode, error, answer>>
    /\ UNCHANGED <<stack, header, context, cause, issued, told, accessed>>

\* ServerErrorMiddleware: any Exception is answered with 500 if it still can
\* be, and raised again.
LeaveError(t) ==
    /\ Leaving(t, "error")
    /\ IF mode[t] = "raise" /\ error[t] # "cancelled" /\ answer[t] = NoAnswer
       THEN Sends(t, ServerError)
       ELSE Pop(t) /\ UNCHANGED answer
    /\ UNCHANGED <<mode, stack, header, context, error, cause, issued, told, accessed>>

\* Back in the server.
Finish(t) ==
    /\ mode[t] \in {"up", "raise"} /\ frames[t] = <<>>
    /\ mode' = [mode EXCEPT ![t] = "idle"]
    /\ UNCHANGED <<stack, frames, header, context, error, cause, answer, issued, told,
                   accessed>>

Next ==
    \E t \in Task :
        \/ \E s \in Stack, h \in Id \cup {NoId} : Receive(t, s, h)
        \/ EnterTrace(t) \/ EnterService(t) \/ EnterAccess(t) \/ EnterOther(t)
        \/ Tells(t) \/ StartsResponse(t) \/ Returns(t) \/ Raises(t)
        \/ LeaveScope(t) \/ LeaveAccess(t) \/ LeaveHandlers(t) \/ LeaveError(t)
        \/ Finish(t)

Spec == Init /\ [][Next]_vars

-----------------------------------------------------------------------------
(* Properties.                                                             *)

Value(f) == IF f.kind = "trace" THEN f.id ELSE f.app

\* What the innermost scope of a kind that is open sets, if any is.
InScope(fs, kind, none) ==
    IF Of(fs, kind) = {} THEN none
    ELSE Value(fs[CHOOSE n \in Of(fs, kind) : \A m \in Of(fs, kind) : m <= n])

\* At every point of a request, on its way back too and whatever was raised,
\* the context holds the id and the service of the innermost scope that is
\* open, and nothing is left of it for the next request of the task.
ContextFollowsScopes ==
    \A t \in Task :
        /\ context[t].id = InScope(frames[t], "trace", NoId)
        /\ context[t].service = InScope(frames[t], "service", NoApp)

\* "Do not register middleware on both the parent and a sub-application".
Once(s) == Cardinality(Of(s, "trace")) <= 1

Shown(t) == told[t] \cup {answer[t].ids[n] : n \in DOMAIN answer[t].ids}

\* One request, one id: the logs, the outgoing calls and the response headers
\* of a request carry the id of its header, or one generated for it alone.
OneIdPerRequest ==
    \A t \in Task : Once(stack[t]) =>
        /\ Cardinality(Shown(t)) <= 1 /\ Cardinality(DOMAIN answer[t].ids) <= 1
        /\ header[t] # NoId => Shown(t) \subseteq {header[t]}
        /\ \A u \in Task \ {t} :
               header[t] = NoId /\ header[u] = NoId => Shown(t) \cap Shown(u) = {}

\* When a request is over, its access logs told the status the client got.
AccessLogTellsTruth ==
    \A t \in Task :
        mode[t] = "idle" /\ answer[t] # NoAnswer => accessed[t] \subseteq {answer[t].status}

\* "This keeps dependency failures out of the current service's 5xx".
UpstreamIsNot5xx ==
    \A t \in Task :
        /\ mode[t] = "idle" /\ cause[t] \in Upstream
        /\ \A n \in DOMAIN stack[t] : stack[t][n].app \in Registered
        => answer[t].status # ServerError

\* docs/api/middleware.md: "attaches the same ID to the response headers".
EveryAnswerHasId ==
    \A t \in Task : issued[t] # {} /\ answer[t] # NoAnswer => DOMAIN answer[t].ids # {}
=============================================================================
