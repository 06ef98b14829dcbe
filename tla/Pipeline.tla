------------------------------- MODULE Pipeline -------------------------------
(***************************************************************************)
(* The middleware of one request: main.go registers it, router/            *)
(* custom_group.go puts the authenticator, the validator and the redis     *)
(* handlers before the handler, and gin runs the chain.  A middleware that *)
(* calls c.Next() and goes on afterwards is on the stack meanwhile; one    *)
(* that aborts ends the chain, and the stack is unwound; a panic unwinds   *)
(* it without running anything, up to gin's Recovery, which answers 500.   *)
(*                                                                         *)
(* A route is a record: auth, routed with the authenticator; entity, the   *)
(* type of its request, or None; query, whether its type is bound from the *)
(* query; redis, its redis handlers; unguarded, that its handler has no    *)
(* breaker; import, that its handler imports a workbook (ExcelRoute).      *)
(* What a client sends is in input.                                        *)
(***************************************************************************)
EXTENDS Naturals, Sequences

CONSTANTS Routes, None

\* A read's responder comes before its publisher (redis_handler_wrapper.go).
ASSUME RoutesAssumption ==
  \A r \in Routes :
    /\ r.auth \in BOOLEAN /\ r.query \in BOOLEAN
    /\ r.unguarded \in BOOLEAN /\ r.import \in BOOLEAN
    /\ r.redis \in Seq({"Responder", "SetPublisher", "DeletePublisher"})
    /\ \A i, j \in DOMAIN r.redis :
         i < j /\ r.redis[i] = "SetPublisher" => r.redis[j] # "Responder"

VARIABLES
  route, input,
  at,        \* the index of the next middleware of the chain
  stack,     \* middleware whose part after c.Next() is to run, innermost first
  context,   \* the keys set with c.Set
  status,    \* the status of the response so far, or None; 200 is any success
  bodies,    \* the bodies sent to the client
  span,      \* the top span of the tracer: "none", "open" or "finished"
  events,    \* the redis topics published on, each with the status at that time
  done       \* "no", "yes", or "panicked": ended by Recovery

pipelineVars == <<route, input, at, stack, context, status, bodies, span, events, done>>

-----------------------------------------------------------------------------
Chain(r) ==
  <<"SecurityFilter", "Correlator", "GinHResponseWriter", "TracerSpanStarter",
    "LogEntrySetter">>
  \o (IF r.auth THEN <<"Authenticator">> ELSE <<>>)
  \o <<"RequestValidator">> \o r.redis \o <<"Handler">>

Turn(name) == done = "no" /\ at <= Len(Chain(route)) /\ Chain(route)[at] = name

\* c.Next() as the last thing a middleware does.
Pass == at' = at + 1 /\ UNCHANGED stack

\* c.Next() with something after it.
Around(name) == at' = at + 1 /\ stack' = <<name>> \o stack

\* WriteHeader and Write of ginHResponseWriter, which passes on a JSON that has
\* its status, code and message: every response of the chain has, and the 407,
\* which has not, is written before the writer is in place.
Write(code) == status' = code /\ bodies' = Append(bodies, code)

\* c.AbortWithStatusJSON: nothing after it in the chain runs.
Abort(code) == Write(code) /\ at' = Len(Chain(route)) + 1 /\ UNCHANGED stack

Set(key) == context' = context \cup {key}

Quiet == UNCHANGED <<status, bodies>>

-----------------------------------------------------------------------------
SecurityFilter ==
  /\ Turn("SecurityFilter")
  /\ \/ Pass /\ Quiet
     \/ Abort(407)
  /\ UNCHANGED <<route, input, context, span, events, done>>

Correlator ==
  /\ Turn("Correlator")
  /\ Pass /\ Quiet
  /\ UNCHANGED <<route, input, context, span, events, done>>

GinHResponseWriter ==
  /\ Turn("GinHResponseWriter")
  /\ Set("GinHResponseWriter")
  /\ Pass /\ Quiet
  /\ UNCHANGED <<route, input, span, events, done>>

TracerSpanStarter ==
  /\ Turn("TracerSpanStarter")
  /\ span' = "open"
  /\ Set("TopSpan")
  /\ Around("TracerSpanStarter") /\ Quiet
  /\ UNCHANGED <<route, input, events, done>>

LogEntrySetter ==
  /\ Turn("LogEntrySetter")
  /\ Set("RequestLogEntry")
  /\ Pass /\ Quiet
  /\ UNCHANGED <<route, input, span, events, done>>

\* No header, not two words, not Bearer, and every way a token may be wrong: 401.
Authenticator ==
  /\ Turn("Authenticator")
  /\ \/ input.token = "valid" /\ Set("Claims") /\ Pass /\ Quiet
     \/ input.token # "valid" /\ Abort(401) /\ UNCHANGED context
  /\ UNCHANGED <<route, input, span, events, done>>

\* The dynamic type of entityregistry.GetInstance: a pointer to the sample's.
Instance(name) == <<"*", name>>

\* Types for which :143-151 asks that some field is set.
InformTypes == {<<"*", "*", "GetStudentUUIDsWithInformRequest">>,
                <<"*", "*", "GetTeacherUUIDsWithInformRequest">>,
                <<"*", "*", "GetParentUUIDsWithInformRequest">>}

\* Binding fails, or the content type is unsupported, or a constraint is not met.
Malformed ==
  \/ input.form = "unbound"
  \/ (~ route.query /\ input.form = "unsupported")
  \/ input.form = "invalid"

\* Mutant: a request that is not valid is not refused.
RequestValidatorLenient ==
  /\ Turn("RequestValidator")
  /\ IF route.entity = None \/ Malformed THEN Pass /\ Quiet /\ UNCHANGED context
     ELSE Set("Request") /\ Pass /\ Quiet
  /\ UNCHANGED <<route, input, span, events, done>>

\* The last switch answers without returning: the request is set all the same,
\* and c.Next() has nothing left to run.
RequestValidator ==
  /\ Turn("RequestValidator")
  /\ IF route.entity = None THEN Pass /\ Quiet /\ UNCHANGED context
     ELSE IF Malformed THEN Abort(400) /\ UNCHANGED context
     ELSE IF Instance(route.entity) \in InformTypes /\ input.form = "empty"
     THEN Abort(400) /\ Set("Request")
     ELSE Pass /\ Quiet /\ Set("Request")
  /\ UNCHANGED <<route, input, span, events, done>>

\* Mutant: the cached response is written with c.JSON, and the chain goes on.
ResponderGoesOn ==
  /\ Turn("Responder")
  /\ Quiet \/ Write(200)
  /\ Pass
  /\ UNCHANGED <<route, input, context, span, events, done>>

\* ResponderIfKeyExist: only responses with a success status are cached.
Responder ==
  /\ Turn("Responder")
  /\ \/ Pass /\ Quiet
     \/ Abort(200)
  /\ UNCHANGED <<route, input, context, span, events, done>>

SetPublisher ==
  /\ Turn("SetPublisher")
  /\ Around("SetPublisher") /\ Quiet
  /\ UNCHANGED <<route, input, context, span, events, done>>

DeletePublisher ==
  /\ Turn("DeletePublisher")
  /\ Around("DeletePublisher") /\ Quiet
  /\ UNCHANGED <<route, input, context, span, events, done>>

\* A handler answers with one JSON, whatever comes of its call.
Answers(codes) ==
  /\ Turn("Handler")
  /\ \E code \in codes : Abort(code)
  /\ Set("Handler")
  /\ UNCHANGED <<route, input, span, events, done>>

Handler == ~ route.import /\ Answers({200, 408, 500})

\* The course of a handler without a breaker may dereference nil (ServiceCall).
HandlerPanics ==
  /\ Turn("Handler") /\ route.unguarded
  /\ Set("Handler")
  /\ status' = 500
  /\ done' = "panicked"
  /\ stack' = <<>>
  /\ UNCHANGED <<route, input, at, bodies, span, events>>

-----------------------------------------------------------------------------
(* What runs after c.Next(), innermost first, once the chain has ended.      *)

After(name) ==
  /\ done = "no" /\ at > Len(Chain(route))
  /\ stack # <<>> /\ Head(stack) = name
  /\ stack' = Tail(stack)

\* The span is finished in each of its branches.
SpanFinishes ==
  /\ After("TracerSpanStarter")
  /\ span' = "finished"
  /\ UNCHANGED <<route, input, at, context, status, bodies, events, done>>

\* Mutant: a response is published whatever its status.
PublishedAlways(name, topic) ==
  /\ After(name)
  /\ events' = events \cup {<<topic, status>>}
  /\ UNCHANGED <<route, input, at, context, status, bodies, span, done>>

\* Only a response with the success status is published.
Published(name, topic) ==
  /\ After(name)
  /\ events' = IF status = 200 THEN events \cup {<<topic, status>>} ELSE events
  /\ UNCHANGED <<route, input, at, context, status, bodies, span, done>>

SetPublishes    == Published("SetPublisher", "set")
DeletePublishes == Published("DeletePublisher", "delete")

Ends ==
  /\ done = "no" /\ at > Len(Chain(route)) /\ stack = <<>>
  /\ done' = "yes"
  /\ UNCHANGED <<route, input, at, stack, context, status, bodies, span, events>>

-----------------------------------------------------------------------------
Inputs ==
  [token : {"none", "malformed", "foreign scheme", "bad signature", "expired", "valid"},
   form  : {"unbound", "unsupported", "invalid", "empty", "good"}]

PipelineInit ==
  /\ route \in Routes
  /\ input \in Inputs
  /\ at = 1 /\ stack = <<>> /\ context = {}
  /\ status = None /\ bodies = <<>>
  /\ span = "none" /\ events = {} /\ done = "no"

Middleware ==
  \/ SecurityFilter \/ Correlator \/ GinHResponseWriter \/ TracerSpanStarter
  \/ LogEntrySetter \/ Authenticator \/ RequestValidator
  \/ Responder \/ SetPublisher \/ DeletePublisher
  \/ SpanFinishes \/ SetPublishes \/ DeletePublishes \/ Ends
-----------------------------------------------------------------------------
(* Properties.                                                              *)

\* A request is answered with exactly one JSON whose status is the response's,
\* or, after a panic, with a bare 500.
AnsweredOnce ==
  /\ done = "yes" => bodies = <<status>>
  /\ done = "panicked" => (bodies = <<>> /\ status = 500)

\* What is published about a request is about the response its client got, and
\* a response is cached only if the handler made it.
PublishedIsAnswer ==
  \A e \in events :
    /\ bodies = <<200>> /\ e[2] = 200
    /\ e[1] = "set" => "Handler" \in context

\* The handler runs only with what it takes from the context without a check.
HandlerIsPrepared ==
  "Handler" \in context =>
    /\ {"TopSpan", "RequestLogEntry"} \subseteq context
    /\ route.auth => ("Claims" \in context /\ input.token = "valid")
    /\ route.entity # None => ("Request" \in context /\ ~ Malformed)
===============================================================================
