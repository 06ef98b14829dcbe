--------------------------- MODULE ExcelRouteProofs ---------------------------
(***************************************************************************)
(* What ExcelRoute's run checks of a few routes and small workbooks, for   *)
(* every table of routes, every set of sheets and every workbook: how a    *)
(* request is answered, what is published of it and what its handler may   *)
(* rely on, and that what the import sends is the workbook's.              *)
(***************************************************************************)
EXTENDS ExcelRoute, FiniteSetTheorems, FunctionTheorems, SequenceTheorems, WellFoundedInduction, TLAPS

-----------------------------------------------------------------------------
(* The chain.                                                               *)

Stages == {"SecurityFilter", "Correlator", "GinHResponseWriter", "TracerSpanStarter",
           "LogEntrySetter", "Authenticator", "RequestValidator",
           "Responder", "SetPublisher", "DeletePublisher", "Handler"}

\* Where the validator is.
Validator(r) == IF r.auth THEN 7 ELSE 6

\* The chain is the five middlewares of main.go, those of custom_group.go, the
\* redis handlers, and the handler, which is last.
LEMMA ChainShape ==
  ASSUME NEW r \in Routes
  PROVE  LET v == Validator(r) IN
         /\ Chain(r) \in Seq(Stages)
         /\ Len(Chain(r)) = v + Len(r.redis) + 1
         /\ Len(r.redis) \in Nat
         /\ Chain(r)[1] = "SecurityFilter" /\ Chain(r)[2] = "Correlator"
         /\ Chain(r)[3] = "GinHResponseWriter" /\ Chain(r)[4] = "TracerSpanStarter"
         /\ Chain(r)[5] = "LogEntrySetter" /\ (r.auth => Chain(r)[6] = "Authenticator")
         /\ Chain(r)[v] = "RequestValidator"
         /\ \A i \in 1..Len(r.redis) : Chain(r)[v + i] = r.redis[i]
         /\ Chain(r)[Len(Chain(r))] = "Handler"
<1> DEFINE first == <<"SecurityFilter", "Correlator", "GinHResponseWriter", "TracerSpanStarter",
                      "LogEntrySetter">>
           auth == IF r.auth THEN <<"Authenticator">> ELSE <<>>
           a == first \o auth
           b == a \o <<"RequestValidator">>
           c == b \o r.redis
<1>1. r.auth \in BOOLEAN
  BY RoutesAssumption
<1>0. r.redis \in Seq(Stages)
  <2>1. r.redis \in Seq({"Responder", "SetPublisher", "DeletePublisher"})
    BY RoutesAssumption
  <2> QED
    BY <2>1 DEF Stages
<1>2. Chain(r) = c \o <<"Handler">>
  BY DEF Chain
<1>3. /\ a \in Seq(Stages) /\ Len(a) = Validator(r) - 1
      /\ a[1] = "SecurityFilter" /\ a[2] = "Correlator"
      /\ a[3] = "GinHResponseWriter" /\ a[4] = "TracerSpanStarter"
      /\ a[5] = "LogEntrySetter" /\ (r.auth => a[6] = "Authenticator")
  <2>1. first \in Seq(Stages) /\ Len(first) = 5
    BY DEF Stages
  <2>2. CASE r.auth
    <3>1. auth = <<"Authenticator">> /\ auth \in Seq(Stages) /\ Len(auth) = 1
      BY <2>2 DEF Stages
    <3> QED
      BY <2>1, <2>2, <3>1, ConcatProperties DEF Validator
  <2>3. CASE ~ r.auth
    <3>1. auth = <<>> /\ a = first
      BY <2>1, <2>3, ConcatEmptySeq
    <3> QED
      BY <2>1, <2>3, <3>1 DEF Validator
  <2> QED
    BY <1>1, <2>2, <2>3
<1> HIDE DEF a
<1>4. /\ b \in Seq(Stages) /\ Len(b) = Validator(r) /\ b[Validator(r)] = "RequestValidator"
      /\ \A i \in 1..(Validator(r) - 1) : b[i] = a[i]
  <2>1. <<"RequestValidator">> \in Seq(Stages) /\ Len(<<"RequestValidator">>) = 1
    BY DEF Stages
  <2> QED
    BY <1>3, <2>1, ConcatProperties DEF Validator
<1> HIDE DEF b
<1>5. /\ c \in Seq(Stages) /\ Len(c) = Validator(r) + Len(r.redis)
      /\ \A i \in 1..Validator(r) : c[i] = b[i]
      /\ \A i \in 1..Len(r.redis) : c[Validator(r) + i] = r.redis[i]
  <2>1. /\ c \in Seq(Stages) /\ Len(c) = Len(b) + Len(r.redis) /\ Len(r.redis) \in Nat
        /\ \A i \in 1..(Len(b) + Len(r.redis)) : c[i] = IF i <= Len(b) THEN b[i] ELSE r.redis[i - Len(b)]
    <3>1. b \in Seq(Stages) /\ r.redis \in Seq(Stages)
      BY <1>0, <1>4
    <3>2. Len(r.redis) \in Nat
      BY <1>0
    <3> QED
      BY <3>1, <3>2, ConcatProperties
  <2>2. Len(b) = Validator(r) /\ Len(b) \in {6, 7}
    BY <1>4 DEF Validator
  <2>3. ASSUME NEW i \in 1..Len(r.redis) PROVE c[Len(b) + i] = r.redis[i]
    <3> DEFINE j == Len(b) + i
    <3>1. j \in 1..(Len(b) + Len(r.redis)) /\ ~ (j <= Len(b)) /\ j - Len(b) = i
      BY <2>1, <2>2
    <3> HIDE DEF j
    <3>2. c[j] = r.redis[i]
      BY <2>1, <3>1
    <3> QED
      BY <3>2 DEF j
  <2>4. \A i \in 1..Len(b) : c[i] = b[i]
    BY <2>1, <2>2
  <2> QED
    BY <2>1, <2>2, <2>3, <2>4
<1> HIDE DEF c
<1>6. /\ Chain(r) \in Seq(Stages) /\ Len(Chain(r)) = Len(c) + 1
      /\ Chain(r)[Len(c) + 1] = "Handler"
      /\ \A i \in 1..Len(c) : Chain(r)[i] = c[i]
  <2>1. <<"Handler">> \in Seq(Stages) /\ Len(<<"Handler">>) = 1
    BY DEF Stages
  <2> QED
    BY <1>2, <1>5, <2>1, ConcatProperties
<1>7. Validator(r) \in {6, 7} /\ (r.auth <=> Validator(r) = 7)
  BY <1>1 DEF Validator
<1>8. Len(r.redis) \in Nat
  BY <1>0
<1>9. ASSUME NEW i \in 1..(Validator(r) - 1) PROVE Chain(r)[i] = a[i]
  <2>1. i \in 1..Validator(r) /\ i \in 1..Len(c)
    BY <1>5, <1>7, <1>8
  <2> QED
    BY <1>4, <1>5, <1>6, <2>1
<1>10. ASSUME NEW i \in 1..Len(r.redis) PROVE Chain(r)[Validator(r) + i] = r.redis[i]
  <2>1. Validator(r) + i \in 1..Len(c)
    BY <1>5, <1>7, <1>8
  <2> QED
    BY <1>5, <1>6, <2>1
<1>11. Chain(r)[Validator(r)] = "RequestValidator"
  BY <1>4, <1>5, <1>6, <1>7, <1>8
<1>12. /\ Chain(r)[1] = a[1] /\ Chain(r)[2] = a[2] /\ Chain(r)[3] = a[3] /\ Chain(r)[4] = a[4]
       /\ Chain(r)[5] = a[5] /\ (r.auth => Chain(r)[6] = a[6])
  BY <1>7, <1>9
<1>13. /\ Chain(r)[Len(Chain(r))] = "Handler"
       /\ Len(Chain(r)) = Validator(r) + Len(r.redis) + 1
  BY <1>5, <1>6
<1> QED
  BY <1>3, <1>6, <1>8, <1>10, <1>11, <1>12, <1>13
\* A middleware runs at its place in the chain.
LEMMA TurnPlaces ==
  ASSUME route \in Routes, at \in 1..(Len(Chain(route)) + 1), NEW name, Turn(name)
  PROVE  LET v == Validator(route) IN
         /\ name # "Handler" => at < Len(Chain(route))
         /\ name = "Handler" => at = Len(Chain(route))
         /\ at = 4 <=> name = "TracerSpanStarter"
         /\ at = 5 <=> name = "LogEntrySetter"
         /\ route.auth => (at = 6 <=> name = "Authenticator")
         /\ name = "Authenticator" => route.auth
         /\ at = v <=> name = "RequestValidator"
         /\ name = "SecurityFilter" => at = 1
         /\ name \in {"Responder", "SetPublisher", "DeletePublisher"} =>
              at - v \in 1..Len(route.redis) /\ route.redis[at - v] = name
<1> DEFINE r == route
           v == Validator(r)
           n == Len(r.redis)
<1> DEFINE Placed ==
     /\ name # "Handler" => at < Len(Chain(route))
     /\ name = "Handler" => at = Len(Chain(route))
     /\ at = 4 <=> name = "TracerSpanStarter"
     /\ at = 5 <=> name = "LogEntrySetter"
     /\ route.auth => (at = 6 <=> name = "Authenticator")
     /\ name = "Authenticator" => route.auth
     /\ at = v <=> name = "RequestValidator"
     /\ name = "SecurityFilter" => at = 1
     /\ name \in {"Responder", "SetPublisher", "DeletePublisher"} =>
          at - v \in 1..n /\ route.redis[at - v] = name
<1> SUFFICES Placed
  OBVIOUS
<1>0. v \in {6, 7} /\ (r.auth <=> v = 7)
  BY RoutesAssumption DEF Validator
<1> HIDE DEF v
<1>1. n \in Nat /\ Len(Chain(r)) = v + n + 1
  BY ChainShape DEF v
<1>2. Chain(r)[at] = name /\ at \in 1..Len(Chain(r))
  BY <1>1 DEF Turn
<1>3. \A i \in 1..n : r.redis[i] \in {"Responder", "SetPublisher", "DeletePublisher"}
  BY RoutesAssumption
<1>4. CASE at <= 5
  <2>1. /\ at = 1 => name = "SecurityFilter"
        /\ at = 2 => name = "Correlator"
        /\ at = 3 => name = "GinHResponseWriter"
        /\ at = 4 => name = "TracerSpanStarter"
        /\ at = 5 => name = "LogEntrySetter"
    BY <1>2, ChainShape
  <2>2. at \in {1, 2, 3, 4, 5}
    BY <1>1, <1>2, <1>4
  <2> QED
    BY <1>0, <1>1, <2>1, <2>2
<1>5. CASE at = 6 /\ r.auth
  <2>1. name = "Authenticator"
    BY <1>2, <1>5, ChainShape
  <2> QED
    BY <1>0, <1>1, <1>5, <2>1
<1>6. CASE at = v
  <2>1. name = "RequestValidator"
    BY <1>2, <1>6, ChainShape DEF v
  <2> QED
    BY <1>0, <1>1, <1>6, <2>1
<1>7. CASE at > v /\ at < v + n + 1
  <2> DEFINE k == at - v
  <2>1. k \in 1..n /\ at = v + k
    <3> HIDE DEF n
    <3> QED
      BY <1>0, <1>1, <1>2, <1>7
  <2> HIDE DEF k
  <2>2. name = r.redis[k] /\ r.redis[k] \in {"Responder", "SetPublisher", "DeletePublisher"}
    BY <1>2, <1>3, <2>1, ChainShape DEF v
  <2>3. k = at - v
    BY DEF k
  <2> QED
    BY <1>0, <1>1, <1>7, <2>1, <2>2, <2>3
<1>8. CASE at = v + n + 1
  <2>1. name = "Handler"
    BY <1>1, <1>2, <1>8, ChainShape
  <2> QED
    BY <1>0, <1>1, <1>8, <2>1
<1> HIDE DEF Placed
<1> QED
  BY <1>0, <1>1, <1>2, <1>4, <1>5, <1>6, <1>7, <1>8

-----------------------------------------------------------------------------
(* One request.                                                             *)

\* The chain has got beyond its place n, or the handler has begun.
Beyond(n) == (at > n /\ at <= Len(Chain(route))) \/ "Handler" \in context

\* What the middlewares gone through have left in the context.
Prepared ==
  /\ Beyond(4) => "TopSpan" \in context
  /\ Beyond(5) => "RequestLogEntry" \in context
  /\ Beyond(6) /\ route.auth => "Claims" \in context /\ input.token = "valid"
  /\ Beyond(Validator(route)) /\ route.entity # None => "Request" \in context /\ ~ Malformed
  /\ "Handler" \in context => at >= Len(Chain(route))

\* The response is written by what ends the chain, and by nothing else.
Written ==
  /\ done \in {"no", "yes", "panicked"}
  /\ at <= Len(Chain(route)) => bodies = <<>> /\ events = {}
  /\ at > Len(Chain(route)) => bodies = <<status>>
  /\ done = "yes" => at > Len(Chain(route))
  /\ done = "panicked" => at <= Len(Chain(route)) /\ status = 500

\* Behind a publisher of responses only the handler ends the chain.
Publishing ==
  /\ \A i \in DOMAIN stack : stack[i] = "SetPublisher" =>
       \/ "Handler" \in context
       \/ /\ at <= Len(Chain(route))
          /\ \E j \in DOMAIN route.redis :
               route.redis[j] = "SetPublisher" /\ Validator(route) + j < at
  /\ \A e \in events : e[2] = 200 /\ status = 200 /\ (e[1] = "set" => "Handler" \in context)

PipelineInv ==
  /\ route \in Routes /\ at \in 1..(Len(Chain(route)) + 1) /\ stack \in Seq(Stages)
  /\ Prepared /\ Written /\ Publishing

LEMMA PipelineInvSuffices ==
  PipelineInv => AnsweredOnce /\ PublishedIsAnswer /\ HandlerIsPrepared
<1> SUFFICES ASSUME PipelineInv PROVE AnsweredOnce /\ PublishedIsAnswer /\ HandlerIsPrepared
  OBVIOUS
<1>1. Len(Chain(route)) \in Nat
  BY ChainShape DEF PipelineInv
<1>2. AnsweredOnce
  BY <1>1 DEF PipelineInv, Written, AnsweredOnce
<1>3. HandlerIsPrepared
  BY DEF PipelineInv, Prepared, Beyond, HandlerIsPrepared
<1>4. ASSUME NEW e \in events PROVE bodies = <<200>>
  <2>1. at > Len(Chain(route))
    BY <1>1, <1>4 DEF PipelineInv, Written
  <2> QED
    BY <1>4, <2>1 DEF PipelineInv, Written, Publishing
<1>5. PublishedIsAnswer
  BY <1>4 DEF PipelineInv, Publishing, PublishedIsAnswer
<1> QED
  BY <1>2, <1>3, <1>5

\* A middleware that passes the request on.
LEMMA GoesOn ==
  ASSUME PipelineInv, NEW name \in Stages, Turn(name), name # "Handler",
         at' = at + 1, UNCHANGED <<route, input, status, bodies, events, done>>,
         stack' = stack \/ (stack' = <<name>> \o stack /\ name \notin {"Responder", "Handler"}),
         context \subseteq context', "Handler" \in context' => "Handler" \in context,
         at = 4 => "TopSpan" \in context', at = 5 => "RequestLogEntry" \in context',
         at = 6 /\ route.auth => "Claims" \in context' /\ input.token = "valid",
         at = Validator(route) /\ route.entity # None => "Request" \in context' /\ ~ Malformed
  PROVE  PipelineInv'
<1> DEFINE v == Validator(route)
           l == Len(Chain(route))
<1>1. v \in {6, 7} /\ l \in Nat /\ l > v /\ at \in 1..l /\ at < l
  <2>1. v \in {6, 7}
    BY DEF Validator
  <2>2. Len(route.redis) \in Nat /\ l = v + Len(route.redis) + 1
    BY ChainShape DEF PipelineInv
  <2>3. at < l /\ at \in 1..(l + 1)
    BY TurnPlaces DEF PipelineInv
  <2> HIDE DEF v, l
  <2> QED
    BY <2>1, <2>2, <2>3
<1>2. v' = v /\ l' = l /\ (Malformed' <=> Malformed)
  BY DEF Validator, Chain, Malformed
<1>3. route' \in Routes /\ at' \in 1..(l + 1)
  BY <1>1 DEF PipelineInv
<1>4. stack' \in Seq(Stages)
  <2>1. <<name>> \in Seq(Stages)
    OBVIOUS
  <2> QED
    BY <2>1, ConcatProperties DEF PipelineInv
<1> HIDE DEF v, l
<1>5. Prepared'
  BY <1>1, <1>2 DEF PipelineInv, Prepared, Beyond, v, l
<1>6. Written'
  BY <1>1, <1>2, <1>3 DEF PipelineInv, Written, Turn, l
<1>7. Publishing'
  <2>1. events' = {}
    BY <1>1 DEF PipelineInv, Written, l
  <2>2. ASSUME NEW i \in DOMAIN stack, stack[i] = "SetPublisher"
        PROVE  \E j \in DOMAIN route.redis : route.redis[j] = "SetPublisher" /\ v + j < at + 1
    <3>1. "Handler" \notin context
      BY <1>1 DEF PipelineInv, Prepared, l
    <3>2. PICK j \in DOMAIN route.redis : route.redis[j] = "SetPublisher" /\ v + j < at
      BY <2>2, <3>1 DEF PipelineInv, Publishing, v
    <3>3. j \in Nat
      BY <3>2, ChainShape, RoutesAssumption DEF PipelineInv
    <3> QED
      BY <1>1, <3>2, <3>3
  <2>3. ASSUME name = "SetPublisher"
        PROVE  \E j \in DOMAIN route.redis : route.redis[j] = "SetPublisher" /\ v + j < at + 1
    <3>1. at - v \in 1..Len(route.redis) /\ route.redis[at - v] = "SetPublisher"
      BY <2>3, TurnPlaces DEF PipelineInv, v
    <3>2. DOMAIN route.redis = 1..Len(route.redis)
      BY RoutesAssumption DEF PipelineInv
    <3> QED
      BY <1>1, <3>1, <3>2
  <2>4. ASSUME NEW i \in DOMAIN stack', stack'[i] = "SetPublisher"
        PROVE  name = "SetPublisher" \/ \E k \in DOMAIN stack : stack[k] = "SetPublisher"
    <3>1. CASE stack' = stack
      BY <2>4, <3>1
    <3>2. CASE stack' = <<name>> \o stack
      <4>1. <<name>> \in Seq(Stages) /\ Len(<<name>>) = 1 /\ <<name>>[1] = name
        OBVIOUS
      <4>2. i \in 1..(1 + Len(stack)) /\ Len(stack) \in Nat
            /\ stack'[i] = IF i <= 1 THEN name ELSE stack[i - 1]
        BY <2>4, <3>2, <4>1, ConcatProperties DEF PipelineInv
      <4>3. CASE i = 1
        BY <2>4, <4>2, <4>3
      <4>4. CASE i # 1
        <5>1. i - 1 \in DOMAIN stack /\ stack[i - 1] = "SetPublisher"
          BY <2>4, <4>2, <4>4 DEF PipelineInv
        <5> QED
          BY <5>1
      <4> QED
        BY <4>3, <4>4
    <3> QED
      BY <3>1, <3>2
  <2>5. at + 1 <= l
    BY <1>1
  <2> QED
    BY <1>2, <2>1, <2>2, <2>3, <2>4, <2>5 DEF Publishing, v, l
<1> QED
  BY <1>2, <1>3, <1>4, <1>5, <1>6, <1>7 DEF PipelineInv, l
\* What ends the chain with a response.
LEMMA Aborts ==
  ASSUME PipelineInv, NEW name, Turn(name), NEW code, Abort(code),
         UNCHANGED <<route, input, span, events, done>>,
         context \subseteq context',
         name = "Handler" <=> "Handler" \in context',
         name \notin {"SetPublisher", "DeletePublisher"}
  PROVE  PipelineInv'
<1> DEFINE v == Validator(route)
           l == Len(Chain(route))
<1>1. v \in {6, 7} /\ l \in Nat /\ l > v /\ at \in 1..l
  <2>1. v \in {6, 7}
    BY DEF Validator
  <2>2. Len(route.redis) \in Nat /\ l = v + Len(route.redis) + 1
    BY ChainShape DEF PipelineInv
  <2>3. at \in 1..(l + 1) /\ at <= l
    BY DEF PipelineInv, Turn
  <2> HIDE DEF v, l
  <2> QED
    BY <2>1, <2>2, <2>3
<1>2. v' = v /\ l' = l /\ (Malformed' <=> Malformed)
  BY DEF Validator, Chain, Malformed
<1>3. at' = l + 1 /\ stack' = stack /\ status' = code /\ bodies' = <<code>>
  BY <1>1 DEF PipelineInv, Written, Abort, Write
<1>4. name = "Handler" <=> at = l
  BY <1>1, TurnPlaces DEF PipelineInv
<1> HIDE DEF v, l
<1>5. Prepared'
  BY <1>1, <1>2, <1>3, <1>4 DEF PipelineInv, Prepared, Beyond, v, l
<1>6. Written'
  BY <1>1, <1>2, <1>3 DEF PipelineInv, Written, Turn, l
<1>7. Publishing'
  <2>1. events' = {}
    BY <1>1 DEF PipelineInv, Written, l
  <2>2. ASSUME NEW i \in DOMAIN stack, stack[i] = "SetPublisher", name # "Handler" PROVE FALSE
    <3>1. at < l
      BY <1>1, <1>4, <2>2
    <3>2. "Handler" \notin context
      BY <1>1, <3>1 DEF PipelineInv, Prepared, l
    <3>3. PICK j \in DOMAIN route.redis : route.redis[j] = "SetPublisher" /\ v + j < at
      BY <2>2, <3>2 DEF PipelineInv, Publishing, v
    <3>4. j \in 1..Len(route.redis) /\ Len(route.redis) \in Nat /\ l = v + Len(route.redis) + 1
      BY <3>3, ChainShape, RoutesAssumption DEF PipelineInv, v, l
    <3>5. at - v \in 1..Len(route.redis) /\ j < at - v
      BY <1>1, <3>1, <3>3, <3>4
    <3>6. route.redis[at - v] = name
      <4> DEFINE k == at - v
      <4>1. k \in 1..Len(route.redis) /\ at = v + k
        BY <1>1, <3>5
      <4> HIDE DEF k
      <4>2. Chain(route)[at] = route.redis[k]
        BY <4>1, ChainShape DEF PipelineInv, v
      <4> QED
        BY <4>2 DEF Turn, k
    <3>7. name # "Responder" /\ name \in {"Responder", "SetPublisher", "DeletePublisher"}
      BY <3>3, <3>4, <3>5, <3>6, RoutesAssumption DEF PipelineInv
    <3> QED
      BY <3>7
  <2> QED
    BY <1>3, <2>1, <2>2 DEF Publishing
<1> QED
  BY <1>1, <1>2, <1>3, <1>5, <1>6, <1>7 DEF PipelineInv, l

\* What runs after c.Next(), and publishes or not.
LEMMA Unwinds ==
  ASSUME PipelineInv, NEW name, After(name),
         UNCHANGED <<route, input, at, context, status, bodies, done>>,
         NEW topic, name # "SetPublisher" => topic # "set",
         events' = events \/ (status = 200 /\ events' = events \cup {<<topic, status>>})
  PROVE  PipelineInv'
<1>1. Len(Chain(route)) \in Nat /\ at \in Nat /\ at > Len(Chain(route)) /\ stack \in Seq(Stages)
  BY ChainShape DEF PipelineInv, After
<1>2. (Malformed' <=> Malformed) /\ Chain(route)' = Chain(route) /\ Validator(route)' = Validator(route)
  BY DEF Validator, Chain, Malformed
<1>3. stack' \in Seq(Stages) /\ \A i \in DOMAIN stack' : \E k \in DOMAIN stack : stack'[i] = stack[k]
  <2>1. stack # <<>> /\ stack' = Tail(stack)
    BY DEF After
  <2>2. /\ Tail(stack) \in Seq(Stages) /\ Len(Tail(stack)) = Len(stack) - 1
        /\ \A i \in 1..Len(Tail(stack)) : Tail(stack)[i] = stack[i + 1]
    BY <1>1, <2>1, HeadTailProperties
  <2>3. ASSUME NEW i \in DOMAIN Tail(stack) PROVE i + 1 \in DOMAIN stack /\ Tail(stack)[i] = stack[i + 1]
    BY <1>1, <2>2
  <2> QED
    BY <2>1, <2>2, <2>3
<1>4. \A i \in DOMAIN stack : stack[i] = "SetPublisher" => "Handler" \in context
  BY <1>1 DEF PipelineInv, Publishing
<1>5. events' # events /\ topic = "set" => "Handler" \in context
  <2>1. Head(stack) = stack[1] /\ 1 \in DOMAIN stack /\ Head(stack) = name
    BY <1>1 DEF After
  <2> QED
    BY <1>4, <2>1
<1>6. Publishing'
  <2>1. \A i \in DOMAIN stack' : stack'[i] = "SetPublisher" => "Handler" \in context
    BY <1>3, <1>4
  <2>2. \A e \in events' : e[2] = 200 /\ status = 200 /\ (e[1] = "set" => "Handler" \in context)
    BY <1>5 DEF PipelineInv, Publishing
  <2> QED
    BY <2>1, <2>2 DEF Publishing
<1>7. Prepared' /\ Written'
  BY <1>1, <1>2 DEF PipelineInv, Prepared, Beyond, Written
<1> QED
  BY <1>2, <1>3, <1>6, <1>7 DEF PipelineInv

\* The handler of a route begins, with the request as it has been prepared.
LEMMA Begins ==
  ASSUME PipelineInv, Turn("Handler"), context' = context \cup {"Handler"},
         UNCHANGED <<route, input, at, bodies, events>>, stack' = stack \/ stack' = <<>>,
         UNCHANGED <<status, done>> \/ (status' = 500 /\ done' = "panicked")
  PROVE  PipelineInv'
<1>1. at = Len(Chain(route)) /\ Validator(route) < at /\ 6 < at /\ at \in Nat
  <2>1. /\ Validator(route) \in {6, 7} /\ Len(route.redis) \in Nat
        /\ Len(Chain(route)) = Validator(route) + Len(route.redis) + 1
    BY ChainShape DEF PipelineInv, Validator
  <2>2. at = Len(Chain(route))
    BY TurnPlaces DEF PipelineInv
  <2> QED
    BY <2>1, <2>2
<1>2. (Malformed' <=> Malformed) /\ Chain(route)' = Chain(route) /\ Validator(route)' = Validator(route)
  BY DEF Validator, Chain, Malformed
<1>3. Prepared'
  BY <1>1, <1>2 DEF PipelineInv, Prepared, Beyond
<1>4. Written'
  BY <1>1, <1>2 DEF PipelineInv, Written, Turn
<1>5. Publishing'
  BY <1>1 DEF PipelineInv, Publishing, Written
<1>6. stack' \in Seq(Stages)
  BY EmptySeq DEF PipelineInv
<1> QED
  BY <1>2, <1>3, <1>4, <1>5, <1>6 DEF PipelineInv

\* Every middleware, handler and panic keeps the invariant.
LEMMA PipelineStep == PipelineInv /\ [Next]_requestVars => PipelineInv'
<1> SUFFICES ASSUME PipelineInv, [Next]_requestVars PROVE PipelineInv'
  OBVIOUS
<1> USE DEF Set, Pass, Quiet, Stages
<1>0. "Handler" \in context => \A name : Turn(name) => name = "Handler"
  BY TurnPlaces, ChainShape DEF PipelineInv, Prepared
<1>1. CASE SecurityFilter
  <2>1. at = 1
    BY <1>1, TurnPlaces DEF SecurityFilter, PipelineInv
  <2>2. CASE Pass /\ Quiet
    BY <1>1, <2>1, <2>2, GoesOn, RoutesAssumption DEF SecurityFilter, Validator
  <2>3. CASE Abort(407)
    BY <1>0, <1>1, <2>3, Aborts DEF SecurityFilter
  <2> QED
    BY <1>1, <2>2, <2>3 DEF SecurityFilter
<1>2. CASE Correlator
  <2>1. at \notin {4, 5} /\ (route.auth => at # 6) /\ at # Validator(route)
    BY <1>2, TurnPlaces DEF Correlator, PipelineInv
  <2> QED
    BY <1>2, <2>1, GoesOn DEF Correlator
<1>3. CASE GinHResponseWriter
  <2>1. at \notin {4, 5} /\ (route.auth => at # 6) /\ at # Validator(route)
    BY <1>3, TurnPlaces DEF GinHResponseWriter, PipelineInv
  <2> QED
    BY <1>3, <2>1, GoesOn DEF GinHResponseWriter
<1>4. CASE TracerSpanStarter
  <2>1. at # 5 /\ (route.auth => at # 6) /\ at # Validator(route)
    BY <1>4, TurnPlaces DEF TracerSpanStarter, PipelineInv
  <2> QED
    BY <1>4, <2>1, GoesOn DEF TracerSpanStarter, Around
<1>5. CASE LogEntrySetter
  <2>1. at # 4 /\ (route.auth => at # 6) /\ at # Validator(route)
    BY <1>5, TurnPlaces DEF LogEntrySetter, PipelineInv
  <2> QED
    BY <1>5, <2>1, GoesOn DEF LogEntrySetter
<1>6. CASE Authenticator
  <2>1. at \notin {4, 5} /\ at # Validator(route)
    BY <1>6, TurnPlaces DEF Authenticator, PipelineInv
  <2>2. CASE Abort(401)
    BY <1>0, <1>6, <2>2, Aborts DEF Authenticator, Abort
  <2>3. CASE ~ Abort(401)
    BY <1>6, <2>1, <2>3, GoesOn DEF Authenticator
  <2> QED
    BY <2>2, <2>3
<1>7. CASE RequestValidator
  <2>1. at \notin {4, 5} /\ (route.auth => at # 6)
    BY <1>7, TurnPlaces DEF RequestValidator, PipelineInv
  <2>2. CASE Abort(400)
    BY <1>0, <1>7, <2>2, Aborts DEF RequestValidator, Abort
  <2>3. CASE ~ Abort(400)
    BY <1>7, <2>1, <2>3, GoesOn DEF RequestValidator
  <2> QED
    BY <2>2, <2>3
<1>8. CASE Responder
  <2>1. at \notin {4, 5} /\ (route.auth => at # 6) /\ at # Validator(route)
    BY <1>8, TurnPlaces DEF Responder, PipelineInv
  <2>2. CASE Abort(200)
    BY <1>0, <1>8, <2>2, Aborts DEF Responder, Abort
  <2>3. CASE ~ Abort(200)
    BY <1>8, <2>1, <2>3, GoesOn DEF Responder
  <2> QED
    BY <2>2, <2>3
<1>9. CASE SetPublisher
  <2>1. at \notin {4, 5} /\ (route.auth => at # 6) /\ at # Validator(route)
    BY <1>9, TurnPlaces DEF SetPublisher, PipelineInv
  <2> QED
    BY <1>9, <2>1, GoesOn DEF SetPublisher, Around
<1>10. CASE DeletePublisher
  <2>1. at \notin {4, 5} /\ (route.auth => at # 6) /\ at # Validator(route)
    BY <1>10, TurnPlaces DEF DeletePublisher, PipelineInv
  <2> QED
    BY <1>10, <2>1, GoesOn DEF DeletePublisher, Around
<1>11. CASE SpanFinishes
  BY <1>11, Unwinds DEF SpanFinishes
<1>12. CASE SetPublishes
  BY <1>12, Unwinds DEF SetPublishes, Published
<1>13. CASE DeletePublishes
  BY <1>13, Unwinds DEF DeletePublishes, Published
<1>14. CASE Ends
  <2>1. (Malformed' <=> Malformed) /\ Chain(route)' = Chain(route) /\ Validator(route)' = Validator(route)
    BY <1>14 DEF Ends, Validator, Chain, Malformed
  <2>2. Written'
    BY <1>14, <2>1, ChainShape DEF Ends, PipelineInv, Written
  <2> QED
    BY <1>14, <2>1, <2>2 DEF Ends, PipelineInv, Prepared, Beyond, Publishing
<1>15. ASSUME NEW codes, Answers(codes) PROVE PipelineInv'
  <2>1. PICK code \in codes : Abort(code)
    BY <1>15 DEF Answers
  <2> QED
    BY <1>15, <2>1, Aborts DEF Answers
<1>16. CASE HandlerPanics
  BY <1>16, Begins DEF HandlerPanics
<1>17. CASE BeginImport
  BY <1>17, Begins DEF BeginImport
<1>18. CASE UNCHANGED pipelineVars
  <2>1. (Malformed' <=> Malformed) /\ Chain(route)' = Chain(route) /\ Validator(route)' = Validator(route)
    BY <1>18 DEF pipelineVars, Validator, Chain, Malformed
  <2> QED
    BY <1>18, <2>1 DEF pipelineVars, PipelineInv, Prepared, Beyond, Written, Publishing
<1> QED
  BY <1>1, <1>2, <1>3, <1>4, <1>5, <1>6, <1>7, <1>8, <1>9, <1>10, <1>11, <1>12, <1>13, <1>14,
     <1>15, <1>16, <1>17, <1>18
     DEF Next, requestVars, Middleware, OtherHandler, Handler, RefuseImport, CallService

LEMMA PipelineInvInit == Init => PipelineInv
<1> SUFFICES ASSUME Init PROVE PipelineInv
  OBVIOUS
<1>1. Validator(route) \in {6, 7} /\ Len(route.redis) \in Nat
      /\ Len(Chain(route)) = Validator(route) + Len(route.redis) + 1
  BY ChainShape DEF Init, PipelineInit, Validator
<1> QED
  BY <1>1 DEF Init, PipelineInit, PipelineInv, Prepared, Beyond, Written, Publishing

LEMMA PipelineInvHolds == Spec => []PipelineInv
BY PipelineInvInit, PipelineStep, PTL DEF Spec

\* Whatever refuses, aborts or panics on its way, a request is answered once.
THEOREM RequestsAnsweredOnce == Spec => []AnsweredOnce
BY PipelineInvHolds, PipelineInvSuffices, PTL

\* What is published is the success its client got; only the handler's response
\* is cached, never one that came from the cache.
THEOREM PublishedIsTheAnswer == Spec => []PublishedIsAnswer
BY PipelineInvHolds, PipelineInvSuffices, PTL

\* No handler runs without what it takes from the context unchecked: the span, the
\* log entry, the claims of a valid token and a request that is well formed.
THEOREM HandlersArePrepared == Spec => []HandlerIsPrepared
BY PipelineInvHolds, PipelineInvSuffices, PTL
-----------------------------------------------------------------------------
(* The import of a workbook.                                                *)

\* A number within a bound has a greatest one in any set of such numbers that is
\* not empty: the least of the bounds of the set is in it.
LEMMA Greatest ==
  ASSUME NEW n \in Nat, NEW C \in SUBSET (1..n), C # {}
  PROVE  \E i \in C : \A j \in C : j <= i
<1> DEFINE Less == {pair \in Nat \X Nat : pair[1] < pair[2]}
           Bounds == {u \in Nat : \A j \in C : j <= u}
<1>1. IsWellFoundedOn(Less, Nat)
  BY NatLessThanWellFounded DEF OpToRel
<1>2. Bounds \subseteq Nat /\ n \in Bounds
  OBVIOUS
<1> HIDE DEF Less
<1>3. PICK u \in Bounds : \A w \in Bounds : ~ (<<w, u>> \in Less)
  BY <1>1, <1>2, WFMin
<1>4. u \in C
  <2> SUFFICES ASSUME u \notin C PROVE FALSE
    OBVIOUS
  <2>1. PICK c \in C : TRUE
    OBVIOUS
  <2>2. u - 1 \in Bounds
    BY <2>1
  <2>3. <<u - 1, u>> \in Less
    BY <2>2 DEF Less
  <2> QED
    BY <1>3, <2>2, <2>3
<1> QED
  BY <1>4

\* The column of an attribute is the last one of its name.
LEMMA ColumnIsLast ==
  ASSUME NEW attrs \in Seq(STRING), NEW a, \E i \in DOMAIN attrs : attrs[i] = a
  PROVE  /\ Column(attrs, a) \in DOMAIN attrs /\ attrs[Column(attrs, a)] = a
         /\ \A j \in DOMAIN attrs : attrs[j] = a => j <= Column(attrs, a)
<1> DEFINE C == {i \in DOMAIN attrs : attrs[i] = a}
<1>1. Len(attrs) \in Nat /\ DOMAIN attrs = 1..Len(attrs)
  OBVIOUS
<1>2. PICK i \in C : \A j \in C : j <= i
  BY <1>1, Greatest
<1>3. i \in DOMAIN attrs /\ attrs[i] = a /\ \A j \in DOMAIN attrs : attrs[j] = a => j <= i
  BY <1>2
<1> QED
  BY <1>3 DEF Column

\* A row the loop finds full is one where nothing is blank, and what it accepts or
\* not are the values below the last columns.
LEMMA FullIsFilled ==
  ASSUME NEW s, Rows(s) \in Seq(Seq(STRING)), NEW i \in DOMAIN Rows(s), HasAttrs(Rows(s)[1])
  PROVE  /\ Full(Rows(s)[1], Rows(s)[i]) <=> Filled(s, i)
         /\ Filled(s, i) => \A a \in Attrs : ValueOf(s, i, a) = Rows(s)[i][Column(Rows(s)[1], a)]
<1> DEFINE attrs == Rows(s)[1]
           cells == Rows(s)[i]
<1>1. attrs \in Seq(STRING) /\ cells \in Seq(STRING)
  BY DEF HasAttrs
<1>2. DOMAIN attrs = 1..Len(attrs) /\ DOMAIN cells = 1..Len(cells)
      /\ Len(attrs) \in Nat /\ Len(cells) \in Nat
  BY <1>1
<1> HIDE DEF cells
<1>3. ASSUME NEW a \in Attrs
      PROVE  /\ ValueOf(s, i, a) = IF Column(attrs, a) <= Len(cells) THEN cells[Column(attrs, a)]
                                   ELSE "blank"
             /\ Column(attrs, a) \in 1..Len(attrs)
  <2> DEFINE cols == {j \in DOMAIN attrs : attrs[j] = a}
             last == CHOOSE j \in cols : \A k \in cols : k <= j
             c == Column(attrs, a)
  <2>1. /\ c \in DOMAIN attrs /\ attrs[c] = a
        /\ \A j \in DOMAIN attrs : attrs[j] = a => j <= c
    BY <1>1, <1>3, ColumnIsLast DEF HasAttrs
  <2> HIDE DEF c
  <2>2. c \in cols /\ \A k \in cols : k <= c
    BY <2>1
  <2>3. last \in cols /\ \A k \in cols : k <= last
    BY <2>2
  <2>4. last = c
    <3>1. last \in Nat /\ c \in Nat /\ last <= c /\ c <= last
      BY <1>2, <2>2, <2>3
    <3> HIDE DEF last
    <3> QED
      BY <3>1
  <2>5. ValueOf(s, i, a) = IF last \in DOMAIN cells THEN cells[last] ELSE "blank"
    BY DEF ValueOf, cells
  <2> HIDE DEF last
  <2>6. c \in 1..Len(attrs)
    BY <1>2, <2>1
  <2>7. last \in DOMAIN cells <=> c <= Len(cells)
    BY <1>2, <2>4, <2>6
  <2> QED
    BY <2>4, <2>5, <2>6, <2>7 DEF c
<1>4. Full(attrs, cells) <=> Filled(s, i)
  BY <1>3 DEF Full, Filled
<1>5. ASSUME Filled(s, i), NEW a \in Attrs PROVE ValueOf(s, i, a) = cells[Column(attrs, a)]
  BY <1>3, <1>5 DEF Filled
<1> QED
  BY <1>4, <1>5 DEF cells

\* The rows the loop takes, if it comes to the end.
Taken ==
  UNION {{s} \X {i \in 2..Len(Rows(s)) : Filled(s, i)} :
           s \in {r \in Read : ~ book[r].broken /\ ~ TooFew(r)}}

\* What such a row is.
LEMMA TakenRows ==
  /\ \A p \in Taken : p = <<p[1], p[2]>> /\ p[1] \in Read
  /\ \A s, i : <<s, i>> \in Taken <=>
       /\ s \in Read /\ ~ book[s].broken /\ ~ TooFew(s)
       /\ i \in 2..Len(Rows(s)) /\ Filled(s, i)
BY DEF Taken

\* Those the loop is done with.
Passed == {p \in Taken : p[1] \notin todo /\ (p[1] = sheet => p[2] < row)}

\* Of the sheets and rows it is done with, the import has found none faulty and
\* holds each complete row once.
Gathered ==
  /\ book \in Books /\ asked \in Sheets \cup {NoSheet} /\ todo \subseteq Read
  /\ sheet # NoSheet => /\ sheet \in Read \ todo /\ row \in 2..Len(Rows(sheet))
                   /\ ~ TooFew(sheet)
  /\ \A s \in Read \ todo : ~ book[s].broken /\ (~ TooFew(s) => HasAttrs(Rows(s)[1]))
  /\ students \in Seq(Taken)
  /\ {students[i] : i \in DOMAIN students} = Passed
  /\ \A i, j \in DOMAIN students : students[i] = students[j] => i = j
  /\ \A p \in Passed, a \in Attrs : ValueOf(p[1], p[2], a) # "bad"

ImportInv ==
  /\ answer = "off" => sheet = NoSheet /\ students = <<>>
  /\ answer \in {"none", "call"} => Gathered
  /\ answer = "call" => sheet = NoSheet /\ todo = {}

LEMMA AllPassed ==
  ASSUME ImportInv, answer = "call"
  PROVE  Gathered /\ Passed = Taken /\ todo = {}
<1>1. \A p \in Taken : p[1] \in Sheets
  <2>1. Read \subseteq Sheets
    BY DEF Read, ImportInv, Gathered
  <2> QED
    BY <2>1, TakenRows
<1> QED
  BY <1>1, BooksAssumption DEF ImportInv, Passed

\* The rows of a sheet are counted.
LEMMA SheetRows ==
  ASSUME book \in Books, NEW s \in Sheets
  PROVE  /\ Rows(s) \in Seq(Seq(STRING))
         /\ Len(Rows(s)) \in Nat /\ DOMAIN Rows(s) = 1..Len(Rows(s))
<1>1. Rows(s) \in Seq(Seq(STRING))
  BY BooksAssumption DEF Rows
<1> QED
  BY <1>1, LenProperties

\* The test of the loop passes over the sheets without a row of values and the pairs.
LEMMA TestOfTheLoop ==
  ASSUME book \in Books, NEW s \in Sheets, s \in Read
  PROVE  TooFew(s) <=> Sparse(s) \/ s \in Pairs
<1> DEFINE n == Len(Rows(s))
<1>1. n \in Nat
  BY SheetRows
<1> HIDE DEF n
<1>2. ~ (n > 2) <=> n < 2 \/ n = 2
  BY <1>1
<1>3. s \in Pairs <=> n = 2
  BY DEF Pairs, n
<1> QED
  BY <1>2, <1>3 DEF TooFew, Sparse, n

\* What it takes of a workbook without a faulty sheet are the students of all but
\* the pairs.
LEMMA TakenIsAllButPairs ==
  ASSUME book \in Books, Read \subseteq Sheets,
         \A s \in Read : ~ TooFew(s) => HasAttrs(Rows(s)[1])
  PROVE  Taken = CompleteButPairs
<1>1. \A s \in Read : ~ TooFew(s) <=> ~ Sparse(s) /\ HasAttrs(Rows(s)[1]) /\ s \notin Pairs
  BY TestOfTheLoop
<1>2. \A s, i : <<s, i>> \in CompleteButPairs <=>
        /\ s \in Read /\ ~ book[s].broken
        /\ ~ Sparse(s) /\ HasAttrs(Rows(s)[1]) /\ s \notin Pairs
        /\ i \in 2..Len(Rows(s)) /\ Filled(s, i)
  BY DEF CompleteButPairs, Complete
<1>3. \A s, i : <<s, i>> \in Taken <=> <<s, i>> \in CompleteButPairs
  BY <1>1, <1>2, TakenRows
<1>4. \A p \in CompleteButPairs : p = <<p[1], p[2]>>
  BY DEF CompleteButPairs, Complete
<1>5. \A p \in Taken : p \in CompleteButPairs
  BY <1>3, TakenRows
<1>6. \A p \in CompleteButPairs : p \in Taken
  BY <1>3, <1>4
<1> QED
  BY <1>5, <1>6

LEMMA ImportInvSuffices == ImportInv => SentIsAllButPairs /\ FaultyIsRefused
<1> SUFFICES ASSUME ImportInv, answer = "call" PROVE SentIsAllButPairs /\ FaultyIsRefused
  BY DEF SentIsAllButPairs, FaultyIsRefused
<1>1. Gathered /\ Passed = Taken /\ todo = {}
  BY AllPassed
<1>2. Len(students) \in Nat /\ students \in [1..Len(students) -> Taken]
  <2>1. students \in Seq(Taken)
    BY <1>1 DEF Gathered
  <2> QED
    BY <2>1
<1>3. students \in Bijection(1..Len(students), Taken)
  <2>1. \A i, j \in 1..Len(students) : students[i] = students[j] => i = j
    BY <1>1, <1>2 DEF Gathered
  <2>2. \A p \in Taken : \E i \in 1..Len(students) : students[i] = p
    BY <1>1, <1>2 DEF Gathered
  <2> QED
    BY <1>2, <2>1, <2>2, Fun_IsBij
<1>4. Len(students) = Cardinality(Taken)
  <2>1. IsFiniteSet(1..Len(students)) /\ Cardinality(1..Len(students)) = Len(students)
    <3>1. 1 \in Int /\ Len(students) \in Int
      BY <1>2
    <3>2. Cardinality(1..Len(students)) = IF 1 > Len(students) THEN 0 ELSE Len(students) - 1 + 1
      BY <3>1, FS_Interval
    <3> QED
      BY <1>2, <3>1, <3>2, FS_Interval
  <2>2. ExistsBijection(1..Len(students), Taken)
    BY <1>3 DEF ExistsBijection
  <2> QED
    BY <2>1, <2>2, FS_Bijection
<1>5. Read \subseteq Sheets
  BY <1>1 DEF Gathered, Read
<1>6. Taken = CompleteButPairs
  BY <1>1, <1>5, TakenIsAllButPairs DEF Gathered
<1>7. SentIsAllButPairs
  BY <1>1, <1>4, <1>6 DEF Gathered, SentIsAllButPairs
<1>8. FaultyIsRefused
  BY <1>1, <1>5, <1>6, TestOfTheLoop DEF Gathered, FaultyIsRefused
<1> QED
  BY <1>7, <1>8

\* What the steps of the loop leave alone.
LEMMA SameBook ==
  ASSUME UNCHANGED <<book, asked>>
  PROVE  /\ Read' = Read /\ Taken' = Taken
         /\ \A s : Rows(s)' = Rows(s) /\ TooFew(s)' = TooFew(s)
         /\ \A s, i, a : ValueOf(s, i, a)' = ValueOf(s, i, a)
<1>1. \A s : Rows(s)' = Rows(s)
  BY DEF Rows
<1>2. Read' = Read
  BY DEF Read
<1>3. \A s : TooFew(s)' = TooFew(s)
  BY DEF TooFew, Rows
<1>4. \A s, i, a : ValueOf(s, i, a)' = ValueOf(s, i, a)
  BY DEF ValueOf, Rows
<1>5. Taken' = Taken
  BY DEF Taken, Filled, ValueOf, Rows, Read, TooFew
<1> QED
  BY <1>1, <1>2, <1>3, <1>4, <1>5

\* A complete row is one of a sheet to be read, behind its first row.
LEMMA TakenAt ==
  ASSUME book \in Books, asked \in Sheets \cup {NoSheet}, NEW p \in Taken
  PROVE  /\ p = <<p[1], p[2]>>
         /\ p[1] \in Read /\ p[1] # NoSheet /\ ~ TooFew(p[1])
         /\ p[2] \in Nat /\ 2 <= p[2] /\ p[2] <= Len(Rows(p[1]))
<1>1. p = <<p[1], p[2]>> /\ p[1] \in Read
  BY TakenRows
<1>2. ~ TooFew(p[1]) /\ p[2] \in 2..Len(Rows(p[1]))
  BY <1>1, TakenRows
<1>3. p[1] \in Sheets
  BY <1>1, BooksAssumption DEF Read
<1>4. Len(Rows(p[1])) \in Nat
  BY <1>3, SheetRows
<1>5. p[2] \in Nat /\ 2 <= p[2] /\ p[2] <= Len(Rows(p[1]))
  BY <1>2, <1>4
<1>6. p[1] # NoSheet
  BY <1>3, BooksAssumption
<1> QED
  BY <1>1, <1>2, <1>5, <1>6

\* The row the loop is at is next: it is complete if it is full.
LEMMA AtRow ==
  ASSUME Gathered, sheet # NoSheet
  PROVE  /\ Len(Rows(sheet)) \in Nat /\ row \in Nat /\ 2 <= row /\ row <= Len(Rows(sheet))
         /\ <<sheet, row>> \notin Passed
         /\ Full(Names, Cells) <=> <<sheet, row>> \in Taken
         /\ <<sheet, row>> \in Taken =>
              \A a \in Attrs : ValueOf(sheet, row, a) = Cells[Column(Names, a)]
<1>1. sheet \in Read /\ sheet \in Sheets /\ ~ book[sheet].broken /\ ~ TooFew(sheet)
      /\ HasAttrs(Rows(sheet)[1]) /\ book \in Books
  BY DEF Gathered, Read
<1>2. /\ Rows(sheet) \in Seq(Seq(STRING))
      /\ Len(Rows(sheet)) \in Nat /\ DOMAIN Rows(sheet) = 1..Len(Rows(sheet))
  BY <1>1, SheetRows
<1>3. row \in 2..Len(Rows(sheet))
  BY DEF Gathered
<1>4. row \in Nat /\ 2 <= row /\ row <= Len(Rows(sheet)) /\ row \in 1..Len(Rows(sheet))
  BY <1>2, <1>3
<1>5. <<sheet, row>> \notin Passed
  <2>1. ~ (row < row)
    BY <1>4
  <2> QED
    BY <2>1 DEF Passed
<1>6. Full(Names, Cells) <=> Filled(sheet, row)
  BY <1>1, <1>2, <1>4, FullIsFilled DEF Names, Cells
<1>7. Filled(sheet, row) <=> <<sheet, row>> \in Taken
  BY <1>1, <1>3, TakenRows
<1>8. Filled(sheet, row) => \A a \in Attrs : ValueOf(sheet, row, a) = Cells[Column(Names, a)]
  BY <1>1, <1>2, <1>4, FullIsFilled DEF Names, Cells
<1> QED
  BY <1>2, <1>4, <1>5, <1>6, <1>7, <1>8

\* The loop goes on behind its row.
LEMMA Moves ==
  ASSUME Gathered, sheet # NoSheet, NextRow, UNCHANGED <<book, asked, todo>>
  PROVE  /\ Passed' = Passed \cup ({<<sheet, row>>} \cap Taken)
         /\ sheet' # NoSheet => sheet' = sheet /\ row' \in 2..Len(Rows(sheet))
<1> DEFINE last == Len(Rows(sheet))
           here == sheet
<1>1. last \in Nat /\ row \in Nat /\ 2 <= row /\ row <= last
  BY AtRow
<1>2. here \notin todo /\ book \in Books /\ asked \in Sheets \cup {NoSheet}
  BY DEF Gathered
<1>3. Taken' = Taken
  BY SameBook
<1>4. \A p \in Taken : /\ p = <<p[1], p[2]>> /\ p[1] # NoSheet /\ p[2] \in Nat
                       /\ p[1] = here => p[2] <= last
  BY <1>2, TakenAt
<1>5. row = last => sheet' = NoSheet
  BY DEF NextRow
<1>6. row # last => sheet' = here /\ row' = row + 1
  BY DEF NextRow
<1>7. sheet' # NoSheet => sheet' = here /\ row' \in 2..last
  BY <1>1, <1>5, <1>6
<1> HIDE DEF last
<1>8. ASSUME NEW p \in Taken
      PROVE  p \in Passed' <=> p \in Passed \/ p = <<here, row>>
  <2>1. /\ p = <<p[1], p[2]>> /\ p[1] # NoSheet /\ p[2] \in Nat
        /\ p[1] = here => p[2] <= last
    BY <1>4
  <2>2. p \in Passed' <=> p[1] \notin todo /\ (p[1] = sheet' => p[2] < row')
    BY <1>3 DEF Passed
  <2>3. p \in Passed <=> p[1] \notin todo /\ (p[1] = here => p[2] < row)
    BY DEF Passed
  <2>4. p = <<here, row>> <=> p[1] = here /\ p[2] = row
    BY <2>1
  <2>5. CASE p[1] = here
    <3>1. p[2] <= row <=> p[2] < row \/ p[2] = row
      BY <1>1, <2>1
    <3>2. row = last => (p \in Passed' <=> p[1] \notin todo)
      BY <1>5, <2>1, <2>2
    <3>3. row # last => (p \in Passed' <=> p[1] \notin todo /\ p[2] < row + 1)
      BY <1>6, <2>2, <2>5
    <3>4. p[2] < row + 1 <=> p[2] <= row
      BY <1>1, <2>1
    <3> QED
      BY <1>2, <2>1, <2>3, <2>4, <2>5, <3>1, <3>2, <3>3, <3>4
  <2>6. CASE p[1] # here
    BY <1>5, <1>6, <2>1, <2>2, <2>3, <2>4, <2>6
  <2> QED
    BY <2>5, <2>6
<1>9. Passed \subseteq Taken /\ Passed' \subseteq Taken
  BY <1>3 DEF Passed
<1> QED
  BY <1>7, <1>8, <1>9 DEF last

\* Every step of the import keeps the invariant.
LEMMA ImportKeeps == ImportInv /\ [Next]_requestVars => ImportInv'
<1> SUFFICES ASSUME ImportInv, [Next]_requestVars PROVE ImportInv'
  OBVIOUS
<1>1. CASE UNCHANGED importVars
  <2>1. Passed' = Passed
    BY <1>1, SameBook DEF importVars, Passed
  <2>2. Gathered => Gathered'
    BY <1>1, <2>1, SameBook DEF importVars, Gathered
  <2> QED
    BY <1>1, <2>2 DEF importVars, ImportInv
<1>2. CASE BeginImport
  <2>1. /\ sheet' = NoSheet /\ students' = <<>> /\ answer' = "none" /\ todo' = Read'
        /\ book' \in Books /\ asked' \in Sheets \cup {NoSheet}
    BY <1>2 DEF BeginImport, ImportBegins, ImportInv, Read
  <2>2. Passed' = {}
    <3>1. \A p \in Taken' : p[1] \in Read'
      BY TakenRows DEF Taken
    <3> QED
      BY <2>1, <3>1 DEF Passed
  <2>3. students' \in Seq(Taken') /\ DOMAIN students' = {}
    BY <2>1, EmptySeq
  <2> QED
    BY <2>1, <2>2, <2>3 DEF ImportInv, Gathered
<1>3. CASE RefuseFile \/ (\E s \in Sheets : SheetFails(s) \/ RefuseAttrs(s)) \/ RefuseRow
  BY <1>3 DEF RefuseFile, SheetFails, RefuseAttrs, RefuseRow, ImportInv
<1>4. ASSUME NEW s \in Sheets, SkipSheet(s) \/ OpenSheet(s) PROVE ImportInv'
  <2>1. /\ sheet = NoSheet /\ answer = "none" /\ s \in todo /\ ~ book[s].broken /\ todo' = todo \ {s}
        /\ UNCHANGED <<book, asked, students, answer>> /\ Gathered
        /\ ~ TooFew(s) => HasAttrs(Rows(s)[1])
    BY <1>4 DEF SkipSheet, OpenSheet, ImportInv
  <2>2. \A p \in Taken : /\ p = <<p[1], p[2]>> /\ p[1] # NoSheet
                         /\ p[1] = s => ~ TooFew(s) /\ p[2] \in 2..Len(Rows(s))
    <3>1. Read \subseteq Sheets
      BY <2>1 DEF Gathered, Read
    <3> QED
      BY <3>1, TakenRows, BooksAssumption
  <2>3. Passed' = Passed
    <3>1. CASE SkipSheet(s)
      <4>1. sheet' = NoSheet /\ TooFew(s)
        BY <2>1, <3>1 DEF SkipSheet
      <4> QED
        BY <2>1, <2>2, <4>1, SameBook DEF Passed
    <3>2. CASE OpenSheet(s)
      <4>1. sheet' = s /\ row' = 2
        BY <3>2 DEF OpenSheet
      <4>2. \A p \in Taken : p[1] = s => ~ (p[2] < 2)
        BY <2>2
      <4> QED
        BY <2>1, <2>2, <4>1, <4>2, SameBook DEF Passed
    <3> QED
      BY <1>4, <3>1, <3>2
  <2>4. sheet' # NoSheet => sheet' \in Read \ todo' /\ row' \in 2..Len(Rows(sheet')) /\ ~ TooFew(sheet')
    <3>1. Rows(s) \in Seq(Seq(STRING))
      BY <2>1, BooksAssumption DEF Gathered, Rows
    <3>2. Len(Rows(s)) \in Nat
      BY <3>1
    <3>3. CASE OpenSheet(s)
      BY <2>1, <3>2, <3>3 DEF OpenSheet, TooFew, Gathered
    <3> QED
      BY <1>4, <2>1, <3>3 DEF SkipSheet
  <2>5. Gathered'
    BY <2>1, <2>3, <2>4, SameBook DEF Gathered
  <2> QED
    BY <2>1, <2>5 DEF ImportInv
<1>5. CASE SkipRow
  <2>1. /\ sheet # NoSheet /\ answer = "none" /\ NextRow /\ ~ Full(Names, Cells)
        /\ UNCHANGED <<book, asked, todo, students, answer>> /\ Gathered
    BY <1>5 DEF SkipRow, ImportInv
  <2>2. Passed' = Passed /\ (sheet' # NoSheet => sheet' = sheet /\ row' \in 2..Len(Rows(sheet)))
    BY <2>1, AtRow, Moves
  <2>3. Gathered'
    BY <2>1, <2>2, SameBook DEF Gathered
  <2> QED
    BY <2>1, <2>3 DEF ImportInv
<1>6. CASE TakeRow
  <2> DEFINE new == <<sheet, row>>
  <2>1. /\ sheet # NoSheet /\ answer = "none" /\ NextRow /\ Full(Names, Cells) /\ AllAccepted(Names, Cells)
        /\ students' = Append(students, new)
        /\ UNCHANGED <<book, asked, todo, answer>> /\ Gathered
    BY <1>6 DEF TakeRow, ImportInv
  <2>2. new \in Taken /\ new \notin Passed
    BY <2>1, AtRow
  <2>3. /\ Passed' = Passed \cup {new}
        /\ sheet' # NoSheet => sheet' = sheet /\ row' \in 2..Len(Rows(sheet))
    BY <2>1, <2>2, Moves
  <2>4. \A a \in Attrs : ValueOf(sheet, row, a) # "bad"
    BY <2>1, <2>2, AtRow DEF AllAccepted, Accepted
  <2> HIDE DEF new
  <2>5. /\ students \in Seq(Taken) /\ students' \in Seq(Taken)
        /\ Len(students) \in Nat /\ Len(students') = Len(students) + 1
        /\ \A i \in 1..Len(students) : students'[i] = students[i]
        /\ students'[Len(students) + 1] = new
    BY <2>1, <2>2, AppendProperties DEF Gathered
  <2>6. {students'[i] : i \in DOMAIN students'} = Passed \cup {new}
    <3>1. Passed = {students[i] : i \in 1..Len(students)}
      BY <2>1, <2>5 DEF Gathered
    <3>2. DOMAIN students' = 1..(Len(students) + 1)
      BY <2>5
    <3> QED
      BY <2>5, <3>1, <3>2
  <2>7. \A i \in 1..Len(students) : students[i] # new
    BY <2>1, <2>2, <2>5 DEF Gathered
  <2>8. \A i, j \in DOMAIN students' : students'[i] = students'[j] => i = j
    <3>1. \A i, j \in 1..Len(students) : students[i] = students[j] => i = j
      BY <2>1, <2>5 DEF Gathered
    <3>2. DOMAIN students' = 1..(Len(students) + 1)
      BY <2>5
    <3> QED
      BY <2>5, <2>7, <3>1, <3>2
  <2>9. \A p \in Passed \cup {new}, a \in Attrs : ValueOf(p[1], p[2], a) # "bad"
    BY <2>1, <2>4 DEF Gathered, new
  <2>10. Gathered'
    BY <2>1, <2>3, <2>5, <2>6, <2>8, <2>9, SameBook DEF Gathered
  <2> QED
    BY <2>1, <2>10 DEF ImportInv
<1>7. CASE Send
  <2>1. Passed' = Passed
    BY <1>7, SameBook DEF Send, Passed
  <2>2. Gathered'
    BY <1>7, <2>1, SameBook DEF Send, ImportInv, Gathered
  <2> QED
    BY <1>7, <2>2 DEF Send, ImportInv
<1> QED
  BY <1>1, <1>2, <1>3, <1>4, <1>5, <1>6, <1>7
     DEF Next, requestVars, RefuseImport, CallService, ImportStep

LEMMA ImportInvHolds == Spec => []ImportInv
<1>1. Init => ImportInv
  BY DEF Init, ImportOff, ImportInv
<1> QED
  BY <1>1, ImportKeeps, PTL DEF Spec

\* Every student of the workbook is sent, each once, in whatever order the map
\* yields its sheets, except the one of a sheet of two rows.
THEOREM AllButPairsIsSent == Spec => []SentIsAllButPairs
BY ImportInvHolds, ImportInvSuffices, PTL

\* One faulty sheet, wherever it comes in the map's order, and nothing is sent.
THEOREM FaultyBooksAreRefused == Spec => []FaultyIsRefused
BY ImportInvHolds, ImportInvSuffices, PTL
===============================================================================
