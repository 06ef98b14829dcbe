------------------------------ MODULE ExcelRoute ------------------------------
(***************************************************************************)
(* One request through the middleware and the handler of its route.  The   *)
(* handler of the routes main.go:281-282 is the import of a workbook, which *)
(* answers 400 by itself or calls the service; any other is its answer.    *)
(***************************************************************************)
EXTENDS Pipeline, ExcelImport

requestVars == <<pipelineVars, importVars>>

-----------------------------------------------------------------------------
OtherHandler == Handler \/ (HandlerPanics /\ ~ route.import)

BeginImport ==
  /\ Turn("Handler") /\ route.import
  /\ ImportBegins
  /\ Set("Handler")
  /\ UNCHANGED <<route, input, at, stack, status, bodies, span, events, done>>

RefuseImport == answer = "400" /\ Answers({400}) /\ UNCHANGED importVars

\* The handler has no breaker, and tests the error of the consul query a second
\* time instead of the call's: it panics if the call fails.
CallService ==
  /\ answer = "call"
  /\ Answers({200, 408, 500}) \/ HandlerPanics
  /\ UNCHANGED importVars

-----------------------------------------------------------------------------
Init == PipelineInit /\ ImportOff

Next ==
  \/ (Middleware \/ OtherHandler) /\ UNCHANGED importVars
  \/ BeginImport \/ RefuseImport \/ CallService
  \/ ImportStep /\ UNCHANGED pipelineVars

Spec == Init /\ [][Next]_requestVars
===============================================================================
