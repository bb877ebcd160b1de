-------------------------- MODULE PlaygroundProofs --------------------------
(***************************************************************************)
(* The pending request, its timeout and the live flow of the page agree,   *)
(* for every number of runs, events, edits and faults.  The page cannot    *)
(* rely on the order of its callbacks, so the argument is an inductive     *)
(* invariant: RunAndFlowAgree together with the shape of the messages that *)
(* are on their way, which a result needs not to be taken for null.        *)
(***************************************************************************)
EXTENDS Playground, TLAPS

Running == [id : Nat, source : Nat, events : Nat]

\* What is on its way between the page and its workers is well formed, and a
\* busy worker executes a run that was started.
WorkersTyped ==
  /\ phase \in [Workers -> {"absent", "loading", "idle", "busy", "broken", "terminated"}]
  /\ requests \in [Workers -> Seq(Requests)]
  /\ inbox \in [Workers -> Seq(Messages)]
  /\ running \in [Workers -> Running]
  /\ \A w \in Workers : phase[w] = "busy" => running[w].id # 0

\* The page replaces at most one worker for each run it started, so it never
\* runs out of workers.
PageTyped ==
  /\ requestSequence \in 0 .. MaxRuns
  /\ worker \in Nat \ {0}
  /\ worker <= requestSequence + (IF pendingRequest = 0 THEN 1 ELSE 0)
  /\ pendingRequest \in Nat
  /\ astPreviewSequence \in Nat
  /\ source \in Sources

IInv == WorkersTyped /\ PageTyped /\ RunAndFlowAgree

-----------------------------------------------------------------------------
(***************************************************************************)
(* Queues of messages, one for each worker.                                *)
(***************************************************************************)

\* Posting keeps every queue a sequence of messages.
LEMMA PostedTyped ==
  ASSUME NEW S, NEW queues \in [Workers -> Seq(S)], NEW w \in Workers, NEW m \in S
  PROVE  [queues EXCEPT ![w] = Append(@, m)] \in [Workers -> Seq(S)]
  OBVIOUS

\* Taking the oldest message keeps it one, and yields a message.
LEMMA TakenTyped ==
  ASSUME NEW S, NEW queues \in [Workers -> Seq(S)], NEW w \in Workers, queues[w] # <<>>
  PROVE  /\ Head(queues[w]) \in S
         /\ [queues EXCEPT ![w] = Tail(@)] \in [Workers -> Seq(S)]
  <1>1. queues[w] \in Seq(S)
    OBVIOUS
  <1>2. Head(queues[w]) \in S /\ Tail(queues[w]) \in Seq(S)
    BY <1>1
  <1> QED
    BY <1>2

\* A worker's own steps post well formed messages.
LEMMA WorkerStepTyped ==
  ASSUME WorkersTyped, NEW w \in Workers, WorkerStep(w)
  PROVE  WorkersTyped'
  <1>1. CASE FinishLoading(w)
    <2>1. \E m \in Messages : inbox' = [inbox EXCEPT ![w] = Append(@, m)]
      <3>1. \A t \in {"ready", "error"} : [type |-> t] \in Messages
        BY DEF Messages
      <3> QED
        BY <1>1, <3>1 DEF FinishLoading, Post
    <2>2. inbox' \in [Workers -> Seq(Messages)]
      BY <2>1, PostedTyped DEF WorkersTyped
    <2> QED
      BY <1>1, <2>2 DEF FinishLoading, WorkersTyped
  <1>2. CASE ServeParse(w)
    <2>1. Head(requests[w]) \in Requests /\ requests' \in [Workers -> Seq(Requests)]
      BY <1>2, TakenTyped DEF ServeParse, Takes, WorkersTyped
    <2>2. [type |-> "ast", id |-> Head(requests[w]).id, source |-> Head(requests[w]).source]
            \in Messages
      BY <2>1 DEF Messages, Requests
    <2>3. inbox' \in [Workers -> Seq(Messages)]
      BY <1>2, <2>2, PostedTyped DEF ServeParse, Post, WorkersTyped
    <2> QED
      BY <1>2, <2>1, <2>3 DEF ServeParse, WorkersTyped
  <1>3. CASE BeginSimulate(w)
    <2> DEFINE request == Head(requests[w])
    <2>1. request \in Requests /\ requests' \in [Workers -> Seq(Requests)]
      BY <1>3, TakenTyped DEF BeginSimulate, Takes, WorkersTyped
    <2>2. CASE /\ phase' = [phase EXCEPT ![w] = "busy"]
               /\ running' = [running EXCEPT ![w] =
                    [id |-> request.id, source |-> request.source, events |-> 0]]
               /\ UNCHANGED inbox
      <3>1. /\ [id |-> request.id, source |-> request.source, events |-> 0] \in Running
            /\ request.id # 0
        BY <2>1 DEF Requests, Running
      <3> QED
        BY <2>1, <2>2, <3>1 DEF WorkersTyped
    <2>3. CASE /\ Post(w, [type |-> "failure", id |-> request.id])
               /\ UNCHANGED <<phase, running>>
      <3>1. [type |-> "failure", id |-> request.id] \in Messages
        BY <2>1 DEF Messages, Requests
      <3>2. inbox' \in [Workers -> Seq(Messages)]
        BY <2>3, <3>1, PostedTyped DEF Post, WorkersTyped
      <3> QED
        BY <2>1, <2>3, <3>2 DEF WorkersTyped
    <2> QED
      BY <1>3, <2>2, <2>3 DEF BeginSimulate
  <1>4. CASE StreamTrace(w)
    <2> DEFINE run == running[w]
    <2>1. run \in Running /\ run.id # 0
      BY <1>4 DEF StreamTrace, WorkersTyped
    <2>2. [id |-> run.id, source |-> run.source, events |-> run.events + 1] \in Running
      BY <2>1 DEF Running
    <2>3. [run |-> run.id, source |-> run.source, number |-> run.events + 1] \in TraceEvents
      BY <2>1 DEF Running, TraceEvents
    <2>4. [type |-> "trace", id |-> run.id,
           event |-> [run |-> run.id, source |-> run.source, number |-> run.events + 1]]
            \in Messages
      BY <2>1, <2>3 DEF Running, Messages
    <2>5. inbox' \in [Workers -> Seq(Messages)]
      BY <1>4, <2>4, PostedTyped DEF StreamTrace, Post, WorkersTyped
    <2>6. running' \in [Workers -> Running]
      BY <1>4, <2>2 DEF StreamTrace, WorkersTyped
    <2>7. \A v \in Workers : running'[v].id = running[v].id
      BY <1>4 DEF StreamTrace, WorkersTyped
    <2> QED
      BY <1>4, <2>5, <2>6, <2>7 DEF StreamTrace, WorkersTyped
  <1>5. CASE FinishSimulate(w)
    <2> DEFINE run == running[w]
    <2>1. run \in Running /\ run.id # 0
      BY <1>5 DEF FinishSimulate, WorkersTyped
    <2>2. [run |-> run.id, source |-> run.source, events |-> run.events] \in Results
      BY <2>1 DEF Running, Results
    <2>3. /\ [type |-> "result", id |-> run.id,
              result |-> [run |-> run.id, source |-> run.source, events |-> run.events]]
               \in Messages
          /\ [type |-> "failure", id |-> run.id] \in Messages
      BY <2>1, <2>2 DEF Running, Messages
    <2>4. inbox' \in [Workers -> Seq(Messages)]
      <3>1. \E m \in Messages : inbox' = [inbox EXCEPT ![w] = Append(@, m)]
        BY <1>5, <2>3 DEF FinishSimulate, Post
      <3> QED
        BY <3>1, PostedTyped DEF WorkersTyped
    <2>5. running' \in [Workers -> Running] /\ phase'[w] = "idle"
      BY <1>5 DEF FinishSimulate, WorkersTyped, Idle, Running
    <2> QED
      BY <1>5, <2>4, <2>5 DEF FinishSimulate, WorkersTyped
  <1> QED
    BY <1>1, <1>2, <1>3, <1>4, <1>5 DEF WorkerStep

-----------------------------------------------------------------------------
(***************************************************************************)
(* What the page does to the queues and workers.                           *)
(***************************************************************************)

\* A terminated worker posts nothing more, and its successor starts afresh.
LEMMA ReplaceTyped ==
  ASSUME WorkersTyped, NEW w \in Workers, Replace(w)
  PROVE  WorkersTyped'
  <1>1. <<>> \in Seq(Messages) /\ <<>> \in Seq(Requests) /\ Idle \in Running
    BY DEF Idle, Running
  <1>2. inbox[w] \in Seq(Messages)
    BY DEF WorkersTyped
  <1>3. inbox' \in [Workers -> Seq(Messages)]
    BY <1>1, <1>2 DEF Replace, WorkersTyped
  <1>4. requests' \in [Workers -> Seq(Requests)] /\ running' \in [Workers -> Running]
    BY <1>1 DEF Replace, WorkersTyped
  <1>5. phase' \in [Workers -> {"absent", "loading", "idle", "busy", "broken", "terminated"}]
    BY DEF Replace, WorkersTyped
  <1>6. \A v \in Workers : phase'[v] = "busy" => phase[v] = "busy" /\ v # w
    BY DEF Replace, WorkersTyped
  <1>7. \A v \in Workers : v # w => running'[v] = running[v]
    BY DEF Replace, WorkersTyped
  <1> QED
    BY <1>3, <1>4, <1>5, <1>6, <1>7 DEF WorkersTyped

\* Handling a message takes it from its queue, and it is well formed.
LEMMA ArrivesTyped ==
  ASSUME WorkersTyped, NEW w \in Workers, NEW type, Arrives(w, type)
  PROVE  WorkersTyped' /\ Head(inbox[w]) \in Messages
  BY TakenTyped DEF Arrives, WorkersTyped

\* A result that arrives carries a response that is not null.
LEMMA ResultTyped ==
  ASSUME NEW m \in Messages, m.type = "result"
  PROVE  m.result \in Results
  BY DEF Messages

\* Posting a request to a worker.
LEMMA RequestTyped ==
  ASSUME WorkersTyped, NEW w \in Workers, NEW r \in Requests, PostRequest(w, r),
         UNCHANGED <<phase, inbox, running>>
  PROVE  WorkersTyped'
  BY PostedTyped DEF PostRequest, WorkersTyped

-----------------------------------------------------------------------------
(***************************************************************************)
(* What the helpers of the page do to the request and the live flow.       *)
(***************************************************************************)
\* Nothing of a live flow is left.
FlowCleared ==
  /\ liveRuntime = 0
  /\ liveFinalResponse = NoResponse
  /\ liveTraceEvents = <<>>
  /\ liveRevealTimer = FALSE
  /\ livePaused = FALSE

\* A step of the drawing either ends a run whose response is there or leaves
\* the run and its response alone.
LEMMA AdvanceKeepsOrEnds ==
  ASSUME NEW events, AdvanceLiveFlow(events)
  PROVE  \/ UNCHANGED <<liveRuntime, liveFinalResponse>>
         \/ liveFinalResponse # NoResponse /\ FlowCleared'
  BY DEF AdvanceLiveFlow, KeepDrawing, RenderResponse, ClearLive, FlowCleared

\* Rendering, successful or not, clears the flow.
LEMMA RenderClears ==
  /\ RenderFailure => FlowCleared'
  /\ ClearLive => FlowCleared'
  /\ \A response : RenderResponse(response) => FlowCleared'
  BY DEF RenderFailure, RenderResponse, ClearLive, FlowCleared

\* With nothing pending, armed or drawn, the request and the flow agree.
LEMMA ClearedAgrees ==
  ASSUME FlowCleared, pendingRequest = 0, timeouts = {}
  PROVE  RunAndFlowAgree
  BY DEF FlowCleared, RunAndFlowAgree

\* NoResponse is the null that no worker posts.
LEMMA NullIsNoResult == NoResponse \notin Results
  BY DEF NoResponse, Results

-----------------------------------------------------------------------------
(***************************************************************************)
(* The invariant.                                                          *)
(***************************************************************************)
LEMMA InitIInv == Init => IInv
  <1> SUFFICES ASSUME Init PROVE IInv
    OBVIOUS
  <1>1. WorkersTyped
    <2>1. <<>> \in Seq(Messages) /\ <<>> \in Seq(Requests) /\ Idle \in Running
      BY DEF Idle, Running
    <2> QED
      BY <2>1 DEF Init, WorkersInit, WorkersTyped
  <1>2. PageTyped
    BY MaxRunsAssumption DEF Init, PageTyped
  <1>3. RunAndFlowAgree
    BY DEF Init, RunAndFlowAgree
  <1> QED
    BY <1>1, <1>2, <1>3 DEF IInv

\* The page's own worker is one of the session.
LEMMA OwnWorker ==
  ASSUME PageTyped
  PROVE  worker \in Workers
  BY MaxRunsAssumption DEF PageTyped, Workers

\* Every step keeps what is on its way well formed.
LEMMA NextWorkersTyped ==
  ASSUME IInv, [Next]_vars
  PROVE  WorkersTyped'
  <1>0. WorkersTyped /\ PageTyped /\ worker \in Workers
    BY OwnWorker DEF IInv
  <1>1. CASE UNCHANGED workerVars
    BY <1>0, <1>1 DEF WorkersTyped, workerVars
  <1>2. CASE RunSimulation
    <2> DEFINE r == [type |-> "simulate", id |-> requestSequence + 1, source |-> source]
    <2>1. r \in Requests
      BY <1>0, SourcesAssumption DEF PageTyped, Requests
    <2>2. PostRequest(worker, r) /\ UNCHANGED <<phase, inbox, running>>
      BY <1>2 DEF RunSimulation
    <2> QED
      BY <1>0, <2>1, <2>2, RequestTyped
  <1>3. CASE StopLiveRun
    BY <1>0, <1>1, <1>3, ReplaceTyped DEF StopLiveRun, RestartWorker
  <1>4. CASE \E id \in timeouts : RunTimeout(id)
    BY <1>0, <1>1, <1>4, ReplaceTyped DEF RunTimeout, RestartWorker
  <1>5. CASE RequestASTPreview
    <2> DEFINE r == [type |-> "parse", id |-> astPreviewSequence + 1, source |-> source]
    <2>1. r \in Requests
      BY <1>0, SourcesAssumption DEF PageTyped, Requests
    <2>2. CASE workerReady /\ liveRuntime = 0
      <3>1. PostRequest(worker, r) /\ UNCHANGED <<phase, inbox, running>>
        BY <1>5, <2>2 DEF RequestASTPreview
      <3> QED
        BY <1>0, <2>1, <3>1, RequestTyped
    <2>3. CASE ~(workerReady /\ liveRuntime = 0)
      BY <1>1, <1>5, <2>3 DEF RequestASTPreview, workerVars
    <2> QED
      BY <2>2, <2>3
  <1>6. CASE \E w \in Workers : WorkerMessage(w)
    BY <1>0, <1>6, ArrivesTyped
    DEF WorkerMessage, OnReady, OnError, OnAST, OnTrace, OnResult, OnFailure
  <1>7. CASE \E w \in Workers : WorkerStep(w)
    BY <1>0, <1>7, WorkerStepTyped
  <1> QED
    BY <1>1, <1>2, <1>3, <1>4, <1>5, <1>6, <1>7
    DEF Next, vars, Edit, RejectRun, ToggleLivePause, RevealTimer, OnWorkerFault

\* The variables that the agreement is about.
agreeVars == <<workerReady, pendingRequest, timeouts, liveRuntime, liveTraceEvents,
               liveFinalResponse, liveRevealTimer, livePaused>>

\* The bound on workers survives whatever ends a request, and a restart.
LEMMA NextPageTyped ==
  ASSUME IInv, [Next]_vars
  PROVE  PageTyped'
  <1>0. PageTyped
    BY DEF IInv
  <1>1. CASE UNCHANGED <<requestVars, source, astPreviewSequence>>
    BY <1>0, <1>1 DEF PageTyped, requestVars
  <1>2. CASE \E text \in Sources : Edit(text)
    BY <1>0, <1>2 DEF PageTyped, Edit, requestVars
  <1>3. CASE RunSimulation
    <2>1. pendingRequest = 0
      BY <1>3 DEF RunSimulation, MayRun, IInv, RunAndFlowAgree
    <2> QED
      BY <1>0, <1>3, <2>1, MaxRunsAssumption DEF PageTyped, RunSimulation, userVars
  <1>4. CASE StopLiveRun
    BY <1>0, <1>4 DEF PageTyped, StopLiveRun, RestartWorker, userVars
  <1>5. CASE \E id \in timeouts : RunTimeout(id)
    <2>1. PICK id \in timeouts : RunTimeout(id)
      BY <1>5
    <2>2. id = pendingRequest /\ pendingRequest # 0
      BY <2>1 DEF IInv, RunAndFlowAgree
    <2> QED
      BY <1>0, <2>1, <2>2 DEF PageTyped, RunTimeout, RestartWorker, userVars
  <1>6. CASE RequestASTPreview
    BY <1>0, <1>6 DEF PageTyped, RequestASTPreview, requestVars, userVars
  <1>7. CASE OnWorkerFault
    BY <1>0, <1>7 DEF PageTyped, OnWorkerFault, FailWorker, previewVars
  <1>8. CASE \E w \in Workers : WorkerMessage(w)
    <2>1. PICK w \in Workers : WorkerMessage(w)
      BY <1>8
    <2>2. CASE OnReady(w)
      BY <1>0, <2>2 DEF PageTyped, OnReady, Arrives, userVars
    <2>3. CASE OnError(w)
      BY <1>0, <2>3 DEF PageTyped, OnError, FailWorker, Arrives, userVars, previewVars
    <2>4. CASE OnAST(w)
      BY <1>1, <2>4 DEF OnAST, Arrives, userVars
    <2>5. CASE OnTrace(w)
      BY <1>1, <2>5 DEF OnTrace, Arrives, userVars
    <2>6. CASE OnResult(w)
      BY <1>0, <2>6 DEF PageTyped, OnResult, EndRequest, Arrives, userVars, requestVars
    <2>7. CASE OnFailure(w)
      BY <1>0, <2>7
      DEF PageTyped, OnFailure, EndRequest, Arrives, userVars, requestVars, previewVars
    <2> QED
      BY <2>1, <2>2, <2>3, <2>4, <2>5, <2>6, <2>7 DEF WorkerMessage
  <1> QED
    BY <1>1, <1>2, <1>3, <1>4, <1>5, <1>6, <1>7, <1>8
    DEF Next, vars, RejectRun, ToggleLivePause, RevealTimer, userVars, previewVars

\* A drawing step, of a run whose request and flow agree, keeps them so.
LEMMA AdvanceAgrees ==
  ASSUME IInv, liveRuntime # 0, NEW events, AdvanceLiveFlow(events),
         UNCHANGED <<workerReady, pendingRequest, timeouts>>
  PROVE  RunAndFlowAgree'
  <1>1. RunAndFlowAgree
    BY DEF IInv
  <1>2. CASE UNCHANGED <<liveRuntime, liveFinalResponse>>
    BY <1>1, <1>2 DEF RunAndFlowAgree
  <1>3. CASE liveFinalResponse # NoResponse /\ FlowCleared'
    BY <1>1, <1>3 DEF RunAndFlowAgree, FlowCleared
  <1> QED
    BY <1>2, <1>3, AdvanceKeepsOrEnds

\* Every step keeps the request and the live flow in agreement.
LEMMA NextAgrees ==
  ASSUME IInv, [Next]_vars
  PROVE  RunAndFlowAgree'
  <1>0. RunAndFlowAgree /\ PageTyped
    BY DEF IInv
  <1>1. CASE UNCHANGED agreeVars
    BY <1>0, <1>1 DEF RunAndFlowAgree, agreeVars
  <1>2. CASE FlowCleared' /\ pendingRequest' = 0 /\ timeouts' = {}
    BY <1>2 DEF RunAndFlowAgree, FlowCleared
  <1>3. timeouts \ {pendingRequest} = {}
    BY <1>0 DEF RunAndFlowAgree
  <1>4. CASE RejectRun
    BY <1>0, <1>2, <1>4, RenderClears DEF RejectRun, MayRun, RunAndFlowAgree, requestVars
  <1>5. CASE RunSimulation
    BY <1>0, <1>5 DEF RunSimulation, MayRun, BeginLiveFlow, PageTyped, RunAndFlowAgree
  <1>6. CASE ToggleLivePause
    <2>1. CASE livePaused
      BY <1>6, <2>1, AdvanceAgrees DEF ToggleLivePause, requestVars
    <2>2. CASE ~livePaused
      BY <1>0, <1>6, <2>2 DEF ToggleLivePause, RunAndFlowAgree, requestVars
    <2> QED
      BY <2>1, <2>2
  <1>7. CASE StopLiveRun
    BY <1>2, <1>3, <1>7, RenderClears DEF StopLiveRun
  <1>8. CASE \E id \in timeouts : RunTimeout(id)
    <2>1. PICK id \in timeouts : RunTimeout(id)
      BY <1>8
    <2>2. id = pendingRequest
      BY <1>0, <2>1 DEF RunAndFlowAgree
    <2> QED
      BY <1>2, <1>3, <2>1, <2>2, RenderClears DEF RunTimeout
  <1>9. CASE RevealTimer
    <2>1. liveRuntime # 0
      BY <1>0, <1>9 DEF RevealTimer, RunAndFlowAgree
    <2>2. CASE livePaused
      BY <1>0, <1>9, <2>1, <2>2 DEF RevealTimer, RunAndFlowAgree, requestVars
    <2>3. CASE ~livePaused
      BY <1>9, <2>1, <2>3, AdvanceAgrees DEF RevealTimer, requestVars
    <2> QED
      BY <2>2, <2>3
  <1>10. CASE OnWorkerFault
    BY <1>2, <1>3, <1>10, RenderClears DEF OnWorkerFault, FailWorker
  <1>11. CASE \E w \in Workers : WorkerMessage(w)
    <2>1. PICK w \in Workers : WorkerMessage(w)
      BY <1>11
    <2>2. CASE OnReady(w)
      BY <1>0, <2>2 DEF OnReady, RunAndFlowAgree, liveVars
    <2>3. CASE OnError(w)
      BY <1>2, <1>3, <2>3, RenderClears DEF OnError, FailWorker
    <2>4. CASE OnAST(w)
      BY <1>1, <2>4 DEF OnAST, agreeVars, requestVars, liveVars
    <2>5. CASE OnTrace(w)
      <3> DEFINE events == Append(liveTraceEvents, Head(inbox[w]).event)
      <3>1. CASE ~OfPendingRequest(Head(inbox[w])) \/ liveRuntime = 0
        BY <1>1, <2>5, <3>1 DEF OnTrace, agreeVars, requestVars, liveVars
      <3>2. CASE /\ OfPendingRequest(Head(inbox[w])) /\ liveRuntime # 0
                 /\ livePaused \/ liveRevealTimer
        BY <1>0, <2>5, <3>2 DEF OnTrace, RunAndFlowAgree, requestVars
      <3>3. CASE /\ OfPendingRequest(Head(inbox[w])) /\ liveRuntime # 0
                 /\ ~(livePaused \/ liveRevealTimer)
        <4>1. AdvanceLiveFlow(events)
          BY <2>5, <3>3 DEF OnTrace
        <4>2. UNCHANGED <<workerReady, pendingRequest, timeouts>>
          BY <2>5 DEF OnTrace, requestVars
        <4> QED
          BY <3>3, <4>1, <4>2, AdvanceAgrees
      <3> QED
        BY <3>1, <3>2, <3>3
    <2>6. CASE OnResult(w)
      <3> DEFINE data == Head(inbox[w])
      <3>1. CASE ~OfPendingRequest(data)
        BY <1>1, <2>6, <3>1 DEF OnResult, agreeVars, requestVars, liveVars
      <3>2. CASE OfPendingRequest(data)
        <4>1. data \in Messages /\ data.type = "result"
          BY <2>1, <2>6, ArrivesTyped DEF OnResult, Arrives, IInv
        <4>2. data.result # NoResponse
          BY <4>1, ResultTyped, NullIsNoResult
        <4>3. EndRequest /\ FinishLiveSimulation(data.result)
          BY <2>6, <3>2 DEF OnResult
        <4>4. liveRuntime # 0
          BY <1>0, <3>2 DEF OfPendingRequest, RunAndFlowAgree
        <4>5. CASE RenderResponse(data.result)
          BY <1>2, <1>3, <4>3, <4>5, RenderClears DEF EndRequest
        <4>6. CASE /\ liveFinalResponse' = data.result
                   /\ UNCHANGED <<liveRuntime, liveTraceEvents, liveRevealTimer, livePaused>>
          BY <1>3, <4>2, <4>3, <4>4, <4>6 DEF EndRequest, RunAndFlowAgree
        <4> QED
          BY <4>3, <4>5, <4>6 DEF FinishLiveSimulation
      <3> QED
        BY <3>1, <3>2
    <2>7. CASE OnFailure(w)
      <3>1. CASE ~OfPendingRequest(Head(inbox[w]))
        BY <1>1, <2>7, <3>1 DEF OnFailure, agreeVars, requestVars, liveVars
      <3>2. CASE OfPendingRequest(Head(inbox[w]))
        BY <1>2, <1>3, <2>7, <3>2, RenderClears DEF OnFailure, EndRequest
      <3> QED
        BY <3>1, <3>2
    <2> QED
      BY <2>1, <2>2, <2>3, <2>4, <2>5, <2>6, <2>7 DEF WorkerMessage
  <1> QED
    BY <1>1, <1>4, <1>5, <1>6, <1>7, <1>8, <1>9, <1>10, <1>11
    DEF Next, vars, Edit, RequestASTPreview, agreeVars, requestVars, liveVars

\* The pending request, the one armed timeout and the live run always agree,
\* so the page never starts a second simulation in a worker that runs one.
THEOREM RunAndFlowTheorem == Spec => []RunAndFlowAgree
  <1>1. IInv /\ [Next]_vars => IInv'
    BY NextWorkersTyped, NextPageTyped, NextAgrees DEF IInv
  <1>2. IInv => RunAndFlowAgree
    BY DEF IInv
  <1> QED
    BY <1>1, <1>2, InitIInv, PTL DEF Spec
-------------------------------------------------------------------------------
(***************************************************************************)
(* What the page draws is of the live run and of the text in the editor,   *)
(* for every number of runs, events, edits and faults.                     *)
(*                                                                         *)
(* Messages do not say which worker posted them.  What the page relies on  *)
(* is that a run is known to one worker only, and that what it has queued  *)
(* for drawing, what is on its way, and what the worker has counted are    *)
(* one stream (OwnRun); and that the syntax on the screen is of the text   *)
(* it believes it to be of (Fresh).                                        *)
(***************************************************************************)

(***************************************************************************)
(* A queue of requests or of messages, as far as one run is concerned.     *)
(***************************************************************************)
Own(m, type, run) == m.type = type /\ m.id = run
Has(q, type, run) == \E i \in DOMAIN q : Own(q[i], type, run)

\* There is one request for the run, with the text.
Posted(q, run, text) ==
  \A i \in DOMAIN q : Own(q[i], "simulate", run) =>
    /\ q[i].source = text
    /\ \A j \in DOMAIN q : Own(q[j], "simulate", run) => j = i

\* The events after `from` up to `top` are there, each once and in order.
Traced(q, run, text, from, top) ==
  /\ \A i \in DOMAIN q : Own(q[i], "trace", run) =>
       /\ q[i].event.run = run
       /\ q[i].event.source = text
       /\ q[i].event.number \in from + 1 .. top
  /\ \A i, j \in DOMAIN q :
       i < j /\ Own(q[i], "trace", run) /\ Own(q[j], "trace", run)
         => q[i].event.number < q[j].event.number
  /\ \A n \in from + 1 .. top :
       \E i \in DOMAIN q : Own(q[i], "trace", run) /\ q[i].event.number = n

\* The response comes after all events.
Answered(q, run, text, top) ==
  \A i \in DOMAIN q : Own(q[i], "result", run) =>
    /\ q[i].result.run = run
    /\ q[i].result.source = text
    /\ q[i].result.events = top
    /\ \A j \in DOMAIN q : Own(q[j], "trace", run) => j < i

(***************************************************************************)
(* The invariant.                                                          *)
(***************************************************************************)
Executes(v) == phase[v] = "busy" /\ running[v].id = pendingRequest

\* A worker that has nothing to do with the pending run.
Foreign(v) ==
  /\ ~Has(requests[v], "simulate", pendingRequest)
  /\ ~Executes(v)
  /\ ~Has(inbox[v], "trace", pendingRequest) /\ ~Has(inbox[v], "result", pendingRequest)

\* The pending run: asked for, executed up to event `top`, or answered.
Stream(v, top) ==
  /\ Len(liveTraceEvents) <= top
  /\ Posted(requests[v], pendingRequest, astPreviewSource)
  /\ Has(requests[v], "simulate", pendingRequest) =>
       top = 0 /\ ~Executes(v) /\ ~Has(inbox[v], "result", pendingRequest)
  /\ Executes(v) =>
       /\ running[v].source = astPreviewSource /\ running[v].events = top
       /\ ~Has(inbox[v], "result", pendingRequest)
  /\ Traced(inbox[v], pendingRequest, astPreviewSource, Len(liveTraceEvents), top)
  /\ Answered(inbox[v], pendingRequest, astPreviewSource, top)

OwnRun ==
  pendingRequest # 0 =>
    /\ \A v \in Workers \ {worker} : Foreign(v)
    /\ \E top \in 0 .. MaxEvents : Stream(worker, top)

\* No request and no message is of a run or a preview that is still to come.
RequestsBehind(q, runs, previews) ==
  \A i \in DOMAIN q :
    /\ q[i].type = "simulate" => q[i].id <= runs
    /\ q[i].type = "parse" => q[i].id <= previews
MessagesBehind(q, runs, previews) ==
  \A i \in DOMAIN q :
    /\ q[i].type \in {"trace", "result"} => q[i].id <= runs
    /\ q[i].type = "ast" => q[i].id <= previews

NoneAhead ==
  \A v \in Workers :
    /\ RequestsBehind(requests[v], requestSequence, astPreviewSequence)
    /\ running[v].id <= requestSequence
    /\ MessagesBehind(inbox[v], requestSequence, astPreviewSequence)

\* What is of preview p is of its text.
OfText(q, type, p) ==
  \A i \in DOMAIN q : Own(q[i], type, p.id) => q[i].source = p.source

\* A preview is only awaited while no run is live.
PreviewsOwn ==
  pendingASTPreview.id # 0 =>
    /\ liveRuntime = 0
    /\ pendingASTPreview.id <= astPreviewSequence
    /\ \A v \in Workers : /\ OfText(requests[v], "parse", pendingASTPreview)
                          /\ OfText(inbox[v], "ast", pendingASTPreview)

Fresh ==
  /\ shownAST.complete => shownAST.source = astPreviewSource
  /\ ~astPreviewDeferred => astPreviewSource = source
  /\ \A k \in 1 .. Len(liveTraceEvents) : liveTraceEvents[k].source = astPreviewSource
  /\ liveFinalResponse # NoResponse => liveFinalResponse.source = astPreviewSource

DrawnTyped ==
  /\ pendingASTPreview \in [id : Nat, source : Nat]
  /\ liveTraceEvents \in Seq(TraceEvents)
  /\ astPreviewDeferred \in BOOLEAN

DInv == OwnRun /\ NoneAhead /\ PreviewsOwn /\ Fresh /\ EventsAreOwn /\ DrawnTyped

-----------------------------------------------------------------------------
(***************************************************************************)
(* Queues, element by element.                                             *)
(***************************************************************************)
LEMMA Appended ==
  ASSUME NEW S, NEW q \in Seq(S), NEW m \in S
  PROVE  /\ Append(q, m) \in Seq(S)
         /\ \A i \in DOMAIN Append(q, m) :
              \/ i \in DOMAIN q /\ Append(q, m)[i] = q[i]
              \/ i = Len(q) + 1 /\ Append(q, m)[i] = m
         /\ \A i \in DOMAIN q : i \in DOMAIN Append(q, m) /\ Append(q, m)[i] = q[i]
         /\ Len(q) + 1 \in DOMAIN Append(q, m) /\ Append(q, m)[Len(q) + 1] = m
         /\ \A i \in DOMAIN q : i \in Nat /\ i < Len(q) + 1
  OBVIOUS

\* A queue without its first element.
LEMMA Tailed ==
  ASSUME NEW S, NEW q \in Seq(S), q # <<>>
  PROVE  /\ Tail(q) \in Seq(S)
         /\ \A i \in DOMAIN Tail(q) : i \in Nat /\ i + 1 \in DOMAIN q /\ Tail(q)[i] = q[i + 1]
         /\ \A i \in DOMAIN q :
              i \in Nat /\ (i # 1 => i - 1 \in DOMAIN Tail(q) /\ Tail(q)[i - 1] = q[i] /\ 1 < i)
         /\ 1 \in DOMAIN q /\ Head(q) = q[1]
  OBVIOUS

\* A message that is posted behind others and is not of the run.
LEMMA AppendBeside ==
  ASSUME NEW S, NEW q \in Seq(S), NEW m \in S, NEW run, NEW text,
         ~Own(m, "trace", run), ~Own(m, "result", run), ~Own(m, "simulate", run)
  PROVE  /\ \A type \in {"trace", "result", "simulate"} :
              Has(Append(q, m), type, run) <=> Has(q, type, run)
         /\ Posted(q, run, text) => Posted(Append(q, m), run, text)
         /\ \A from, top \in Nat :
              Traced(q, run, text, from, top) => Traced(Append(q, m), run, text, from, top)
         /\ \A top \in Nat : Answered(q, run, text, top) => Answered(Append(q, m), run, text, top)
  <1> DEFINE r == Append(q, m)
  <1>1. /\ \A i \in DOMAIN r : \/ i \in DOMAIN q /\ r[i] = q[i]
                               \/ r[i] = m
        /\ \A i \in DOMAIN q : i \in DOMAIN r /\ r[i] = q[i]
    BY Appended
  <1> HIDE DEF r
  <1>2. \A type \in {"trace", "result", "simulate"} : Has(r, type, run) <=> Has(q, type, run)
    BY <1>1 DEF Has
  <1>3. Posted(q, run, text) => Posted(r, run, text)
    BY <1>1 DEF Posted
  <1>4. ASSUME NEW from \in Nat, NEW top \in Nat, Traced(q, run, text, from, top)
        PROVE  Traced(r, run, text, from, top)
    BY <1>1, <1>4 DEF Traced
  <1>5. ASSUME NEW top \in Nat, Answered(q, run, text, top)
        PROVE  Answered(r, run, text, top)
    BY <1>1, <1>5 DEF Answered
  <1> QED
    BY <1>2, <1>3, <1>4, <1>5 DEF r

\* The next event of the run.
LEMMA AppendTrace ==
  ASSUME NEW q \in Seq(Messages), NEW m \in Messages, NEW run, NEW text,
         NEW from \in Nat, NEW top \in Nat, from <= top,
         Traced(q, run, text, from, top), ~Has(q, "result", run), Own(m, "trace", run),
         m.event.run = run, m.event.source = text, m.event.number = top + 1
  PROVE  /\ Traced(Append(q, m), run, text, from, top + 1)
         /\ ~Has(Append(q, m), "result", run)
  <1> DEFINE r == Append(q, m)
  <1>1. /\ \A i \in DOMAIN r : \/ i \in DOMAIN q /\ r[i] = q[i]
                               \/ i = Len(q) + 1 /\ r[i] = m
        /\ \A i \in DOMAIN q : i \in DOMAIN r /\ r[i] = q[i] /\ i < Len(q) + 1 /\ i \in Nat
        /\ Len(q) + 1 \in DOMAIN r /\ r[Len(q) + 1] = m
    BY Appended
  <1> Len(q) \in Nat
    OBVIOUS
  <1> HIDE DEF r
  <1>2. ~Has(r, "result", run)
    BY <1>1 DEF Has, Own
  <1>3. \A i \in DOMAIN r : Own(r[i], "trace", run) =>
          r[i].event.run = run /\ r[i].event.source = text /\ r[i].event.number \in from + 1 .. top + 1
    BY <1>1 DEF Traced
  <1>4. ASSUME NEW i \in DOMAIN r, NEW j \in DOMAIN r,
               i < j, Own(r[i], "trace", run), Own(r[j], "trace", run)
        PROVE  r[i].event.number < r[j].event.number
    <2>1. i \in DOMAIN q /\ r[i] = q[i]
      BY <1>1, <1>4
    <2>2. CASE j \in DOMAIN q
      BY <1>1, <1>4, <2>1, <2>2 DEF Traced
    <2>3. CASE r[j] = m
      BY <1>1, <1>4, <2>1, <2>3 DEF Traced
    <2> QED
      BY <1>1, <2>2, <2>3
  <1>5. ASSUME NEW n \in from + 1 .. top + 1
        PROVE  \E i \in DOMAIN r : Own(r[i], "trace", run) /\ r[i].event.number = n
    <2>1. CASE n = top + 1
      BY <1>1, <2>1
    <2>2. CASE n \in from + 1 .. top
      BY <1>1, <2>2 DEF Traced
    <2> QED
      BY <2>1, <2>2
  <1> QED
    BY <1>2, <1>3, <1>4, <1>5 DEF r, Traced

\* The response of the run.
LEMMA AppendResult ==
  ASSUME NEW q \in Seq(Messages), NEW m \in Messages, NEW run, NEW text,
         NEW from \in Nat, NEW top \in Nat,
         Traced(q, run, text, from, top), ~Has(q, "result", run), Own(m, "result", run),
         m.result.run = run, m.result.source = text, m.result.events = top
  PROVE  /\ Traced(Append(q, m), run, text, from, top)
         /\ Answered(Append(q, m), run, text, top)
  <1> DEFINE r == Append(q, m)
  <1>1. /\ \A i \in DOMAIN r : \/ i \in DOMAIN q /\ r[i] = q[i]
                               \/ i = Len(q) + 1 /\ r[i] = m
        /\ \A i \in DOMAIN q : i \in DOMAIN r /\ r[i] = q[i] /\ i < Len(q) + 1
    BY Appended
  <1> HIDE DEF r
  <1>2. Traced(r, run, text, from, top)
    <2>1. \A i \in DOMAIN r : Own(r[i], "trace", run) => i \in DOMAIN q /\ r[i] = q[i]
      BY <1>1 DEF Own
    <2>2. \A i \in DOMAIN q : i \in DOMAIN r /\ r[i] = q[i]
      BY <1>1
    <2> QED
      BY <2>1, <2>2 DEF Traced
  <1>3. \A i \in DOMAIN r : Own(r[i], "result", run) => i = Len(q) + 1 /\ r[i] = m
    BY <1>1 DEF Has
  <1>4. \A j \in DOMAIN r : Own(r[j], "trace", run) => j < Len(q) + 1
    BY <1>1 DEF Own
  <1>5. Answered(r, run, text, top)
    BY <1>3, <1>4 DEF Answered
  <1> QED
    BY <1>2, <1>5 DEF r

\* Something that is not an event of the run is taken.
LEMMA TailBeside ==
  ASSUME NEW S, NEW q \in Seq(S), q # <<>>, NEW run, NEW text, ~Own(Head(q), "trace", run)
  PROVE  /\ \A type : Has(Tail(q), type, run) => Has(q, type, run)
         /\ Posted(q, run, text) => Posted(Tail(q), run, text)
         /\ \A from, top \in Nat :
              Traced(q, run, text, from, top) => Traced(Tail(q), run, text, from, top)
         /\ \A top \in Nat : Answered(q, run, text, top) => Answered(Tail(q), run, text, top)
  <1> DEFINE r == Tail(q)
  <1>1. /\ \A i \in DOMAIN r : i \in Nat /\ i + 1 \in DOMAIN q /\ r[i] = q[i + 1]
        /\ \A i \in DOMAIN q :
             i \in Nat /\ (i # 1 => i - 1 \in DOMAIN r /\ r[i - 1] = q[i])
        /\ ~Own(q[1], "trace", run)
    BY Tailed
  <1> HIDE DEF r
  <1>2. \A type : Has(r, type, run) => Has(q, type, run)
    BY <1>1 DEF Has
  <1>3. Posted(q, run, text) => Posted(r, run, text)
    BY <1>1 DEF Posted
  <1>4. ASSUME NEW from \in Nat, NEW top \in Nat, Traced(q, run, text, from, top)
        PROVE  Traced(r, run, text, from, top)
    <2>1. \A i \in DOMAIN r : Own(r[i], "trace", run) =>
            r[i].event.run = run /\ r[i].event.source = text /\ r[i].event.number \in from + 1 .. top
      BY <1>1, <1>4 DEF Traced
    <2>2. \A i, j \in DOMAIN r : i < j /\ Own(r[i], "trace", run) /\ Own(r[j], "trace", run)
            => r[i].event.number < r[j].event.number
      <3> TAKE i, j \in DOMAIN r
      <3>1. i + 1 \in DOMAIN q /\ j + 1 \in DOMAIN q /\ (i < j => i + 1 < j + 1)
        BY <1>1
      <3> QED
        BY <1>1, <1>4, <3>1 DEF Traced
    <2>3. \A n \in from + 1 .. top :
            \E i \in DOMAIN r : Own(r[i], "trace", run) /\ r[i].event.number = n
      <3> TAKE n \in from + 1 .. top
      <3>1. PICK i \in DOMAIN q : Own(q[i], "trace", run) /\ q[i].event.number = n
        BY <1>4 DEF Traced
      <3> QED
        BY <1>1, <3>1
    <2> QED
      BY <2>1, <2>2, <2>3 DEF Traced
  <1>5. ASSUME NEW top \in Nat, Answered(q, run, text, top)
        PROVE  Answered(r, run, text, top)
    <2> SUFFICES ASSUME NEW i \in DOMAIN r, Own(r[i], "result", run)
                 PROVE  /\ r[i].result.run = run /\ r[i].result.source = text
                        /\ r[i].result.events = top
                        /\ \A j \in DOMAIN r : Own(r[j], "trace", run) => j < i
      BY DEF Answered
    <2>1. i + 1 \in DOMAIN q /\ r[i] = q[i + 1] /\ i \in Nat
      BY <1>1
    <2>2. \A j \in DOMAIN r : j + 1 \in DOMAIN q /\ r[j] = q[j + 1] /\ j \in Nat
      BY <1>1
    <2>3. \A j \in DOMAIN r : Own(r[j], "trace", run) => j + 1 < i + 1
      BY <1>5, <2>1, <2>2 DEF Answered
    <2> QED
      BY <1>5, <2>1, <2>2, <2>3 DEF Answered
  <1> QED
    BY <1>2, <1>3, <1>4, <1>5 DEF r

\* The next event of the run is taken: it is the one that is due.
LEMMA TailTrace ==
  ASSUME NEW q \in Seq(Messages), q # <<>>, NEW run, NEW text,
         NEW from \in Nat, NEW top \in Nat, Own(Head(q), "trace", run),
         Traced(q, run, text, from, top), Answered(q, run, text, top)
  PROVE  /\ from < top
         /\ Head(q).event.run = run /\ Head(q).event.source = text
         /\ Head(q).event.number = from + 1
         /\ Traced(Tail(q), run, text, from + 1, top)
         /\ Answered(Tail(q), run, text, top)
  <1> DEFINE r == Tail(q)
  <1>1. /\ \A i \in DOMAIN r : i \in Nat /\ i + 1 \in DOMAIN q /\ r[i] = q[i + 1]
        /\ \A i \in DOMAIN q :
             i \in Nat /\ (i # 1 => i - 1 \in DOMAIN r /\ r[i - 1] = q[i] /\ 1 < i)
        /\ 1 \in DOMAIN q /\ Head(q) = q[1]
    BY Tailed
  <1> HIDE DEF r
  <1>2. /\ q[1].event.run = run /\ q[1].event.source = text
        /\ q[1].event.number \in from + 1 .. top
    BY <1>1 DEF Traced
  <1>3. q[1].event.number = from + 1
    <2>1. PICK i \in DOMAIN q : Own(q[i], "trace", run) /\ q[i].event.number = from + 1
      BY <1>2 DEF Traced
    <2>2. i # 1 => q[1].event.number < q[i].event.number
      BY <1>1, <2>1 DEF Traced
    <2> QED
      BY <1>2, <2>1, <2>2
  <1>4. \A i \in DOMAIN r : Own(r[i], "trace", run) =>
          /\ r[i].event.run = run /\ r[i].event.source = text
          /\ r[i].event.number \in from + 2 .. top
    <2> SUFFICES ASSUME NEW i \in DOMAIN r, Own(r[i], "trace", run)
                 PROVE  /\ r[i].event.run = run /\ r[i].event.source = text
                        /\ r[i].event.number \in from + 2 .. top
      OBVIOUS
    <2>1. i + 1 \in DOMAIN q /\ r[i] = q[i + 1] /\ 1 < i + 1
      <3>1. i \in DOMAIN r => i >= 1
        BY DEF r
      <3> QED
        BY <1>1, <3>1
    <2>2. q[1].event.number < q[i + 1].event.number
      BY <1>1, <2>1 DEF Traced
    <2>3. /\ q[i + 1].event.run = run /\ q[i + 1].event.source = text
          /\ q[i + 1].event.number \in from + 1 .. top
      BY <2>1 DEF Traced
    <2> QED
      BY <1>3, <2>1, <2>2, <2>3
  <1>5. \A i, j \in DOMAIN r : i < j /\ Own(r[i], "trace", run) /\ Own(r[j], "trace", run)
          => r[i].event.number < r[j].event.number
    <2> TAKE i, j \in DOMAIN r
    <2>1. i + 1 \in DOMAIN q /\ j + 1 \in DOMAIN q /\ (i < j => i + 1 < j + 1)
      BY <1>1
    <2> QED
      BY <1>1, <2>1 DEF Traced
  <1>6. \A n \in from + 2 .. top :
          \E i \in DOMAIN r : Own(r[i], "trace", run) /\ r[i].event.number = n
    <2> TAKE n \in from + 2 .. top
    <2>1. PICK i \in DOMAIN q : Own(q[i], "trace", run) /\ q[i].event.number = n
      BY DEF Traced
    <2>2. i # 1
      BY <1>3, <2>1
    <2> QED
      BY <1>1, <2>1, <2>2
  <1>7. Answered(r, run, text, top)
    <2> SUFFICES ASSUME NEW i \in DOMAIN r, Own(r[i], "result", run)
                 PROVE  /\ r[i].result.run = run /\ r[i].result.source = text
                        /\ r[i].result.events = top
                        /\ \A j \in DOMAIN r : Own(r[j], "trace", run) => j < i
      BY DEF Answered
    <2>1. i + 1 \in DOMAIN q /\ r[i] = q[i + 1] /\ i \in Nat
      BY <1>1
    <2>2. \A j \in DOMAIN r : j + 1 \in DOMAIN q /\ r[j] = q[j + 1] /\ j \in Nat
      BY <1>1
    <2>3. \A j \in DOMAIN r : Own(r[j], "trace", run) => j + 1 < i + 1
      BY <2>1, <2>2 DEF Answered
    <2> QED
      BY <2>1, <2>2, <2>3 DEF Answered
  <1>8. Traced(r, run, text, from + 1, top)
    <2>1. from + 1 + 1 = from + 2
      OBVIOUS
    <2> QED
      BY <1>4, <1>5, <1>6, <2>1 DEF Traced
  <1> QED
    BY <1>1, <1>2, <1>3, <1>7, <1>8 DEF r

\* The response is taken: no event is missing.
LEMMA TailResult ==
  ASSUME NEW q \in Seq(Messages), q # <<>>, NEW run, NEW text,
         NEW from \in Nat, NEW top \in Nat, from <= top, Own(Head(q), "result", run),
         Traced(q, run, text, from, top), Answered(q, run, text, top)
  PROVE  /\ Head(q).result.run = run /\ Head(q).result.source = text
         /\ Head(q).result.events = from
  <1>1. 1 \in DOMAIN q /\ Head(q) = q[1] /\ \A i \in DOMAIN q : i \in Nat /\ ~(i < 1)
    OBVIOUS
  <1>2. \A i \in DOMAIN q : ~Own(q[i], "trace", run)
    BY <1>1 DEF Answered
  <1>3. \A n \in from + 1 .. top : FALSE
    BY <1>2 DEF Traced
  <1>4. from = top
    BY <1>3
  <1> QED
    BY <1>1, <1>4 DEF Answered

\* The request of a run is posted behind those of other runs.
LEMMA AppendRequest ==
  ASSUME NEW q \in Seq(Requests), NEW m \in Requests, NEW run, NEW text,
         ~Has(q, "simulate", run), Own(m, "simulate", run), m.source = text
  PROVE  Posted(Append(q, m), run, text)
  <1> DEFINE r == Append(q, m)
  <1>1. \A i \in DOMAIN r : \/ i \in DOMAIN q /\ r[i] = q[i]
                            \/ i = Len(q) + 1 /\ r[i] = m
    BY Appended
  <1> HIDE DEF r
  <1>2. \A i \in DOMAIN r : Own(r[i], "simulate", run) => i = Len(q) + 1 /\ r[i] = m
    BY <1>1 DEF Has
  <1>3. Posted(r, run, text)
    BY <1>2 DEF Posted
  <1> QED
    BY <1>3 DEF r

\* Once the request of a run is taken there is no other.
LEMMA TailRequest ==
  ASSUME NEW q \in Seq(Requests), q # <<>>, NEW run, NEW text,
         Own(Head(q), "simulate", run), Posted(q, run, text)
  PROVE  ~Has(Tail(q), "simulate", run) /\ Head(q).source = text
  <1> DEFINE r == Tail(q)
  <1>1. /\ \A i \in DOMAIN r : i \in Nat /\ i + 1 \in DOMAIN q /\ r[i] = q[i + 1] /\ i + 1 # 1
        /\ 1 \in DOMAIN q /\ Head(q) = q[1]
    <2>1. \A i \in DOMAIN r : i # 0
      OBVIOUS
    <2> QED
      BY <2>1, Tailed
  <1> HIDE DEF r
  <1>2. \A i \in DOMAIN q : Own(q[i], "simulate", run) => i = 1
    BY <1>1 DEF Posted
  <1>3. \A i \in DOMAIN r : ~Own(r[i], "simulate", run)
    BY <1>1, <1>2
  <1> QED
    BY <1>1, <1>3 DEF r, Has, Posted

\* What is posted or taken leaves the rest behind.
LEMMA RequestsStayBehind ==
  ASSUME NEW q \in Seq(Requests), NEW runs \in Nat, NEW previews \in Nat,
         RequestsBehind(q, runs, previews)
  PROVE  /\ \A m \in Requests :
              /\ m.type = "simulate" => m.id <= runs
              /\ m.type = "parse" => m.id <= previews
              => RequestsBehind(Append(q, m), runs, previews)
         /\ q # <<>> => RequestsBehind(Tail(q), runs, previews)
         /\ \A more, later \in Nat :
              runs <= more /\ previews <= later => RequestsBehind(q, more, later)
  <1>1. ASSUME NEW m \in Requests, m.type = "simulate" => m.id <= runs,
               m.type = "parse" => m.id <= previews
        PROVE  RequestsBehind(Append(q, m), runs, previews)
    <2> DEFINE r == Append(q, m)
    <2>1. \A i \in DOMAIN r : (i \in DOMAIN q /\ r[i] = q[i]) \/ r[i] = m
      BY Appended
    <2> HIDE DEF r
    <2>2. RequestsBehind(r, runs, previews)
      BY <1>1, <2>1 DEF RequestsBehind
    <2> QED
      BY <2>2 DEF r
  <1>2. ASSUME q # <<>>
        PROVE  RequestsBehind(Tail(q), runs, previews)
    <2> DEFINE r == Tail(q)
    <2>1. \A i \in DOMAIN r : i + 1 \in DOMAIN q /\ r[i] = q[i + 1]
      BY <1>2, Tailed
    <2> HIDE DEF r
    <2>2. RequestsBehind(r, runs, previews)
      BY <2>1 DEF RequestsBehind
    <2> QED
      BY <2>2 DEF r
  <1>3. \A i \in DOMAIN q : q[i].id \in Nat
    <2>1. \A m \in Requests : m.id \in Nat
      BY DEF Requests
    <2>2. \A i \in DOMAIN q : q[i] \in Requests
      OBVIOUS
    <2> QED
      BY <2>1, <2>2
  <1>4. ASSUME NEW more \in Nat, NEW later \in Nat, runs <= more, previews <= later
        PROVE  RequestsBehind(q, more, later)
    BY <1>3, <1>4 DEF RequestsBehind
  <1> QED
    BY <1>1, <1>2, <1>4

\* A message that comes from one worker is of some run or preview.
LEMMA MessageIds ==
  ASSUME NEW m \in Messages, m.type \in {"trace", "result", "ast"}
  PROVE  m.id \in Nat \ {0}
  BY DEF Messages

\* A queue of which no message is ahead of the counters stays one.
LEMMA MessagesStayBehind ==
  ASSUME NEW q \in Seq(Messages), NEW runs \in Nat, NEW previews \in Nat,
         MessagesBehind(q, runs, previews)
  PROVE  /\ \A m \in Messages :
              /\ m.type \in {"trace", "result"} => m.id <= runs
              /\ m.type = "ast" => m.id <= previews
              => MessagesBehind(Append(q, m), runs, previews)
         /\ q # <<>> => MessagesBehind(Tail(q), runs, previews)
         /\ \A more, later \in Nat :
              runs <= more /\ previews <= later => MessagesBehind(q, more, later)
  <1>1. ASSUME NEW m \in Messages, m.type \in {"trace", "result"} => m.id <= runs,
               m.type = "ast" => m.id <= previews
        PROVE  MessagesBehind(Append(q, m), runs, previews)
    <2> DEFINE r == Append(q, m)
    <2>1. \A i \in DOMAIN r : (i \in DOMAIN q /\ r[i] = q[i]) \/ r[i] = m
      BY Appended
    <2> HIDE DEF r
    <2>2. MessagesBehind(r, runs, previews)
      BY <1>1, <2>1 DEF MessagesBehind
    <2> QED
      BY <2>2 DEF r
  <1>2. ASSUME q # <<>>
        PROVE  MessagesBehind(Tail(q), runs, previews)
    <2> DEFINE r == Tail(q)
    <2>1. \A i \in DOMAIN r : i + 1 \in DOMAIN q /\ r[i] = q[i + 1]
      BY <1>2, Tailed
    <2> HIDE DEF r
    <2>2. MessagesBehind(r, runs, previews)
      BY <2>1 DEF MessagesBehind
    <2> QED
      BY <2>2 DEF r
  <1>3. \A i \in DOMAIN q : q[i] \in Messages
    OBVIOUS
  <1>4. ASSUME NEW more \in Nat, NEW later \in Nat, runs <= more, previews <= later
        PROVE  MessagesBehind(q, more, later)
    BY <1>3, <1>4, MessageIds DEF MessagesBehind
  <1> QED
    BY <1>1, <1>2, <1>4

\* What is posted or taken leaves the rest of the text they are of.
LEMMA TextKept ==
  ASSUME NEW S, NEW q \in Seq(S), NEW type, NEW p, OfText(q, type, p)
  PROVE  /\ \A m \in S : (Own(m, type, p.id) => m.source = p.source) => OfText(Append(q, m), type, p)
         /\ q # <<>> => OfText(Tail(q), type, p)
  <1>1. ASSUME NEW m \in S, Own(m, type, p.id) => m.source = p.source
        PROVE  OfText(Append(q, m), type, p)
    <2> DEFINE r == Append(q, m)
    <2>1. \A i \in DOMAIN r : (i \in DOMAIN q /\ r[i] = q[i]) \/ r[i] = m
      BY Appended
    <2> HIDE DEF r
    <2>2. OfText(r, type, p)
      BY <1>1, <2>1 DEF OfText
    <2> QED
      BY <2>2 DEF r
  <1>2. ASSUME q # <<>>
        PROVE  OfText(Tail(q), type, p)
    <2> DEFINE r == Tail(q)
    <2>1. \A i \in DOMAIN r : i + 1 \in DOMAIN q /\ r[i] = q[i + 1]
      BY <1>2, Tailed
    <2> HIDE DEF r
    <2>2. OfText(r, type, p)
      BY <2>1 DEF OfText
    <2> QED
      BY <2>2 DEF r
  <1> QED
    BY <1>1, <1>2

-----------------------------------------------------------------------------
(***************************************************************************)
(* The stream of the pending run.                                          *)
(***************************************************************************)

\* A step that touches one worker only keeps the pending run its own, if that
\* worker stays a stranger to it or goes on with it.
LEMMA OneWorkerOwnRun ==
  ASSUME IInv, OwnRun, NEW w \in Workers, UNCHANGED <<pendingRequest, worker>>,
         \A v \in Workers \ {w} : /\ requests'[v] = requests[v] /\ inbox'[v] = inbox[v]
                                  /\ running'[v] = running[v] /\ phase'[v] = phase[v],
         w = worker \/ UNCHANGED <<liveTraceEvents, astPreviewSource>>,
         pendingRequest # 0 /\ Foreign(w) => Foreign(w)',
         \A top \in 0 .. MaxEvents :
           pendingRequest # 0 /\ Stream(w, top) => \E more \in 0 .. MaxEvents : Stream(w, more)'
  PROVE  OwnRun'
  <1> SUFFICES ASSUME pendingRequest # 0
               PROVE  /\ \A v \in Workers \ {worker} : Foreign(v)'
                      /\ \E top \in 0 .. MaxEvents : Stream(worker, top)'
    BY DEF OwnRun
  <1>1. /\ \A v \in Workers \ {worker} : Foreign(v)
        /\ \E top \in 0 .. MaxEvents : Stream(worker, top)
    BY DEF OwnRun
  <1>2. worker \in Workers
    BY OwnWorker DEF IInv
  <1>3. ASSUME NEW v \in Workers \ {worker}
        PROVE  Foreign(v)'
    <2>1. CASE v = w
      BY <1>1, <2>1
    <2>2. CASE v # w
      BY <1>1, <2>2 DEF Foreign, Executes
    <2> QED
      BY <2>1, <2>2
  <1>4. \E top \in 0 .. MaxEvents : Stream(worker, top)'
    <2>1. PICK top \in 0 .. MaxEvents : Stream(worker, top)
      BY <1>1
    <2>2. CASE worker = w
      BY <2>1, <2>2
    <2>3. CASE worker # w
      <3>1. Stream(worker, top)'
        BY <1>2, <2>1, <2>3 DEF Stream, Executes
      <3> QED
        BY <3>1
    <2> QED
      BY <2>2, <2>3
  <1> QED
    BY <1>3, <1>4

\* The steps of a worker leave the others alone.
LEMMA WorkerAlone ==
  ASSUME WorkersTyped, NEW w \in Workers, WorkerStep(w)
  PROVE  \A v \in Workers \ {w} : /\ requests'[v] = requests[v] /\ inbox'[v] = inbox[v]
                                  /\ running'[v] = running[v] /\ phase'[v] = phase[v]
  <1> USE DEF WorkersTyped
  <1>1. CASE FinishLoading(w)
    BY <1>1 DEF FinishLoading, Post
  <1>2. CASE ServeParse(w)
    BY <1>2 DEF ServeParse, Takes, Post
  <1>3. CASE BeginSimulate(w)
    BY <1>3 DEF BeginSimulate, Takes, Post
  <1>4. CASE StreamTrace(w)
    BY <1>4 DEF StreamTrace, Post
  <1>5. CASE FinishSimulate(w)
    BY <1>5 DEF FinishSimulate, Post
  <1> QED
    BY <1>1, <1>2, <1>3, <1>4, <1>5 DEF WorkerStep

\* A message that is not of the pending run does not disturb it.
LEMMA PostBeside ==
  ASSUME WorkersTyped, NEW w \in Workers, NEW m \in Messages, Post(w, m),
         ~Own(m, "trace", pendingRequest), ~Own(m, "result", pendingRequest),
         UNCHANGED <<pendingRequest, liveTraceEvents, astPreviewSource>>,
         Has(requests'[w], "simulate", pendingRequest) => Has(requests[w], "simulate", pendingRequest),
         Posted(requests[w], pendingRequest, astPreviewSource)
           => Posted(requests'[w], pendingRequest, astPreviewSource),
         Executes(w)' => Executes(w) /\ running'[w] = running[w],
         NEW top \in 0 .. MaxEvents
  PROVE  /\ Foreign(w) => Foreign(w)'
         /\ Stream(w, top) /\ liveTraceEvents \in Seq(TraceEvents) => Stream(w, top)'
  <1>1. inbox[w] \in Seq(Messages) /\ inbox'[w] = Append(inbox[w], m)
    BY DEF WorkersTyped, Post
  <1>2. ~Own(m, "simulate", pendingRequest)
    <2>1. m.type # "simulate"
      BY DEF Messages
    <2> QED
      BY <2>1 DEF Own
  <1>3. /\ \A type \in {"trace", "result", "simulate"} :
             Has(inbox'[w], type, pendingRequest) <=> Has(inbox[w], type, pendingRequest)
        /\ \A from, n \in Nat :
             Traced(inbox[w], pendingRequest, astPreviewSource, from, n)
               => Traced(inbox'[w], pendingRequest, astPreviewSource, from, n)
        /\ \A n \in Nat : Answered(inbox[w], pendingRequest, astPreviewSource, n)
               => Answered(inbox'[w], pendingRequest, astPreviewSource, n)
    <2> DEFINE q == inbox[w]
    <2>1. q \in Seq(Messages) /\ inbox'[w] = Append(q, m)
      BY <1>1
    <2> HIDE DEF q
    <2>2. /\ \A type \in {"trace", "result", "simulate"} :
               Has(Append(q, m), type, pendingRequest) <=> Has(q, type, pendingRequest)
          /\ \A from, n \in Nat : Traced(q, pendingRequest, astPreviewSource, from, n)
                 => Traced(Append(q, m), pendingRequest, astPreviewSource, from, n)
          /\ \A n \in Nat : Answered(q, pendingRequest, astPreviewSource, n)
                 => Answered(Append(q, m), pendingRequest, astPreviewSource, n)
      BY <1>2, <2>1, AppendBeside
    <2> QED
      BY <2>1, <2>2 DEF q
  <1>4. Foreign(w) => Foreign(w)'
    BY <1>3 DEF Foreign
  <1>5. ASSUME Stream(w, top), liveTraceEvents \in Seq(TraceEvents)
        PROVE  Stream(w, top)'
    <2>1. Len(liveTraceEvents) \in Nat /\ top \in Nat
      BY <1>5, MaxEventsAssumption
    <2> QED
      BY <1>3, <1>5, <2>1 DEF Stream
  <1> QED
    BY <1>4, <1>5

\* A step that posts a message about something else.
LEMMA BesideOwnRun ==
  ASSUME IInv, OwnRun, DrawnTyped, NEW w \in Workers, WorkerStep(w),
         NEW m \in Messages, Post(w, m),
         ~Own(m, "trace", pendingRequest), ~Own(m, "result", pendingRequest),
         UNCHANGED <<pendingRequest, worker, liveTraceEvents, astPreviewSource>>,
         Has(requests'[w], "simulate", pendingRequest) => Has(requests[w], "simulate", pendingRequest),
         Posted(requests[w], pendingRequest, astPreviewSource)
           => Posted(requests'[w], pendingRequest, astPreviewSource),
         Executes(w)' => Executes(w) /\ running'[w] = running[w]
  PROVE  OwnRun'
  <1>1. WorkersTyped
    BY DEF IInv
  <1>2. \A v \in Workers \ {w} : /\ requests'[v] = requests[v] /\ inbox'[v] = inbox[v]
                                 /\ running'[v] = running[v] /\ phase'[v] = phase[v]
    BY <1>1, WorkerAlone
  <1>3. Foreign(w) => Foreign(w)'
    <2>1. 0 \in 0 .. MaxEvents
      BY MaxEventsAssumption
    <2> QED
      BY <1>1, <2>1, PostBeside
  <1>4. ASSUME NEW top \in 0 .. MaxEvents, Stream(w, top)
        PROVE  \E more \in 0 .. MaxEvents : Stream(w, more)'
    <2>1. Stream(w, top)'
      BY <1>1, <1>4, PostBeside DEF DrawnTyped
    <2> QED
      BY <2>1
  <1> QED
    BY <1>2, <1>3, <1>4, OneWorkerOwnRun

\* Taking a request that is not the pending run's.
LEMMA TakesBeside ==
  ASSUME WorkersTyped, NEW w \in Workers, NEW type, Takes(w, type),
         NEW run, NEW text
  PROVE  /\ Has(requests'[w], "simulate", run) => Has(requests[w], "simulate", run)
         /\ Posted(requests[w], run, text) => Posted(requests'[w], run, text)
         /\ Head(requests[w]) \in Requests /\ Head(requests[w]).type = type
         /\ requests[w] \in Seq(Requests) /\ requests[w] # <<>>
         /\ requests'[w] = Tail(requests[w]) /\ phase[w] = "idle"
  <1> DEFINE q == requests[w]
  <1>1. q \in Seq(Requests) /\ q # <<>> /\ requests'[w] = Tail(q) /\ phase[w] = "idle"
        /\ Head(q).type = type
    BY DEF Takes, WorkersTyped
  <1>2. Head(q) \in Requests
    BY <1>1
  <1> HIDE DEF q
  <1>3. ~Own(Head(q), "trace", run)
    <2>1. Head(q).type # "trace"
      BY <1>2 DEF Requests
    <2> QED
      BY <2>1 DEF Own
  <1>4. /\ Has(Tail(q), "simulate", run) => Has(q, "simulate", run)
        /\ Posted(q, run, text) => Posted(Tail(q), run, text)
    BY <1>1, <1>3, TailBeside
  <1> QED
    BY <1>1, <1>2, <1>4 DEF q

\* A run that a worker begins, executes and answers stays its own.
LEMMA WorkerOwnRun ==
  ASSUME IInv, OwnRun, DrawnTyped, NEW w \in Workers, WorkerStep(w),
         UNCHANGED <<pendingRequest, worker, liveTraceEvents, astPreviewSource>>
  PROVE  OwnRun'
  <1> DEFINE run == pendingRequest
             text == astPreviewSource
             Other(m) == m \in Messages /\ m.type \notin {"trace", "result", "simulate"}
  <1>0. WorkersTyped
    BY DEF IInv
  <1>1. ASSUME NEW m, Post(w, m), Other(m), UNCHANGED requests,
               Executes(w)' => Executes(w) /\ running'[w] = running[w]
        PROVE  OwnRun'
    BY <1>1, BesideOwnRun DEF Own
  <1>2. CASE FinishLoading(w)
    <2>1. \A t \in {"ready", "error"} : Other([type |-> t])
      BY DEF Messages
    <2>2. ~Executes(w)'
      BY <1>0, <1>2 DEF Executes, FinishLoading, WorkersTyped
    <2> QED
      BY <1>1, <1>2, <2>1, <2>2 DEF FinishLoading
  <1>3. CASE ServeParse(w)
    <2> DEFINE request == Head(requests[w])
               m == [type |-> "ast", id |-> request.id, source |-> request.source]
    <2>1. /\ Has(requests'[w], "simulate", run) => Has(requests[w], "simulate", run)
          /\ Posted(requests[w], run, text) => Posted(requests'[w], run, text)
          /\ request \in Requests
      BY <1>0, <1>3, TakesBeside DEF ServeParse
    <2>2. m \in Messages /\ ~Own(m, "trace", run) /\ ~Own(m, "result", run)
      BY <2>1 DEF Messages, Requests, Own
    <2>3. Post(w, m) /\ (Executes(w)' => Executes(w) /\ running'[w] = running[w])
      BY <1>3 DEF ServeParse, Executes
    <2> HIDE DEF request, m
    <2> QED
      BY <2>1, <2>2, <2>3, BesideOwnRun
  <1>4. CASE BeginSimulate(w)
    <2> DEFINE request == Head(requests[w])
    <2>1. /\ Has(requests'[w], "simulate", run) => Has(requests[w], "simulate", run)
          /\ Posted(requests[w], run, text) => Posted(requests'[w], run, text)
          /\ request \in Requests /\ request.type = "simulate"
          /\ requests[w] \in Seq(Requests) /\ requests[w] # <<>>
          /\ requests'[w] = Tail(requests[w]) /\ phase[w] = "idle"
      BY <1>0, <1>4, TakesBeside DEF BeginSimulate
    <2>2. ~Executes(w)
      BY <2>1 DEF Executes
    <2>3. CASE Post(w, [type |-> "failure", id |-> request.id]) /\ UNCHANGED <<phase, running>>
      <3> DEFINE m == [type |-> "failure", id |-> request.id]
      <3>1. m \in Messages /\ ~Own(m, "trace", run) /\ ~Own(m, "result", run)
        BY <2>1 DEF Messages, Requests, Own
      <3>2. ~Executes(w)'
        BY <2>2, <2>3 DEF Executes
      <3>3. Post(w, m)
        BY <2>3
      <3> HIDE DEF request, m
      <3> QED
        BY <2>1, <3>1, <3>2, <3>3, BesideOwnRun
    <2>4. CASE /\ phase' = [phase EXCEPT ![w] = "busy"]
               /\ running' = [running EXCEPT ![w] =
                    [id |-> request.id, source |-> request.source, events |-> 0]]
               /\ UNCHANGED inbox
      <3>1. /\ phase'[w] = "busy" /\ running'[w].id = request.id
            /\ running'[w].source = request.source /\ running'[w].events = 0
            /\ inbox'[w] = inbox[w]
        BY <1>0, <2>4 DEF WorkersTyped
      <3>2. Executes(w)' <=> Own(request, "simulate", run)
        BY <2>1, <3>1 DEF Executes, Own
      <3>3. Own(request, "simulate", run) => Has(requests[w], "simulate", run)
        <4>1. 1 \in DOMAIN requests[w] /\ request = requests[w][1]
          BY <2>1
        <4> QED
          BY <4>1 DEF Has
      <3>4. Own(request, "simulate", run) /\ Posted(requests[w], run, text)
              => ~Has(requests'[w], "simulate", run) /\ request.source = text
        BY <2>1, TailRequest
      <3>5. Foreign(w) => Foreign(w)'
        BY <2>1, <3>1, <3>2, <3>3 DEF Foreign
      <3>6. ASSUME NEW top \in 0 .. MaxEvents, Stream(w, top)
            PROVE  Stream(w, top)'
        <4>1. Posted(requests'[w], run, text)
          BY <2>1, <3>6 DEF Stream
        <4>2. Has(requests'[w], "simulate", run) =>
                top = 0 /\ ~Executes(w)' /\ ~Has(inbox[w], "result", run)
          BY <2>1, <3>2, <3>4, <3>6 DEF Stream
        <4>3. Executes(w)' => /\ running'[w].source = text /\ running'[w].events = top
                              /\ ~Has(inbox[w], "result", run)
          BY <3>1, <3>2, <3>3, <3>4, <3>6 DEF Stream
        <4> QED
          BY <3>1, <3>6, <4>1, <4>2, <4>3 DEF Stream
      <3>7. \A v \in Workers \ {w} : /\ requests'[v] = requests[v] /\ inbox'[v] = inbox[v]
                                     /\ running'[v] = running[v] /\ phase'[v] = phase[v]
        BY <1>0, WorkerAlone
      <3> QED
        BY <3>5, <3>6, <3>7, OneWorkerOwnRun
    <2> QED
      BY <1>4, <2>3, <2>4 DEF BeginSimulate
  <1>5. CASE StreamTrace(w)
    <2> DEFINE e == [run |-> running[w].id, source |-> running[w].source,
                     number |-> running[w].events + 1]
               m == [type |-> "trace", id |-> running[w].id, event |-> e]
    <2>1. running[w] \in Running /\ running[w].id # 0
      BY <1>0, <1>5 DEF StreamTrace, WorkersTyped
    <2>2. e \in TraceEvents
      BY <2>1 DEF TraceEvents, Running
    <2>3. m \in Messages /\ m.type = "trace" /\ m.id = running[w].id /\ m.event = e
      BY <2>1, <2>2 DEF Messages, Running
    <2>4. Post(w, m) /\ phase[w] = "busy" /\ phase'[w] = "busy" /\ requests'[w] = requests[w]
      BY <1>5 DEF StreamTrace
    <2>5. /\ running'[w].id = running[w].id /\ running'[w].source = running[w].source
          /\ running'[w].events = running[w].events + 1 /\ running[w].events < MaxEvents
      BY <1>0, <1>5 DEF StreamTrace, WorkersTyped
    <2>6. e.run = running[w].id /\ e.source = running[w].source
          /\ e.number = running[w].events + 1 /\ running[w].events \in Nat
      BY <2>1 DEF Running
    <2> HIDE DEF e, m
    <2>7. CASE running[w].id # pendingRequest
      BY <2>3, <2>4, <2>5, <2>7, BesideOwnRun DEF Own, Executes
    <2>8. CASE running[w].id = pendingRequest
      <3>1. Executes(w) /\ Executes(w)' /\ Own(m, "trace", run)
        BY <2>3, <2>4, <2>5, <2>8 DEF Executes, Own
      <3>2. ~Foreign(w)
        BY <3>1 DEF Foreign
      <3>3. ASSUME NEW top \in 0 .. MaxEvents, Stream(w, top)
            PROVE  \E more \in 0 .. MaxEvents : Stream(w, more)'
        <4>1. /\ running[w].source = text /\ running[w].events = top
              /\ ~Has(inbox[w], "result", run) /\ ~Has(requests[w], "simulate", run)
              /\ Posted(requests[w], run, text) /\ Len(liveTraceEvents) <= top
              /\ Traced(inbox[w], run, text, Len(liveTraceEvents), top)
          BY <3>1, <3>3 DEF Stream
        <4>2. top + 1 \in 0 .. MaxEvents /\ top \in Nat /\ Len(liveTraceEvents) \in Nat
          BY <2>5, <4>1, MaxEventsAssumption DEF DrawnTyped
        <4>3. inbox[w] \in Seq(Messages) /\ inbox'[w] = Append(inbox[w], m)
          BY <1>0, <2>4 DEF WorkersTyped, Post
        <4>4. /\ Traced(inbox'[w], run, text, Len(liveTraceEvents), top + 1)
              /\ ~Has(inbox'[w], "result", run)
          <5> DEFINE q == inbox[w]
                     from == Len(liveTraceEvents)
          <5>1. /\ m.event.run = run /\ m.event.source = text /\ m.event.number = top + 1
            BY <2>3, <2>6, <2>8, <4>1
          <5>2. /\ q \in Seq(Messages) /\ from \in Nat /\ from <= top
                /\ Traced(q, run, text, from, top) /\ ~Has(q, "result", run)
            BY <4>1, <4>2, <4>3
          <5> HIDE DEF q, from
          <5>3. /\ Traced(Append(q, m), run, text, from, top + 1)
                /\ ~Has(Append(q, m), "result", run)
            BY <2>3, <3>1, <4>2, <5>1, <5>2, AppendTrace
          <5> QED
            BY <4>3, <5>3 DEF q, from
        <4>5. Answered(inbox'[w], run, text, top + 1)
          BY <4>4 DEF Answered, Has
        <4>6. Stream(w, top + 1)'
          BY <2>4, <2>5, <3>1, <4>1, <4>2, <4>4, <4>5 DEF Stream
        <4> QED
          BY <4>2, <4>6
      <3> QED
        BY <1>0, <3>2, <3>3, WorkerAlone, OneWorkerOwnRun
    <2> QED
      BY <2>7, <2>8
  <1>6. CASE FinishSimulate(w)
    <2> DEFINE response == [run |-> running[w].id, source |-> running[w].source,
                            events |-> running[w].events]
               m == [type |-> "result", id |-> running[w].id, result |-> response]
               n == [type |-> "failure", id |-> running[w].id]
    <2>1. running[w] \in Running /\ running[w].id # 0
      BY <1>0, <1>6 DEF FinishSimulate, WorkersTyped
    <2>2. response \in Results
      BY <2>1 DEF Results, Running
    <2>3. m \in Messages /\ m.type = "result" /\ m.id = running[w].id /\ m.result = response
      BY <2>1, <2>2 DEF Messages, Running
    <2>4. n \in Messages /\ n.type = "failure"
      BY <2>1 DEF Messages, Running
    <2>5. /\ response.run = running[w].id /\ response.source = running[w].source
          /\ response.events = running[w].events
      OBVIOUS
    <2>6. /\ phase[w] = "busy" /\ requests' = requests
          /\ Post(w, m) \/ Post(w, n)
      BY <1>6 DEF FinishSimulate
    <2>7. ~Executes(w)'
      BY <1>0, <1>6 DEF FinishSimulate, Executes, WorkersTyped
    <2> HIDE DEF response, m, n
    <2>8. CASE Post(w, n)
      BY <2>4, <2>6, <2>7, <2>8, BesideOwnRun DEF Own
    <2>9. CASE Post(w, m) /\ running[w].id # pendingRequest
      BY <2>3, <2>6, <2>7, <2>9, BesideOwnRun DEF Own
    <2>10. CASE Post(w, m) /\ running[w].id = pendingRequest
      <3>1. Executes(w) /\ Own(m, "result", run)
        BY <2>3, <2>6, <2>10 DEF Executes, Own
      <3>2. ~Foreign(w)
        BY <3>1 DEF Foreign
      <3>3. ASSUME NEW top \in 0 .. MaxEvents, Stream(w, top)
            PROVE  Stream(w, top)'
        <4>1. /\ running[w].source = text /\ running[w].events = top
              /\ ~Has(inbox[w], "result", run) /\ ~Has(requests[w], "simulate", run)
              /\ Posted(requests[w], run, text) /\ Len(liveTraceEvents) <= top
              /\ Traced(inbox[w], run, text, Len(liveTraceEvents), top)
          BY <3>1, <3>3 DEF Stream
        <4>2. top \in Nat /\ Len(liveTraceEvents) \in Nat
          BY MaxEventsAssumption DEF DrawnTyped
        <4>3. inbox[w] \in Seq(Messages) /\ inbox'[w] = Append(inbox[w], m)
          BY <1>0, <2>10 DEF WorkersTyped, Post
        <4>4. /\ Traced(inbox'[w], run, text, Len(liveTraceEvents), top)
              /\ Answered(inbox'[w], run, text, top)
          <5> DEFINE q == inbox[w]
                     from == Len(liveTraceEvents)
          <5>1. m.result.run = run /\ m.result.source = text /\ m.result.events = top
            BY <2>3, <2>5, <2>10, <4>1
          <5>2. /\ q \in Seq(Messages) /\ from \in Nat
                /\ Traced(q, run, text, from, top) /\ ~Has(q, "result", run)
            BY <4>1, <4>2, <4>3
          <5> HIDE DEF q, from
          <5>3. /\ Traced(Append(q, m), run, text, from, top)
                /\ Answered(Append(q, m), run, text, top)
            BY <2>3, <3>1, <4>2, <5>1, <5>2, AppendResult
          <5> QED
            BY <4>3, <5>3 DEF q, from
        <4> QED
          BY <2>6, <2>7, <4>1, <4>4 DEF Stream
      <3> QED
        BY <1>0, <3>2, <3>3, WorkerAlone, OneWorkerOwnRun
    <2> QED
      BY <2>6, <2>8, <2>9, <2>10
  <1> QED
    BY <1>2, <1>3, <1>4, <1>5, <1>6 DEF WorkerStep

-----------------------------------------------------------------------------
(***************************************************************************)
(* What the page takes from the stream.                                    *)
(***************************************************************************)

\* A message of the pending run comes from the page's worker.
LEMMA OwnComesFromWorker ==
  ASSUME WorkersTyped, OwnRun, NEW w \in Workers, pendingRequest # 0, inbox[w] # <<>>,
         Own(Head(inbox[w]), "trace", pendingRequest) \/ Own(Head(inbox[w]), "result", pendingRequest)
  PROVE  w = worker
  <1>1. inbox[w] \in Seq(Messages)
    BY DEF WorkersTyped
  <1>2. 1 \in DOMAIN inbox[w] /\ Head(inbox[w]) = inbox[w][1]
    BY <1>1
  <1>3. ~Foreign(w)
    BY <1>2 DEF Foreign, Has
  <1> QED
    BY <1>3 DEF OwnRun

\* Handling anything but an event of the pending run leaves the run alone.
LEMMA ArrivesBeside ==
  ASSUME IInv, OwnRun, DrawnTyped, NEW w \in Workers, NEW type, Arrives(w, type),
         ~Own(Head(inbox[w]), "trace", pendingRequest),
         UNCHANGED <<pendingRequest, worker, liveTraceEvents, astPreviewSource>>
  PROVE  OwnRun'
  <1> DEFINE q == inbox[w]
             run == pendingRequest
             text == astPreviewSource
  <1>0. WorkersTyped
    BY DEF IInv
  <1>1. /\ q \in Seq(Messages) /\ q # <<>> /\ inbox'[w] = Tail(q)
        /\ ~Own(Head(q), "trace", run)
        /\ \A v \in Workers \ {w} : inbox'[v] = inbox[v]
        /\ UNCHANGED <<phase, requests, running>>
    BY <1>0 DEF Arrives, WorkersTyped
  <1> HIDE DEF q
  <1>2. /\ \A t : Has(Tail(q), t, run) => Has(q, t, run)
        /\ \A from, top \in Nat : Traced(q, run, text, from, top) => Traced(Tail(q), run, text, from, top)
        /\ \A top \in Nat : Answered(q, run, text, top) => Answered(Tail(q), run, text, top)
    BY <1>1, TailBeside
  <1>3. Foreign(w) => Foreign(w)'
    BY <1>1, <1>2 DEF Foreign, Executes, q
  <1>4. ASSUME NEW top \in 0 .. MaxEvents, Stream(w, top)
        PROVE  Stream(w, top)'
    <2>1. top \in Nat /\ Len(liveTraceEvents) \in Nat
      BY MaxEventsAssumption DEF DrawnTyped
    <2> QED
      BY <1>1, <1>2, <1>4, <2>1 DEF Stream, Executes, q
  <1> QED
    BY <1>1, <1>3, <1>4, OneWorkerOwnRun

\* The event that arrives is the next one of the run, and once it is queued
\* the rest of the stream follows it.
LEMMA TraceArrives ==
  ASSUME IInv, OwnRun, DrawnTyped, NEW w \in Workers, Arrives(w, "trace"), pendingRequest # 0,
         Head(inbox[w]).id = pendingRequest
  PROVE  /\ Head(inbox[w]).event \in TraceEvents
         /\ Head(inbox[w]).event.run = pendingRequest
         /\ Head(inbox[w]).event.source = astPreviewSource
         /\ Head(inbox[w]).event.number = Len(liveTraceEvents) + 1
         /\ /\ liveTraceEvents' = Append(liveTraceEvents, Head(inbox[w]).event)
            /\ UNCHANGED <<pendingRequest, worker, astPreviewSource>>
            => OwnRun'
  <1> DEFINE q == inbox[w]
             m == Head(q)
             run == pendingRequest
             text == astPreviewSource
             from == Len(liveTraceEvents)
  <1>0. WorkersTyped
    BY DEF IInv
  <1>1. /\ q \in Seq(Messages) /\ q # <<>> /\ inbox'[w] = Tail(q)
        /\ \A v \in Workers \ {w} : inbox'[v] = inbox[v]
        /\ UNCHANGED <<phase, requests, running>>
        /\ m.type = "trace" /\ m.id = run
    BY <1>0 DEF Arrives, WorkersTyped
  <1>2. m \in Messages
    BY <1>1
  <1>3. m.event \in TraceEvents
    BY <1>1, <1>2 DEF Messages
  <1>4. Own(m, "trace", run) /\ w = worker
    BY <1>0, <1>1, OwnComesFromWorker DEF Own
  <1>5. \E top \in 0 .. MaxEvents : Stream(w, top)
    BY <1>4 DEF OwnRun
  <1>6. \A top \in 0 .. MaxEvents : top \in Nat
    BY MaxEventsAssumption
  <1>7. from \in Nat
    BY DEF DrawnTyped
  <1>8. ASSUME NEW top \in 0 .. MaxEvents, Stream(w, top)
        PROVE  /\ from < top
               /\ m.event.run = run /\ m.event.source = text /\ m.event.number = from + 1
               /\ Traced(Tail(q), run, text, from + 1, top)
               /\ Answered(Tail(q), run, text, top)
    <2>1. Traced(q, run, text, from, top) /\ Answered(q, run, text, top)
      BY <1>8 DEF Stream
    <2> HIDE DEF q, from
    <2> QED
      BY <1>1, <1>4, <1>6, <1>7, <2>1, TailTrace
  <1>9. ASSUME liveTraceEvents' = Append(liveTraceEvents, m.event),
               UNCHANGED <<pendingRequest, worker, astPreviewSource>>
        PROVE  OwnRun'
    <2>1. Len(liveTraceEvents') = from + 1
      BY <1>3, <1>9 DEF DrawnTyped
    <2>2. ~Foreign(w)
      <3>1. 1 \in DOMAIN q /\ m = q[1]
        BY <1>1
      <3> QED
        BY <1>4, <3>1 DEF Foreign, Has
    <2>4. ASSUME NEW top \in 0 .. MaxEvents, Stream(w, top)
          PROVE  Stream(w, top)'
      <3>1. \A t : Has(Tail(q), t, run) => Has(q, t, run)
        <4>1. \A i \in DOMAIN Tail(q) : i + 1 \in DOMAIN q /\ Tail(q)[i] = q[i + 1]
          BY <1>1, Tailed
        <4> QED
          BY <4>1 DEF Has
      <3>2. /\ from + 1 <= top
            /\ Traced(Tail(q), run, text, from + 1, top)
            /\ Answered(Tail(q), run, text, top)
        BY <1>6, <1>7, <1>8, <2>4
      <3> QED
        BY <1>1, <1>9, <2>1, <2>4, <3>1, <3>2 DEF Stream, Executes
    <2> QED
      BY <1>1, <1>4, <1>9, <2>2, <2>4, OneWorkerOwnRun
  <1> QED
    BY <1>3, <1>5, <1>8, <1>9

\* The response that arrives is that of the run, and no event is missing.
LEMMA ResultArrives ==
  ASSUME IInv, OwnRun, DrawnTyped, NEW w \in Workers, Arrives(w, "result"), pendingRequest # 0,
         Head(inbox[w]).id = pendingRequest
  PROVE  /\ Head(inbox[w]).result \in Results
         /\ Head(inbox[w]).result.run = pendingRequest
         /\ Head(inbox[w]).result.source = astPreviewSource
         /\ Head(inbox[w]).result.events = Len(liveTraceEvents)
  <1> DEFINE q == inbox[w]
             m == Head(q)
             run == pendingRequest
             text == astPreviewSource
             from == Len(liveTraceEvents)
  <1>0. WorkersTyped
    BY DEF IInv
  <1>1. q \in Seq(Messages) /\ q # <<>> /\ m.type = "result" /\ m.id = run
    BY <1>0 DEF Arrives, WorkersTyped
  <1>2. m \in Messages
    BY <1>1
  <1>3. Own(m, "result", run) /\ w = worker
    BY <1>0, <1>1, OwnComesFromWorker DEF Own
  <1>4. PICK top \in 0 .. MaxEvents : Stream(w, top)
    BY <1>3 DEF OwnRun
  <1>5. /\ Traced(q, run, text, from, top) /\ Answered(q, run, text, top)
        /\ from <= top /\ top \in Nat /\ from \in Nat
    BY <1>4, MaxEventsAssumption DEF Stream, DrawnTyped
  <1>6. m.result \in Results
    BY <1>1, <1>2, ResultTyped
  <1> HIDE DEF q, from
  <1>7. Head(q).result.run = run /\ Head(q).result.source = text /\ Head(q).result.events = from
    BY <1>1, <1>3, <1>5, TailResult
  <1> QED
    BY <1>6, <1>7 DEF q, from

\* A new run is asked for once, and nothing of it exists before.
LEMMA StartsOwnRun ==
  ASSUME IInv, NoneAhead, RunSimulation
  PROVE  OwnRun'
  <1> DEFINE id == requestSequence + 1
             r == [type |-> "simulate", id |-> id, source |-> source]
  <1>0. WorkersTyped /\ PageTyped /\ worker \in Workers
    BY OwnWorker DEF IInv
  <1>1. r \in Requests /\ r.type = "simulate" /\ r.id = id /\ r.source = source
    BY <1>0, SourcesAssumption DEF PageTyped, Requests
  <1>2. /\ requests' = [requests EXCEPT ![worker] = Append(@, r)]
        /\ UNCHANGED <<phase, inbox, running, worker>>
        /\ pendingRequest' = id /\ astPreviewSource' = source /\ liveTraceEvents' = <<>>
    BY DEF RunSimulation, PostRequest, BeginLiveFlow
  <1>3. requestSequence \in Nat /\ id \in Nat
    BY <1>0, MaxRunsAssumption DEF PageTyped
  <1> HIDE DEF id, r
  <1>4. ~(id <= requestSequence)
    BY <1>3 DEF id
  <1>5. ASSUME NEW v \in Workers
        PROVE  /\ ~Has(requests[v], "simulate", id) /\ running[v].id # id
               /\ ~Has(inbox[v], "trace", id) /\ ~Has(inbox[v], "result", id)
    <2>1. /\ RequestsBehind(requests[v], requestSequence, astPreviewSequence)
          /\ running[v].id <= requestSequence
          /\ MessagesBehind(inbox[v], requestSequence, astPreviewSequence)
      BY DEF NoneAhead
    <2>2. ~Has(requests[v], "simulate", id)
      BY <1>4, <2>1 DEF RequestsBehind, Has, Own
    <2>3. ~Has(inbox[v], "trace", id) /\ ~Has(inbox[v], "result", id)
      BY <1>4, <2>1 DEF MessagesBehind, Has, Own
    <2> QED
      BY <1>4, <2>1, <2>2, <2>3
  <1>6. \A v \in Workers \ {worker} : Foreign(v)'
    BY <1>0, <1>2, <1>5 DEF Foreign, Executes, WorkersTyped
  <1>7. Stream(worker, 0)'
    <2>1. Posted(requests'[worker], id, source)
      <3>1. requests[worker] \in Seq(Requests) /\ requests'[worker] = Append(requests[worker], r)
        BY <1>0, <1>2 DEF WorkersTyped
      <3> QED
        BY <1>0, <1>1, <1>5, <3>1, AppendRequest DEF Own
    <2>2. ~Has(inbox[worker], "trace", id) /\ ~Has(inbox[worker], "result", id)
          /\ ~Executes(worker)'
      BY <1>0, <1>2, <1>5 DEF Executes
    <2>3. Traced(inbox[worker], id, source, 0, 0) /\ Answered(inbox[worker], id, source, 0)
      BY <2>2 DEF Traced, Answered, Has
    <2>4. Len(liveTraceEvents') = 0
      BY <1>2
    <2> QED
      BY <1>2, <2>1, <2>2, <2>3, <2>4 DEF Stream
  <1>8. 0 \in 0 .. MaxEvents
    BY MaxEventsAssumption
  <1> QED
    BY <1>2, <1>6, <1>7, <1>8 DEF OwnRun

-----------------------------------------------------------------------------
(***************************************************************************)
(* The invariant, one conjunct at a time.                                  *)
(***************************************************************************)

\* While a request is pending, drawing leaves the queue as it is given.
LEMMA AdvanceKeepsQueue ==
  ASSUME IInv, pendingRequest # 0, NEW events, AdvanceLiveFlow(events)
  PROVE  liveTraceEvents' = events
  <1>1. liveFinalResponse = NoResponse
    BY DEF IInv, RunAndFlowAgree
  <1> QED
    BY <1>1 DEF AdvanceLiveFlow, KeepDrawing

\* Every step keeps the pending run the page's own.
LEMMA NextOwnRun ==
  ASSUME IInv, DInv, [Next]_vars
  PROVE  OwnRun'
  <1>0. /\ OwnRun /\ NoneAhead /\ PreviewsOwn /\ DrawnTyped /\ WorkersTyped
        /\ (pendingRequest # 0 => liveRuntime # 0)
    BY DEF DInv, IInv, RunAndFlowAgree
  <1>1. CASE pendingRequest' = 0
    BY <1>1 DEF OwnRun
  <1>2. CASE UNCHANGED <<phase, requests, inbox, running, pendingRequest, worker,
                         liveTraceEvents, astPreviewSource>>
    BY <1>0, <1>2 DEF OwnRun, Foreign, Stream, Executes
  <1>3. CASE \E text \in Sources : Edit(text)
    BY <1>2, <1>3 DEF Edit, workerVars, requestVars, liveVars
  <1>4. CASE RejectRun
    BY <1>0, <1>1, <1>4 DEF RejectRun, MayRun, requestVars
  <1>5. CASE RunSimulation
    BY <1>0, <1>5, StartsOwnRun
  <1>6. CASE ToggleLivePause \/ RevealTimer
    <2>1. UNCHANGED <<workerVars, requestVars, astPreviewSource>>
      BY <1>6 DEF ToggleLivePause, RevealTimer
    <2>2. CASE liveTraceEvents' = liveTraceEvents
      BY <1>2, <2>1, <2>2 DEF workerVars, requestVars
    <2>3. CASE AdvanceLiveFlow(liveTraceEvents)
      BY <1>1, <2>1, <2>2, <2>3, AdvanceKeepsQueue DEF requestVars
    <2> QED
      BY <1>6, <2>2, <2>3 DEF ToggleLivePause, RevealTimer
  <1>7. CASE StopLiveRun
    BY <1>1, <1>7 DEF StopLiveRun
  <1>8. CASE \E id \in timeouts : RunTimeout(id)
    BY <1>1, <1>8 DEF RunTimeout, IInv, RunAndFlowAgree
  <1>9. CASE RequestASTPreview
    <2>1. CASE workerReady /\ liveRuntime = 0
      BY <1>0, <1>1, <1>9, <2>1 DEF RequestASTPreview, requestVars
    <2>2. CASE ~(workerReady /\ liveRuntime = 0)
      BY <1>2, <1>9, <2>2 DEF RequestASTPreview, requestVars, liveVars
    <2> QED
      BY <2>1, <2>2
  <1>10. CASE OnWorkerFault
    BY <1>1, <1>10 DEF OnWorkerFault, FailWorker
  <1>11. CASE \E w \in Workers : WorkerMessage(w)
    <2>1. PICK w \in Workers : WorkerMessage(w)
      BY <1>11
    <2>2. ASSUME NEW type, Arrives(w, type), type # "trace",
                 UNCHANGED <<pendingRequest, worker, liveTraceEvents, astPreviewSource>>
          PROVE  OwnRun'
      <3>1. ~Own(Head(inbox[w]), "trace", pendingRequest)
        BY <2>2 DEF Arrives, Own
      <3> QED
        BY <1>0, <2>2, <3>1, ArrivesBeside
    <2>3. CASE OnReady(w)
      BY <2>2, <2>3 DEF OnReady, liveVars
    <2>4. CASE OnError(w)
      BY <1>1, <2>4 DEF OnError, FailWorker
    <2>5. CASE OnAST(w)
      <3>1. CASE pendingRequest = 0
        BY <1>1, <2>5, <3>1 DEF OnAST, requestVars
      <3>2. CASE pendingRequest # 0
        <4>1. pendingASTPreview.id = 0
          BY <1>0, <3>2 DEF PreviewsOwn
        <4>2. Arrives(w, "ast") /\ UNCHANGED <<pendingRequest, worker, liveTraceEvents, astPreviewSource>>
          BY <2>5, <4>1 DEF OnAST, requestVars, liveVars
        <4> QED
          BY <2>2, <4>2
      <3> QED
        BY <3>1, <3>2
    <2>6. CASE OnTrace(w)
      <3> DEFINE data == Head(inbox[w])
      <3>1. Arrives(w, "trace") /\ UNCHANGED <<requestVars, astPreviewSource>>
        BY <2>6 DEF OnTrace
      <3>2. CASE pendingRequest = 0
        BY <1>1, <3>1, <3>2 DEF requestVars
      <3>3. CASE pendingRequest # 0 /\ data.id # pendingRequest
        <4>1. UNCHANGED <<pendingRequest, worker, liveTraceEvents, astPreviewSource>>
          BY <2>6, <3>3 DEF OnTrace, OfPendingRequest, requestVars, liveVars
        <4>2. ~Own(data, "trace", pendingRequest)
          BY <3>3 DEF Own
        <4> QED
          BY <1>0, <3>1, <4>1, <4>2, ArrivesBeside
      <3>4. CASE pendingRequest # 0 /\ data.id = pendingRequest
        <4>1. OfPendingRequest(data) /\ liveRuntime # 0
          BY <1>0, <3>4 DEF OfPendingRequest
        <4>2. liveTraceEvents' = Append(liveTraceEvents, data.event)
          <5>1. CASE livePaused \/ liveRevealTimer
            BY <2>6, <4>1, <5>1 DEF OnTrace
          <5>2. CASE ~(livePaused \/ liveRevealTimer)
            <6>1. AdvanceLiveFlow(Append(liveTraceEvents, data.event))
              BY <2>6, <4>1, <5>2 DEF OnTrace
            <6> QED
              BY <3>4, <6>1, AdvanceKeepsQueue
          <5> QED
            BY <5>1, <5>2
        <4> QED
          BY <1>0, <3>1, <3>4, <4>2, TraceArrives DEF requestVars
      <3> QED
        BY <3>2, <3>3, <3>4
    <2>7. CASE OnResult(w)
      <3>1. CASE OfPendingRequest(Head(inbox[w]))
        BY <1>1, <2>7, <3>1 DEF OnResult, EndRequest
      <3>2. CASE ~OfPendingRequest(Head(inbox[w]))
        BY <2>2, <2>7, <3>2 DEF OnResult, requestVars, liveVars
      <3> QED
        BY <3>1, <3>2
    <2>8. CASE OnFailure(w)
      <3>1. CASE OfPendingRequest(Head(inbox[w]))
        BY <1>1, <2>8, <3>1 DEF OnFailure, EndRequest
      <3>2. CASE ~OfPendingRequest(Head(inbox[w]))
        BY <2>2, <2>8, <3>2 DEF OnFailure, requestVars, liveVars, previewVars
      <3> QED
        BY <3>1, <3>2
    <2> QED
      BY <2>1, <2>3, <2>4, <2>5, <2>6, <2>7, <2>8 DEF WorkerMessage
  <1>12. CASE \E w \in Workers : /\ WorkerStep(w)
                                 /\ UNCHANGED <<requestVars, userVars, previewVars, liveVars, shownVars>>
    BY <1>0, <1>12, WorkerOwnRun DEF requestVars, liveVars, previewVars
  <1>13. CASE UNCHANGED vars
    BY <1>2, <1>13 DEF vars, workerVars, requestVars, liveVars, previewVars
  <1> QED
    BY <1>3, <1>4, <1>5, <1>6, <1>7, <1>8, <1>9, <1>10, <1>11, <1>12, <1>13 DEF Next

\* The ids of runs and previews only grow.
LEMMA IdsGrow ==
  ASSUME IInv, [Next]_vars
  PROVE  /\ requestSequence \in Nat /\ requestSequence' \in Nat
         /\ astPreviewSequence \in Nat /\ astPreviewSequence' \in Nat
         /\ requestSequence <= requestSequence' /\ astPreviewSequence <= astPreviewSequence'
  <1>1. /\ requestSequence \in Nat /\ astPreviewSequence \in Nat
        /\ requestSequence' \in Nat /\ astPreviewSequence' \in Nat
    BY NextPageTyped, MaxRunsAssumption DEF IInv, PageTyped
  <1>2. CASE RunSimulation
    BY <1>1, <1>2 DEF RunSimulation
  <1>3. CASE RequestASTPreview
    BY <1>1, <1>3 DEF RequestASTPreview, requestVars
  <1>4. CASE UNCHANGED <<requestSequence, astPreviewSequence>>
    BY <1>1, <1>4
  <1>5. CASE ToggleLivePause \/ RevealTimer \/ StopLiveRun \/ RejectRun \/ OnWorkerFault
    BY <1>4, <1>5
    DEF ToggleLivePause, RevealTimer, StopLiveRun, RejectRun, OnWorkerFault, FailWorker,
        requestVars, previewVars
  <1>6. CASE \E id \in timeouts : RunTimeout(id)
    BY <1>4, <1>6 DEF RunTimeout
  <1>7. CASE \E text \in Sources : Edit(text)
    BY <1>4, <1>7 DEF Edit, requestVars
  <1>8. CASE \E w \in Workers : WorkerMessage(w)
    BY <1>4, <1>8
    DEF WorkerMessage, OnReady, OnError, OnAST, OnTrace, OnResult, OnFailure, FailWorker,
        EndRequest, requestVars, previewVars
  <1>9. CASE UNCHANGED <<requestVars, previewVars>>
    BY <1>4, <1>9 DEF requestVars, previewVars
  <1> QED
    BY <1>2, <1>3, <1>5, <1>6, <1>7, <1>8, <1>9 DEF Next, vars

\* What a step may do to the requests of a worker, to what it runs, and to its
\* messages.
RequestsStep(v) ==
  \/ requests'[v] = requests[v] \/ requests'[v] = <<>>
  \/ requests[v] # <<>> /\ requests'[v] = Tail(requests[v])
  \/ /\ RunSimulation
     /\ requests'[v] = Append(requests[v],
          [type |-> "simulate", id |-> requestSequence', source |-> source])
  \/ /\ pendingASTPreview' = [id |-> astPreviewSequence', source |-> source]
     /\ astPreviewSequence' = astPreviewSequence + 1
     /\ requests'[v] = Append(requests[v],
          [type |-> "parse", id |-> astPreviewSequence', source |-> source])

RunningStep(v) ==
  \/ running'[v].id = running[v].id \/ running'[v].id = 0
  \/ requests[v] # <<>> /\ Own(Head(requests[v]), "simulate", running'[v].id)

InboxStep(v) ==
  \/ inbox'[v] = inbox[v] \/ inbox'[v] = <<>>
  \/ inbox[v] # <<>> /\ inbox'[v] = Tail(inbox[v])
  \/ \E m \in Messages :
       /\ inbox'[v] = Append(inbox[v], m)
       /\ m.type \in {"trace", "result"} => m.id = running[v].id
       /\ m.type = "ast" =>
            /\ requests[v] # <<>> /\ Own(Head(requests[v]), "parse", m.id)
            /\ m.source = Head(requests[v]).source

\* Every step does one of these to every worker.
LEMMA NextQueues ==
  ASSUME IInv, [Next]_vars, NEW v \in Workers
  PROVE  RequestsStep(v) /\ RunningStep(v) /\ InboxStep(v)
  <1> USE DEF RequestsStep, RunningStep, InboxStep
  <1>0. WorkersTyped /\ worker \in Workers
    BY OwnWorker DEF IInv
  <1>1. CASE UNCHANGED <<requests, running, inbox>>
    BY <1>1
  <1>2. CASE Replace(worker)
    <2>1. /\ requests'[v] = requests[v] \/ requests'[v] = <<>>
          /\ running'[v] = running[v] \/ running'[v] = Idle
          /\ inbox'[v] = inbox[v] \/ inbox'[v] = <<>>
      BY <1>0, <1>2 DEF Replace, WorkersTyped
    <2> QED
      BY <2>1 DEF Idle
  <1>3. CASE RunSimulation
    <2>1. /\ requests'[v] = requests[v] \/ requests'[v] = Append(requests[v],
               [type |-> "simulate", id |-> requestSequence', source |-> source])
          /\ running' = running /\ inbox' = inbox
      BY <1>0, <1>3 DEF RunSimulation, PostRequest, WorkersTyped
    <2> QED
      BY <1>3, <2>1
  <1>4. CASE RequestASTPreview
    <2>1. running' = running /\ inbox' = inbox
      BY <1>4 DEF RequestASTPreview
    <2>2. CASE workerReady /\ liveRuntime = 0
      <3>1. /\ pendingASTPreview' = [id |-> astPreviewSequence', source |-> source]
            /\ astPreviewSequence' = astPreviewSequence + 1
            /\ requests'[v] = requests[v] \/ requests'[v] = Append(requests[v],
                 [type |-> "parse", id |-> astPreviewSequence', source |-> source])
        BY <1>0, <1>4, <2>2 DEF RequestASTPreview, PostRequest, WorkersTyped
      <3> QED
        BY <1>4, <2>1, <3>1
    <2>3. CASE ~(workerReady /\ liveRuntime = 0)
      BY <1>1, <1>4, <2>1, <2>3 DEF RequestASTPreview
    <2> QED
      BY <2>2, <2>3
  <1>5. CASE \E w \in Workers : WorkerMessage(w)
    <2>1. PICK w \in Workers : \E type : Arrives(w, type)
      BY <1>5 DEF WorkerMessage, OnReady, OnError, OnAST, OnTrace, OnResult, OnFailure
    <2>2. /\ inbox[w] # <<>> /\ requests' = requests /\ running' = running
          /\ inbox' = [inbox EXCEPT ![w] = Tail(inbox[w])]
      BY <2>1 DEF Arrives
    <2>3. inbox'[v] = inbox[v] \/ (inbox[v] # <<>> /\ inbox'[v] = Tail(inbox[v]))
      <3>1. inbox \in [Workers -> Seq(Messages)]
        BY <1>0 DEF WorkersTyped
      <3>2. v = w => inbox'[v] = Tail(inbox[v])
        BY <2>2, <3>1
      <3>3. v # w => inbox'[v] = inbox[v]
        BY <2>2, <3>1
      <3> QED
        BY <2>2, <3>2, <3>3
    <2> QED
      BY <2>2, <2>3
  <1>6. CASE \E w \in Workers : WorkerStep(w)
    <2>1. PICK w \in Workers : WorkerStep(w)
      BY <1>6
    <2>2. CASE v # w
      <3>1. requests'[v] = requests[v] /\ inbox'[v] = inbox[v] /\ running'[v] = running[v]
        BY <1>0, <2>1, <2>2, WorkerAlone
      <3> QED
        BY <3>1
    <2>3. CASE v = w /\ FinishLoading(v)
      <3>1. PICK t \in {"ready", "error"} : Post(v, [type |-> t]) /\ UNCHANGED <<requests, running>>
        BY <2>3 DEF FinishLoading
      <3> DEFINE m == [type |-> t]
      <3>2. m \in Messages /\ m.type \notin {"trace", "result", "ast"}
        BY DEF Messages
      <3>3. inbox'[v] = Append(inbox[v], m)
        BY <1>0, <3>1 DEF Post, WorkersTyped
      <3> HIDE DEF m
      <3> QED
        BY <3>1, <3>2, <3>3
    <2>4. CASE v = w /\ ServeParse(v)
      <3> DEFINE request == Head(requests[v])
                 m == [type |-> "ast", id |-> request.id, source |-> request.source]
      <3>1. /\ request \in Requests /\ request.type = "parse" /\ requests[v] # <<>>
            /\ requests'[v] = Tail(requests[v])
        BY <1>0, <2>4, TakesBeside DEF ServeParse
      <3>2. m \in Messages /\ m.type = "ast" /\ m.id = request.id /\ m.source = request.source
        BY <3>1 DEF Messages, Requests
      <3>3. inbox'[v] = Append(inbox[v], m) /\ running' = running
        BY <1>0, <2>4 DEF ServeParse, Post, WorkersTyped
      <3> HIDE DEF m, request
      <3>4. Own(request, "parse", m.id)
        BY <3>1, <3>2 DEF Own
      <3> QED
        BY <3>1, <3>2, <3>3, <3>4 DEF request
    <2>5. CASE v = w /\ BeginSimulate(v)
      <3> DEFINE request == Head(requests[v])
                 m == [type |-> "failure", id |-> request.id]
      <3>1. /\ request \in Requests /\ request.type = "simulate" /\ requests[v] # <<>>
            /\ requests'[v] = Tail(requests[v])
        BY <1>0, <2>5, TakesBeside DEF BeginSimulate
      <3>2. CASE UNCHANGED inbox /\ running'[v].id = request.id
        BY <3>1, <3>2 DEF Own
      <3>3. CASE Post(v, m) /\ UNCHANGED running
        <4>1. m \in Messages /\ m.type = "failure"
          BY <3>1 DEF Messages, Requests
        <4>2. inbox'[v] = Append(inbox[v], m)
          BY <1>0, <3>3 DEF Post, WorkersTyped
        <4> HIDE DEF m, request
        <4> QED
          BY <3>1, <3>3, <4>1, <4>2 DEF request
      <3>4. (UNCHANGED inbox /\ running'[v].id = request.id) \/ (Post(v, m) /\ UNCHANGED running)
        BY <1>0, <2>5 DEF BeginSimulate, WorkersTyped
      <3> QED
        BY <3>2, <3>3, <3>4
    <2>6. CASE v = w /\ StreamTrace(v)
      <3> DEFINE e == [run |-> running[v].id, source |-> running[v].source,
                       number |-> running[v].events + 1]
                 m == [type |-> "trace", id |-> running[v].id, event |-> e]
      <3>1. running[v] \in Running /\ running[v].id # 0
        BY <1>0, <2>6 DEF StreamTrace, WorkersTyped
      <3>2. e \in TraceEvents
        BY <3>1 DEF TraceEvents, Running
      <3>3. m \in Messages /\ m.type = "trace" /\ m.id = running[v].id
        BY <3>1, <3>2 DEF Messages, Running
      <3>4. /\ inbox'[v] = Append(inbox[v], m) /\ requests' = requests
            /\ running'[v].id = running[v].id
        BY <1>0, <2>6 DEF StreamTrace, Post, WorkersTyped
      <3> HIDE DEF m, e
      <3> QED
        BY <3>3, <3>4
    <2>7. CASE v = w /\ FinishSimulate(v)
      <3> DEFINE response == [run |-> running[v].id, source |-> running[v].source,
                              events |-> running[v].events]
                 m == [type |-> "result", id |-> running[v].id, result |-> response]
                 n == [type |-> "failure", id |-> running[v].id]
      <3>1. running[v] \in Running /\ running[v].id # 0
        BY <1>0, <2>7 DEF FinishSimulate, WorkersTyped
      <3>2. response \in Results
        BY <3>1 DEF Results, Running
      <3>3. /\ m \in Messages /\ m.type = "result" /\ m.id = running[v].id
            /\ n \in Messages /\ n.type = "failure"
        BY <3>1, <3>2 DEF Messages, Running
      <3>4. /\ inbox'[v] = Append(inbox[v], m) \/ inbox'[v] = Append(inbox[v], n)
            /\ requests' = requests /\ running'[v].id = 0
        BY <1>0, <2>7 DEF FinishSimulate, Post, WorkersTyped, Idle
      <3> HIDE DEF m, n, response
      <3> QED
        BY <3>3, <3>4
    <2> QED
      BY <2>1, <2>2, <2>3, <2>4, <2>5, <2>6, <2>7 DEF WorkerStep
  <1>7. CASE UNCHANGED workerVars
    BY <1>1, <1>7 DEF workerVars
  <1>8. CASE StopLiveRun \/ \E id \in timeouts : RunTimeout(id)
    BY <1>2, <1>7, <1>8 DEF StopLiveRun, RunTimeout, RestartWorker
  <1> QED
    BY <1>3, <1>4, <1>5, <1>6, <1>7, <1>8
    DEF Next, vars, Edit, RejectRun, ToggleLivePause, RevealTimer, OnWorkerFault

\* Every step leaves all requests and messages behind the ids that were given.
LEMMA NextNoneAhead ==
  ASSUME IInv, DInv, [Next]_vars
  PROVE  NoneAhead'
  <1> SUFFICES ASSUME NEW v \in Workers
               PROVE  /\ RequestsBehind(requests'[v], requestSequence', astPreviewSequence')
                      /\ running'[v].id <= requestSequence'
                      /\ MessagesBehind(inbox'[v], requestSequence', astPreviewSequence')
    BY DEF NoneAhead
  <1> DEFINE q == requests[v]
             p == inbox[v]
             runs == requestSequence'
             previews == astPreviewSequence'
  <1>1. /\ q \in Seq(Requests) /\ p \in Seq(Messages) /\ running[v].id \in Nat
        /\ RequestsBehind(q, requestSequence, astPreviewSequence)
        /\ running[v].id <= requestSequence
        /\ MessagesBehind(p, requestSequence, astPreviewSequence)
    <2>1. running[v] \in Running
      BY DEF IInv, WorkersTyped
    <2> QED
      BY <2>1 DEF IInv, DInv, NoneAhead, WorkersTyped, Running
  <1>2. /\ requestSequence \in Nat /\ runs \in Nat
        /\ astPreviewSequence \in Nat /\ previews \in Nat
        /\ requestSequence <= runs /\ astPreviewSequence <= previews
    BY IdsGrow
  <1>3. /\ RequestsBehind(q, runs, previews) /\ running[v].id <= runs
        /\ MessagesBehind(p, runs, previews)
    <2> HIDE DEF q, p, runs, previews
    <2>1. RequestsBehind(q, runs, previews)
      BY <1>1, <1>2, RequestsStayBehind
    <2>2. MessagesBehind(p, runs, previews)
      BY <1>1, <1>2, MessagesStayBehind
    <2> QED
      BY <1>1, <1>2, <2>1, <2>2
  <1>4. q # <<>> => /\ Head(q).type = "simulate" => Head(q).id <= runs
                    /\ Head(q).type = "parse" => Head(q).id <= previews
    <2>1. q # <<>> => 1 \in DOMAIN q /\ Head(q) = q[1]
      BY <1>1
    <2> QED
      BY <1>3, <2>1 DEF RequestsBehind
  <1>5. RequestsBehind(requests'[v], runs, previews)
    <2>1. ASSUME NEW m \in Requests, m.type = "simulate" => m.id <= runs,
                 m.type = "parse" => m.id <= previews
          PROVE  RequestsBehind(Append(q, m), runs, previews)
      <3> HIDE DEF q, runs, previews
      <3> QED
        BY <1>1, <1>2, <1>3, <2>1, RequestsStayBehind
    <2>2. q # <<>> => RequestsBehind(Tail(q), runs, previews)
      <3> HIDE DEF q, runs, previews
      <3> QED
        BY <1>1, <1>2, <1>3, RequestsStayBehind
    <2>3. RequestsBehind(<<>>, runs, previews)
      BY DEF RequestsBehind
    <2>4. source \in Nat
      BY SourcesAssumption DEF IInv, PageTyped
    <2>5. CASE /\ RunSimulation
               /\ requests'[v] = Append(q, [type |-> "simulate", id |-> runs, source |-> source])
      <3> DEFINE m == [type |-> "simulate", id |-> runs, source |-> source]
      <3>1. runs = requestSequence + 1
        BY <2>5 DEF RunSimulation
      <3>2. m \in Requests /\ m.type = "simulate" /\ m.id <= runs
        BY <1>2, <2>4, <3>1 DEF Requests
      <3> HIDE DEF m
      <3>3. RequestsBehind(Append(q, m), runs, previews)
        BY <2>1, <3>2
      <3> QED
        BY <2>5, <3>3 DEF m
    <2>6. CASE /\ previews = astPreviewSequence + 1
               /\ requests'[v] = Append(q, [type |-> "parse", id |-> previews, source |-> source])
      <3> DEFINE m == [type |-> "parse", id |-> previews, source |-> source]
      <3>1. m \in Requests /\ m.type = "parse" /\ m.id <= previews
        BY <1>2, <2>4, <2>6 DEF Requests
      <3> HIDE DEF m
      <3>2. RequestsBehind(Append(q, m), runs, previews)
        BY <2>1, <3>1
      <3> QED
        BY <2>6, <3>2 DEF m
    <2>7. \/ requests'[v] = q \/ requests'[v] = <<>> \/ (q # <<>> /\ requests'[v] = Tail(q))
          \/ /\ RunSimulation
             /\ requests'[v] = Append(q, [type |-> "simulate", id |-> runs, source |-> source])
          \/ /\ previews = astPreviewSequence + 1
             /\ requests'[v] = Append(q, [type |-> "parse", id |-> previews, source |-> source])
      BY NextQueues DEF RequestsStep
    <2> QED
      BY <1>3, <2>2, <2>3, <2>5, <2>6, <2>7
  <1>6. running'[v].id <= runs
    <2>1. \/ running'[v].id = running[v].id \/ running'[v].id = 0
          \/ q # <<>> /\ Own(Head(q), "simulate", running'[v].id)
      BY NextQueues DEF RunningStep
    <2> QED
      BY <1>2, <1>3, <1>4, <2>1 DEF Own
  <1>7. MessagesBehind(inbox'[v], runs, previews)
    <2>1. ASSUME NEW m \in Messages, m.type \in {"trace", "result"} => m.id = running[v].id,
                 m.type = "ast" => q # <<>> /\ Own(Head(q), "parse", m.id)
          PROVE  MessagesBehind(Append(p, m), runs, previews)
      <3>1. /\ m.type \in {"trace", "result"} => m.id <= runs
            /\ m.type = "ast" => m.id <= previews
        BY <1>3, <1>4, <2>1 DEF Own
      <3> HIDE DEF p, runs, previews
      <3> QED
        BY <1>1, <1>2, <1>3, <3>1, MessagesStayBehind
    <2>2. p # <<>> => MessagesBehind(Tail(p), runs, previews)
      <3> HIDE DEF p, runs, previews
      <3> QED
        BY <1>1, <1>2, <1>3, MessagesStayBehind
    <2>3. MessagesBehind(<<>>, runs, previews)
      BY DEF MessagesBehind
    <2>4. \/ inbox'[v] = p \/ inbox'[v] = <<>> \/ (p # <<>> /\ inbox'[v] = Tail(p))
          \/ \E m \in Messages :
                 /\ inbox'[v] = Append(p, m)
                 /\ m.type \in {"trace", "result"} => m.id = running[v].id
                 /\ m.type = "ast" => q # <<>> /\ Own(Head(q), "parse", m.id)
      BY NextQueues DEF InboxStep
    <2> QED
      BY <1>3, <2>1, <2>2, <2>3, <2>4
  <1> QED
    BY <1>5, <1>6, <1>7

\* What a step does to the awaited preview.
LEMMA NextPreview ==
  ASSUME IInv, DInv, [Next]_vars
  PROVE  \/ pendingASTPreview' = NoPreview
         \/ pendingASTPreview' = pendingASTPreview /\ ~RunSimulation
         \/ /\ RequestASTPreview /\ liveRuntime = 0 /\ liveRuntime' = 0
            /\ astPreviewSequence' = astPreviewSequence + 1
            /\ pendingASTPreview' = [id |-> astPreviewSequence', source |-> source]
  <1>1. CASE RunSimulation
    BY <1>1 DEF RunSimulation
  <1>2. CASE RequestASTPreview
    <2>1. CASE workerReady /\ liveRuntime = 0
      BY <1>2, <2>1 DEF RequestASTPreview, liveVars
    <2>2. CASE ~(workerReady /\ liveRuntime = 0)
      BY <1>1, <1>2, <2>2 DEF RequestASTPreview
    <2> QED
      BY <2>1, <2>2
  <1>3. CASE pendingASTPreview' = pendingASTPreview
    BY <1>1, <1>3
  <1>4. CASE pendingASTPreview' = NoPreview
    BY <1>4
  <1>5. CASE \E w \in Workers : WorkerMessage(w)
    BY <1>3, <1>4, <1>5
    DEF WorkerMessage, OnReady, OnError, OnAST, OnTrace, OnResult, OnFailure, FailWorker, previewVars
  <1>6. CASE StopLiveRun \/ \E id \in timeouts : RunTimeout(id)
    BY <1>3, <1>4, <1>6 DEF StopLiveRun, RunTimeout, RestartWorker
  <1> QED
    BY <1>1, <1>2, <1>3, <1>5, <1>6
    DEF Next, vars, previewVars, Edit, RejectRun, ToggleLivePause, RevealTimer, OnWorkerFault, FailWorker

\* Only a run that is started makes another run live.
LEMMA NextLive ==
  ASSUME IInv, [Next]_vars
  PROVE  RunSimulation \/ liveRuntime' = liveRuntime \/ liveRuntime' = 0
  <1>1. \A events : AdvanceLiveFlow(events) => liveRuntime' = liveRuntime \/ liveRuntime' = 0
    BY AdvanceKeepsOrEnds DEF FlowCleared
  <1>2. /\ ClearLive => liveRuntime' = 0
        /\ RenderFailure => liveRuntime' = 0
        /\ \A response : RenderResponse(response) => liveRuntime' = 0
    BY DEF ClearLive, RenderFailure, RenderResponse
  <1>3. CASE liveRuntime' = liveRuntime
    BY <1>3
  <1>4. CASE ToggleLivePause \/ RevealTimer
    BY <1>1, <1>4 DEF ToggleLivePause, RevealTimer
  <1>5. CASE \E w \in Workers : WorkerMessage(w)
    <2>1. PICK w \in Workers : WorkerMessage(w)
      BY <1>5
    <2>2. CASE OnReady(w) \/ OnAST(w)
      BY <2>2 DEF OnReady, OnAST, liveVars
    <2>3. CASE OnError(w) \/ OnFailure(w)
      BY <1>2, <2>3 DEF OnError, OnFailure, FailWorker, liveVars
    <2>4. CASE OnTrace(w)
      BY <1>1, <2>4 DEF OnTrace, liveVars
    <2>5. CASE OnResult(w)
      BY <1>2, <2>5 DEF OnResult, FinishLiveSimulation, liveVars
    <2> QED
      BY <2>1, <2>2, <2>3, <2>4, <2>5 DEF WorkerMessage
  <1>6. CASE StopLiveRun \/ RejectRun \/ OnWorkerFault \/ \E id \in timeouts : RunTimeout(id)
    BY <1>2, <1>6 DEF StopLiveRun, RejectRun, OnWorkerFault, FailWorker, RunTimeout, liveVars
  <1>7. CASE UNCHANGED liveVars
    BY <1>7 DEF liveVars
  <1> QED
    BY <1>4, <1>5, <1>6, <1>7 DEF Next, vars, Edit, RequestASTPreview

\* Every step keeps what is asked for and answered about a preview of its text.
LEMMA NextPreviewsOwn ==
  ASSUME IInv, DInv, [Next]_vars
  PROVE  PreviewsOwn'
  <1> SUFFICES ASSUME pendingASTPreview'.id # 0
               PROVE  /\ liveRuntime' = 0
                      /\ pendingASTPreview'.id <= astPreviewSequence'
                      /\ \A v \in Workers :
                           /\ OfText(requests'[v], "parse", pendingASTPreview')
                           /\ OfText(inbox'[v], "ast", pendingASTPreview')
    BY DEF PreviewsOwn
  <1> DEFINE p == pendingASTPreview'
  <1>0. /\ requestSequence \in Nat /\ requestSequence' \in Nat
        /\ astPreviewSequence \in Nat /\ astPreviewSequence' \in Nat
        /\ requestSequence <= requestSequence' /\ astPreviewSequence <= astPreviewSequence'
    BY IdsGrow
  <1>1. pendingASTPreview' # NoPreview
    BY DEF NoPreview
  <1>2. pendingASTPreview.id \in Nat
    BY DEF DInv, DrawnTyped
  \* The preview is awaited already, or nothing of it exists yet.
  <1>3. /\ liveRuntime' = 0 /\ p.id <= astPreviewSequence'
        /\ \A v \in Workers : OfText(requests[v], "parse", p) /\ OfText(inbox[v], "ast", p)
    <2>1. CASE p = pendingASTPreview /\ ~RunSimulation
      BY <1>0, <1>2, <2>1, NextLive DEF DInv, PreviewsOwn
    <2>2. CASE /\ liveRuntime' = 0 /\ astPreviewSequence' = astPreviewSequence + 1
               /\ p = [id |-> astPreviewSequence', source |-> source]
      <3>1. p.id = astPreviewSequence + 1
        BY <2>2
      <3>2. ASSUME NEW v \in Workers
            PROVE  OfText(requests[v], "parse", p) /\ OfText(inbox[v], "ast", p)
        <4>1. /\ RequestsBehind(requests[v], requestSequence, astPreviewSequence)
              /\ MessagesBehind(inbox[v], requestSequence, astPreviewSequence)
          BY DEF DInv, NoneAhead
        <4>2. OfText(requests[v], "parse", p)
          BY <1>0, <3>1, <4>1 DEF RequestsBehind, OfText, Own
        <4>3. OfText(inbox[v], "ast", p)
          BY <1>0, <3>1, <4>1 DEF MessagesBehind, OfText, Own
        <4> QED
          BY <4>2, <4>3
      <3> QED
        BY <1>0, <2>2, <3>1, <3>2
    <2> QED
      BY <1>1, <2>1, <2>2, NextPreview
  <1>4. p.id \in Nat /\ p.id # 0 /\ source \in Nat
    BY <1>0, <1>1, <1>2, NextPreview, SourcesAssumption DEF IInv, PageTyped
  <1>5. ASSUME NEW v \in Workers
        PROVE  OfText(requests'[v], "parse", p)
    <2> DEFINE q == requests[v]
    <2>1. q \in Seq(Requests) /\ OfText(q, "parse", p)
      BY <1>3 DEF IInv, WorkersTyped
    <2>2. ASSUME NEW m \in Requests, Own(m, "parse", p.id) => m.source = p.source
          PROVE  OfText(Append(q, m), "parse", p)
      <3> HIDE DEF q, p
      <3> QED
        BY <2>1, <2>2, TextKept
    <2>3. q # <<>> => OfText(Tail(q), "parse", p)
      <3> HIDE DEF q, p
      <3> QED
        BY <2>1, TextKept
    <2>4. OfText(<<>>, "parse", p)
      BY DEF OfText
    <2>5. CASE /\ RunSimulation
               /\ requests'[v] = Append(q, [type |-> "simulate", id |-> requestSequence', source |-> source])
      BY <1>1, <2>5 DEF RunSimulation
    <2>6. CASE /\ pendingASTPreview' = [id |-> astPreviewSequence', source |-> source]
               /\ astPreviewSequence' = astPreviewSequence + 1
               /\ requests'[v] = Append(q, [type |-> "parse", id |-> astPreviewSequence', source |-> source])
      <3> DEFINE m == [type |-> "parse", id |-> astPreviewSequence', source |-> source]
      <3>1. m \in Requests /\ m.source = source
        BY <1>0, <1>4, <2>6 DEF Requests
      <3>2. p.source = source
        BY <2>6
      <3> HIDE DEF m
      <3>3. OfText(Append(q, m), "parse", p)
        BY <2>2, <3>1, <3>2
      <3> QED
        BY <2>6, <3>3 DEF m
    <2> QED
      BY <2>1, <2>3, <2>4, <2>5, <2>6, NextQueues DEF RequestsStep
  <1>6. ASSUME NEW v \in Workers
        PROVE  OfText(inbox'[v], "ast", p)
    <2> DEFINE q == inbox[v]
    <2>1. q \in Seq(Messages) /\ OfText(q, "ast", p)
      BY <1>3 DEF IInv, WorkersTyped
    <2>2. ASSUME NEW m \in Messages, Own(m, "ast", p.id) => m.source = p.source
          PROVE  OfText(Append(q, m), "ast", p)
      <3> HIDE DEF q, p
      <3> QED
        BY <2>1, <2>2, TextKept
    <2>3. q # <<>> => OfText(Tail(q), "ast", p)
      <3> HIDE DEF q, p
      <3> QED
        BY <2>1, TextKept
    <2>4. OfText(<<>>, "ast", p)
      BY DEF OfText
    <2>5. ASSUME NEW m \in Messages, inbox'[v] = Append(q, m),
                 m.type = "ast" =>
                   /\ requests[v] # <<>> /\ Own(Head(requests[v]), "parse", m.id)
                   /\ m.source = Head(requests[v]).source
          PROVE  OfText(inbox'[v], "ast", p)
      <3>1. requests[v] # <<>> => 1 \in DOMAIN requests[v] /\ Head(requests[v]) = requests[v][1]
        BY DEF IInv, WorkersTyped
      <3>2. Own(m, "ast", p.id) => m.source = p.source
        BY <1>3, <2>5, <3>1 DEF OfText, Own
      <3> QED
        BY <2>2, <2>5, <3>2
    <2> QED
      BY <2>1, <2>3, <2>4, <2>5, NextQueues DEF InboxStep
  <1> QED
    BY <1>3, <1>5, <1>6

(***************************************************************************)
(* What is queued, kept and shown.                                         *)
(***************************************************************************)
QueueOwn(events) ==
  /\ events \in Seq(TraceEvents)
  /\ \A k \in 1 .. Len(events) :
       /\ events[k].run = liveRuntime /\ events[k].number = k
       /\ events[k].source = astPreviewSource

ResponseOwn ==
  liveFinalResponse # NoResponse =>
    /\ liveFinalResponse.run = liveRuntime
    /\ liveFinalResponse.events = Len(liveTraceEvents)
    /\ liveFinalResponse.source = astPreviewSource

ScreenOwn ==
  /\ shownAST.complete => shownAST.source = astPreviewSource
  /\ ~astPreviewDeferred => astPreviewSource = source
  /\ astPreviewDeferred \in BOOLEAN

Drawn == QueueOwn(liveTraceEvents) /\ ResponseOwn /\ ScreenOwn

\* Together these are what the invariant says of the display.
LEMMA DrawnIs ==
  Drawn /\ pendingASTPreview \in [id : Nat, source : Nat] <=> Fresh /\ EventsAreOwn /\ DrawnTyped
  <1>1. ASSUME Drawn, pendingASTPreview \in [id : Nat, source : Nat]
        PROVE  Fresh /\ EventsAreOwn /\ DrawnTyped
    BY <1>1 DEF Drawn, QueueOwn, ResponseOwn, ScreenOwn, Fresh, EventsAreOwn, DrawnTyped
  <1>2. ASSUME Fresh, EventsAreOwn, DrawnTyped
        PROVE  Drawn /\ pendingASTPreview \in [id : Nat, source : Nat]
    BY <1>2 DEF Drawn, QueueOwn, ResponseOwn, ScreenOwn, Fresh, EventsAreOwn, DrawnTyped
  <1> QED
    BY <1>1, <1>2

\* Without a live run nothing is queued or kept.
LEMMA ClearedDrawn ==
  ASSUME liveTraceEvents' = <<>>, liveFinalResponse' = NoResponse, ScreenOwn'
  PROVE  Drawn'
  BY DEF Drawn, QueueOwn, ResponseOwn

\* Rendering the response of the text that the screen is of.
LEMMA RenderDraws ==
  ASSUME ScreenOwn, NEW response, response.source = astPreviewSource, RenderResponse(response),
         UNCHANGED <<astPreviewSource, source>>
  PROVE  Drawn'
  <1>1. liveTraceEvents' = <<>> /\ liveFinalResponse' = NoResponse
    BY DEF RenderResponse, ClearLive
  <1>2. shownAST'.complete => shownAST'.source = astPreviewSource'
    BY DEF RenderResponse
  <1>3. astPreviewDeferred' \in BOOLEAN /\ (~astPreviewDeferred' => ~astPreviewDeferred)
    BY DEF RenderResponse, ScheduleASTPreview, ScreenOwn
  <1>4. ScreenOwn'
    BY <1>2, <1>3 DEF ScreenOwn
  <1> QED
    BY <1>1, <1>4, ClearedDrawn

\* A failure empties both views.
LEMMA FailureDraws ==
  ASSUME ScreenOwn, RenderFailure, UNCHANGED <<astPreviewSource, source>>,
         astPreviewDeferred' = TRUE \/ astPreviewDeferred' = astPreviewDeferred
  PROVE  Drawn'
  <1>1. liveTraceEvents' = <<>> /\ liveFinalResponse' = NoResponse /\ shownAST' = NoSyntax
    BY DEF RenderFailure, ClearLive
  <1>2. ScreenOwn'
    BY <1>1 DEF ScreenOwn, NoSyntax
  <1> QED
    BY <1>1, <1>2, ClearedDrawn

\* Drawing on shows events of the run and keeps what is queued.
LEMMA AdvanceDraws ==
  ASSUME ResponseOwn, ScreenOwn, NEW events, QueueOwn(events), AdvanceLiveFlow(events),
         UNCHANGED <<astPreviewSource, source>>,
         liveFinalResponse # NoResponse => events = liveTraceEvents
  PROVE  Drawn'
  <1>1. CASE liveFinalResponse # NoResponse /\ RenderResponse(liveFinalResponse)
    BY <1>1, RenderDraws DEF ResponseOwn
  <1>2. ASSUME NEW k, k > 0 => 1 \in 1 .. Len(events), Draw(events, k), KeepDrawing(events),
               liveFinalResponse # NoResponse => events = liveTraceEvents
        PROVE  Drawn'
    <2>1. shownAST'.complete => shownAST'.source = astPreviewSource
      <3>1. CASE k > 0
        BY <1>2, <3>1 DEF Draw, QueueOwn
      <3>2. CASE ~(k > 0)
        BY <1>2, <3>2 DEF Draw, ScreenOwn
      <3> QED
        BY <3>1, <3>2
    <2>2. /\ liveTraceEvents' = events /\ liveRuntime' = liveRuntime
          /\ liveFinalResponse' = liveFinalResponse /\ astPreviewDeferred' = astPreviewDeferred
      BY <1>2 DEF KeepDrawing
    <2>3. QueueOwn(liveTraceEvents)'
      BY <2>2 DEF QueueOwn
    <2>4. ResponseOwn'
      BY <1>2, <2>2 DEF ResponseOwn
    <2>5. ScreenOwn'
      BY <2>1, <2>2 DEF ScreenOwn
    <2> QED
      BY <2>3, <2>4, <2>5 DEF Drawn
  <1>3. Len(events) \in Nat
    BY DEF QueueOwn
  <1>4. CASE \E k \in (liveTraceIndex + 1) .. Len(events) : k > 1 /\ Draw(events, k) /\ KeepDrawing(events)
    <2>1. PICK k \in (liveTraceIndex + 1) .. Len(events) : k > 1 /\ Draw(events, k) /\ KeepDrawing(events)
      BY <1>4
    <2>2. 1 \in 1 .. Len(events)
      BY <1>3, <2>1
    <2> QED
      BY <1>2, <2>1, <2>2
  <1>5. CASE Draw(events, Len(events)) /\ KeepDrawing(events)
    BY <1>2, <1>3, <1>5
  <1> QED
    BY <1>1, <1>4, <1>5 DEF AdvanceLiveFlow

\* Every step keeps the display of the live run and of the text.
LEMMA NextDrawn ==
  ASSUME IInv, DInv, [Next]_vars
  PROVE  Drawn'
  <1>0. /\ Drawn /\ QueueOwn(liveTraceEvents) /\ ResponseOwn /\ ScreenOwn
        /\ OwnRun /\ PreviewsOwn /\ DrawnTyped /\ RunAndFlowAgree
    BY DrawnIs DEF DInv, Drawn, IInv
  <1>1. CASE /\ UNCHANGED <<liveRuntime, liveTraceEvents, liveFinalResponse, shownAST, astPreviewSource>>
             /\ astPreviewDeferred' = TRUE \/ UNCHANGED <<astPreviewDeferred, source>>
    <2>1. QueueOwn(liveTraceEvents)' /\ ResponseOwn'
      BY <1>0, <1>1 DEF QueueOwn, ResponseOwn
    <2>2. ScreenOwn'
      BY <1>0, <1>1 DEF ScreenOwn
    <2> QED
      BY <2>1, <2>2 DEF Drawn
  <1>2. CASE \E text \in Sources : Edit(text)
    BY <1>1, <1>2 DEF Edit, ScheduleASTPreview, liveVars, shownVars
  <1>3. CASE RejectRun
    BY <1>0, <1>3, FailureDraws DEF RejectRun, userVars, previewVars
  <1>4. CASE RunSimulation
    <2>1. /\ liveTraceEvents' = <<>> /\ liveFinalResponse' = NoResponse
          /\ astPreviewSource' = source /\ source' = source /\ astPreviewDeferred' = FALSE
          /\ shownAST' = IF astPreviewSource = source THEN shownAST ELSE NoSyntax
      BY <1>4 DEF RunSimulation, BeginLiveFlow, userVars
    <2>2. ScreenOwn'
      BY <1>0, <2>1 DEF ScreenOwn, NoSyntax
    <2> QED
      BY <2>1, <2>2, ClearedDrawn
  <1>5. CASE ToggleLivePause \/ RevealTimer
    <2>1. UNCHANGED <<source, astPreviewSource>>
      BY <1>5 DEF ToggleLivePause, RevealTimer, userVars
    <2>2. CASE AdvanceLiveFlow(liveTraceEvents)
      BY <1>0, <2>1, <2>2, AdvanceDraws
    <2>3. CASE UNCHANGED <<liveRuntime, liveTraceEvents, liveFinalResponse, shownVars, astPreviewDeferred>>
      BY <1>1, <2>1, <2>3 DEF shownVars
    <2> QED
      BY <1>5, <2>2, <2>3 DEF ToggleLivePause, RevealTimer, previewVars
  <1>6. CASE StopLiveRun
    <2>1. /\ liveTraceEvents' = <<>> /\ liveFinalResponse' = NoResponse
          /\ UNCHANGED <<shownAST, astPreviewSource, source>>
          /\ astPreviewDeferred' = TRUE \/ astPreviewDeferred' = astPreviewDeferred
      BY <1>6 DEF StopLiveRun, ClearLive, RestartWorker, ScheduleASTPreview, userVars, shownVars
    <2>2. ScreenOwn'
      BY <1>0, <2>1 DEF ScreenOwn
    <2> QED
      BY <2>1, <2>2, ClearedDrawn
  <1>7. CASE \E id \in timeouts : RunTimeout(id)
    <2>1. PICK id \in timeouts : RunTimeout(id)
      BY <1>7
    <2>2. id = pendingRequest
      BY <1>0 DEF RunAndFlowAgree
    <2>3. RenderFailure /\ RestartWorker /\ UNCHANGED <<source, astPreviewSource>>
      BY <2>1, <2>2 DEF RunTimeout, userVars
    <2> QED
      BY <1>0, <2>3, FailureDraws DEF RestartWorker
  <1>8. CASE RequestASTPreview
    BY <1>1, <1>8 DEF RequestASTPreview, liveVars, shownVars, userVars
  <1>9. CASE OnWorkerFault
    BY <1>0, <1>9, FailureDraws DEF OnWorkerFault, FailWorker, previewVars
  <1>10. CASE \E w \in Workers : WorkerMessage(w)
    <2>1. PICK w \in Workers : WorkerMessage(w)
      BY <1>10
    <2>2. CASE OnReady(w)
      BY <1>1, <2>2 DEF OnReady, ScheduleASTPreview, liveVars, shownVars
    <2>3. CASE OnError(w)
      BY <1>0, <2>3, FailureDraws DEF OnError, FailWorker, Arrives, previewVars, userVars
    <2>4. CASE OnAST(w)
      <3> DEFINE data == Head(inbox[w])
      <3>1. /\ UNCHANGED <<liveRuntime, liveTraceEvents, liveFinalResponse, source>>
            /\ Arrives(w, "ast")
        BY <2>4 DEF OnAST, Arrives, liveVars, userVars
      <3>2. CASE UNCHANGED <<astPreviewSource, shownAST>>
                 /\ (astPreviewDeferred' = TRUE \/ astPreviewDeferred' = astPreviewDeferred)
        BY <1>1, <3>1, <3>2
      <3>3. CASE /\ pendingASTPreview.id # 0 /\ data.id = pendingASTPreview.id
                 /\ pendingASTPreview.source = source
                 /\ astPreviewDeferred' = FALSE /\ astPreviewSource' = pendingASTPreview.source
                 /\ shownAST' = [source |-> data.source, complete |-> TRUE]
        <4>1. data.source = pendingASTPreview.source
          <5>1. OfText(inbox[w], "ast", pendingASTPreview)
            BY <1>0, <3>3 DEF PreviewsOwn
          <5>2. inbox[w] \in Seq(Messages) /\ inbox[w] # <<>> /\ data.type = "ast"
            BY <3>1 DEF Arrives, IInv, WorkersTyped
          <5>3. 1 \in DOMAIN inbox[w] /\ data = inbox[w][1]
            BY <5>2
          <5> QED
            BY <3>3, <5>1, <5>2, <5>3 DEF OfText, Own
        <4>2. liveTraceEvents = <<>> /\ liveFinalResponse = NoResponse
          BY <1>0, <3>3 DEF PreviewsOwn, RunAndFlowAgree
        <4>3. ScreenOwn'
          BY <3>1, <3>3, <4>1 DEF ScreenOwn
        <4> QED
          BY <3>1, <4>2, <4>3, ClearedDrawn
      <3> QED
        BY <2>4, <3>2, <3>3 DEF OnAST, ScheduleASTPreview
    <2>5. CASE OnTrace(w)
      <3> DEFINE data == Head(inbox[w])
                 events == Append(liveTraceEvents, data.event)
      <3>1. /\ UNCHANGED <<requestVars, astPreviewSource, source>> /\ Arrives(w, "trace")
        BY <2>5 DEF OnTrace, Arrives, userVars
      <3>2. CASE ~OfPendingRequest(data) \/ liveRuntime = 0
        BY <1>1, <2>5, <3>1, <3>2 DEF OnTrace, liveVars, shownVars
      <3>3. CASE OfPendingRequest(data) /\ liveRuntime # 0
        <4>1. /\ data.event \in TraceEvents
              /\ data.event.run = liveRuntime /\ data.event.source = astPreviewSource
              /\ data.event.number = Len(liveTraceEvents) + 1
          BY <1>0, <3>1, <3>3, TraceArrives DEF OfPendingRequest, RunAndFlowAgree
        <4>2. QueueOwn(events)
          <5> DEFINE e == data.event
          <5>1. liveTraceEvents \in Seq(TraceEvents) /\ Len(liveTraceEvents) \in Nat
            BY <1>0 DEF QueueOwn
          <5>2. e \in TraceEvents /\ e.run = liveRuntime /\ e.source = astPreviewSource
                /\ e.number = Len(liveTraceEvents) + 1
            BY <4>1
          <5> HIDE DEF e
          <5>3. Append(liveTraceEvents, e) \in Seq(TraceEvents)
            BY <5>1, <5>2
          <5>4. ASSUME NEW k \in 1 .. Len(Append(liveTraceEvents, e))
                PROVE  \/ k \in 1 .. Len(liveTraceEvents) /\ Append(liveTraceEvents, e)[k] = liveTraceEvents[k]
                       \/ k = Len(liveTraceEvents) + 1 /\ Append(liveTraceEvents, e)[k] = e
            BY <5>1, <5>2
          <5>5. QueueOwn(Append(liveTraceEvents, e))
            BY <1>0, <5>2, <5>3, <5>4 DEF QueueOwn
          <5> QED
            BY <5>5 DEF e
        <4>3. liveFinalResponse = NoResponse
          BY <1>0, <3>3 DEF OfPendingRequest, RunAndFlowAgree
        <4>4. CASE livePaused \/ liveRevealTimer
          <5>1. /\ liveTraceEvents' = events
                /\ UNCHANGED <<liveRuntime, liveFinalResponse, shownVars, astPreviewDeferred>>
            BY <2>5, <3>3, <4>4 DEF OnTrace
          <5>2. QueueOwn(liveTraceEvents)'
            BY <3>1, <4>2, <5>1 DEF QueueOwn
          <5>3. ResponseOwn' /\ ScreenOwn'
            BY <1>0, <3>1, <4>3, <5>1 DEF ResponseOwn, ScreenOwn, shownVars
          <5> QED
            BY <5>2, <5>3 DEF Drawn
        <4>5. CASE ~(livePaused \/ liveRevealTimer)
          <5>1. AdvanceLiveFlow(events)
            BY <2>5, <3>3, <4>5 DEF OnTrace
          <5> QED
            BY <1>0, <3>1, <4>2, <4>3, <5>1, AdvanceDraws
        <4> QED
          BY <4>4, <4>5
      <3> QED
        BY <3>2, <3>3
    <2>6. CASE OnResult(w)
      <3> DEFINE data == Head(inbox[w])
      <3>1. /\ UNCHANGED <<astPreviewSource, source>> /\ Arrives(w, "result")
        BY <2>6 DEF OnResult, Arrives, userVars
      <3>2. CASE ~OfPendingRequest(data)
        BY <1>1, <2>6, <3>1, <3>2 DEF OnResult, liveVars, shownVars
      <3>3. CASE OfPendingRequest(data)
        <4>1. /\ data.result.run = liveRuntime /\ data.result.source = astPreviewSource
              /\ data.result.events = Len(liveTraceEvents)
          BY <1>0, <3>1, <3>3, ResultArrives DEF OfPendingRequest, RunAndFlowAgree
        <4>2. CASE RenderResponse(data.result)
          BY <1>0, <3>1, <4>1, <4>2, RenderDraws
        <4>3. CASE /\ liveFinalResponse' = data.result
                   /\ UNCHANGED <<liveRuntime, liveTraceEvents, shownVars, astPreviewDeferred>>
          <5>1. QueueOwn(liveTraceEvents)'
            BY <1>0, <3>1, <4>3 DEF QueueOwn
          <5>2. ResponseOwn' /\ ScreenOwn'
            BY <1>0, <3>1, <4>1, <4>3 DEF ResponseOwn, ScreenOwn, shownVars
          <5> QED
            BY <5>1, <5>2 DEF Drawn
        <4> QED
          BY <2>6, <3>3, <4>2, <4>3 DEF OnResult, FinishLiveSimulation
      <3> QED
        BY <3>2, <3>3
    <2>7. CASE OnFailure(w)
      <3>1. UNCHANGED <<previewVars, source>>
        BY <2>7 DEF OnFailure, Arrives, userVars
      <3>2. CASE OfPendingRequest(Head(inbox[w]))
        BY <1>0, <2>7, <3>1, <3>2, FailureDraws DEF OnFailure, previewVars
      <3>3. CASE ~OfPendingRequest(Head(inbox[w]))
        BY <1>1, <2>7, <3>1, <3>3 DEF OnFailure, previewVars, liveVars, shownVars
      <3> QED
        BY <3>2, <3>3
    <2> QED
      BY <2>1, <2>2, <2>3, <2>4, <2>5, <2>6, <2>7 DEF WorkerMessage
  <1>11. CASE UNCHANGED <<userVars, previewVars, liveVars, shownVars>>
    BY <1>1, <1>11 DEF userVars, previewVars, liveVars, shownVars
  <1> QED
    BY <1>2, <1>3, <1>4, <1>5, <1>6, <1>7, <1>8, <1>9, <1>10, <1>11 DEF Next, vars

\* The page as it is loaded.
LEMMA InitDInv == Init => DInv
  <1> SUFFICES ASSUME Init PROVE DInv
    OBVIOUS
  <1>1. \A v \in Workers : requests[v] = <<>> /\ inbox[v] = <<>> /\ running[v].id = 0
    BY DEF Init, WorkersInit, Idle
  <1>2. OwnRun
    BY DEF Init, OwnRun
  <1>3. NoneAhead
    BY <1>1 DEF Init, NoneAhead, RequestsBehind, MessagesBehind
  <1>4. PreviewsOwn
    BY DEF Init, PreviewsOwn, NoPreview
  <1>5. Fresh /\ EventsAreOwn
    BY DEF Init, Fresh, EventsAreOwn, NoSyntax
  <1>6. DrawnTyped
    BY DEF Init, DrawnTyped, NoPreview
  <1> QED
    BY <1>2, <1>3, <1>4, <1>5, <1>6 DEF DInv

\* Every step keeps the invariant.
LEMMA NextDInv ==
  ASSUME IInv, DInv, [Next]_vars
  PROVE  DInv'
  <1>1. pendingASTPreview' \in [id : Nat, source : Nat]
    <2>1. /\ astPreviewSequence' \in Nat /\ source \in Nat
          /\ pendingASTPreview \in [id : Nat, source : Nat]
      BY IdsGrow, SourcesAssumption DEF IInv, PageTyped, DInv, DrawnTyped
    <2> QED
      BY <2>1, NextPreview DEF NoPreview
  <1>2. (Fresh /\ EventsAreOwn /\ DrawnTyped)'
    <2>1. (Drawn /\ pendingASTPreview \in [id : Nat, source : Nat])'
      BY <1>1, NextDrawn
    <2> QED
      BY <2>1, DrawnIs, PTL
  <1> QED
    BY <1>2, NextOwnRun, NextNoneAhead, NextPreviewsOwn DEF DInv

\* IInv and DInv hold in every reachable state.
LEMMA DisplayInvariant == Spec => [](IInv /\ DInv)
  <1>1. Init => IInv /\ DInv
    BY InitIInv, InitDInv
  <1>2. IInv /\ DInv /\ [Next]_vars => IInv' /\ DInv'
    BY NextDInv, NextWorkersTyped, NextPageTyped, NextAgrees DEF IInv
  <1> QED
    BY <1>1, <1>2, PTL DEF Spec

-----------------------------------------------------------------------------
\* The events queued for drawing are those of the live run, each once and in
\* order, and none is missing when the response is there (appendLiveTrace,
\* finishLiveSimulation, completeStream).
THEOREM EventsAreOwnTheorem == Spec => []EventsAreOwn
  <1>1. IInv /\ DInv => EventsAreOwn
    BY DEF DInv
  <1> QED
    BY <1>1, DisplayInvariant, PTL

\* Unless a preview is owed, the syntax on the screen is that of the text in
\* the editor (applyASTPreview, beginLiveFlow, renderResponse).
THEOREM FreshTheorem == Spec => []FreshMeansCurrent
  <1>1. IInv /\ DInv => FreshMeansCurrent
    BY DEF DInv, Fresh, FreshMeansCurrent
  <1> QED
    BY <1>1, DisplayInvariant, PTL

\* What is drawn of a run stands still while it is paused and once it is over,
\* but for the user who draws on and a failure that clears it (toggleLivePause,
\* stopLiveRun, appendLiveTrace, scheduleLiveReveal).
THEOREM DisplayTheorem == Spec => DisplayStandsStill
  <1> DEFINE Still == shownRuntime' = shownRuntime
             Over == livePaused \/ (liveRuntime = 0 /\ liveRuntime' = 0)
             Failed == currentResponse' = "failure"
  <1>1. ASSUME IInv, [Next]_vars, Over
        PROVE  Still \/ Failed \/ ToggleLivePause
    <2>0. RunAndFlowAgree /\ PageTyped
      BY <1>1 DEF IInv
    <2>1. CASE UNCHANGED shownVars
      BY <2>1 DEF shownVars
    <2>2. RenderFailure => Failed
      BY DEF RenderFailure
    <2>3. CASE RunSimulation
      <3>1. liveRuntime = 0 /\ liveRuntime' = requestSequence + 1 /\ requestSequence \in Nat
        BY <2>0, <2>3, MaxRunsAssumption DEF RunSimulation, MayRun, BeginLiveFlow, PageTyped
      <3>2. ~livePaused
        BY <2>0, <3>1 DEF RunAndFlowAgree
      <3> QED
        BY <1>1, <3>1, <3>2
    <2>4. CASE RevealTimer
      BY <1>1, <2>0, <2>1, <2>4 DEF RevealTimer, RunAndFlowAgree
    <2>5. CASE \E id \in timeouts : RunTimeout(id)
      BY <2>1, <2>2, <2>5 DEF RunTimeout
    <2>6. CASE \E w \in Workers : WorkerMessage(w)
      <3>1. PICK w \in Workers : WorkerMessage(w)
        BY <2>6
      <3>2. CASE OnReady(w) \/ OnError(w) \/ OnAST(w) \/ OnFailure(w)
        BY <2>1, <2>2, <3>2 DEF OnReady, OnError, OnAST, OnFailure, FailWorker
      <3>3. CASE OnTrace(w)
        BY <1>1, <2>1, <3>3 DEF OnTrace
      <3>4. CASE OnResult(w)
        <4>1. CASE OfPendingRequest(Head(inbox[w]))
          <5>1. livePaused
            BY <1>1, <2>0, <4>1 DEF OfPendingRequest, RunAndFlowAgree
          <5> QED
            BY <2>1, <3>4, <4>1, <5>1 DEF OnResult, FinishLiveSimulation
        <4>2. CASE ~OfPendingRequest(Head(inbox[w]))
          BY <2>1, <3>4, <4>2 DEF OnResult
        <4> QED
          BY <4>1, <4>2
      <3> QED
        BY <3>1, <3>2, <3>3, <3>4 DEF WorkerMessage
    <2> QED
      BY <1>1, <2>1, <2>2, <2>3, <2>4, <2>5, <2>6
      DEF Next, vars, Edit, RejectRun, StopLiveRun, RequestASTPreview, OnWorkerFault, FailWorker
  <1>2. IInv /\ [Next]_vars => [Over => Still \/ Failed \/ ToggleLivePause]_vars
    BY <1>1
  <1>3. Spec => []IInv
    BY DisplayInvariant, PTL
  <1> QED
    BY <1>2, <1>3, PTL DEF Spec, DisplayStandsStill
=============================================================================
