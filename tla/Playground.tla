----------------------------- MODULE Playground -----------------------------
(***************************************************************************)
(* The page of the playground (src/playground/app.js): it keeps one Web    *)
(* Worker, at most one pending simulation with a timeout, a syntax preview *)
(* that is asked for some time after the text last changed, and the live   *)
(* flow, which draws the trace events of a run one visible node at a time  *)
(* and which the user may pause or stop.                                   *)
(*                                                                         *)
(* Every action is one callback of the page's event loop, run to its end:  *)
(* a control the user operates, a timer, or a message of a worker.  Text   *)
(* and trace events are numbers, 0 stands for null, and what is drawn is   *)
(* reduced to whose events and whose syntax are on the screen.             *)
(***************************************************************************)
EXTENDS WebWorkers, FiniteSets

CONSTANTS
  Sources,    \* the texts the editor may hold
  MaxEdits,   \* bound: how often the user changes the text
  MaxFaults   \* bound: how often a worker reports an uncaught error

ASSUME SourcesAssumption == Sources \subseteq Nat \ {0} /\ Sources # {}
ASSUME UserAssumption == MaxEdits \in Nat /\ MaxFaults \in Nat

VARIABLES
  worker,              \* the worker the page talks to
  workerReady,
  pendingRequest,      \* id of the pending simulation, 0 for null
  requestSequence,
  timeouts,            \* ids of the simulations whose timeout is armed
  source,              \* the text in the editor
  edits,
  faults,
  astPreviewTimer,     \* whether the preview timer is armed
  astPreviewSequence,
  pendingASTPreview,   \* id and source of the awaited preview, id 0 for null
  astPreviewDeferred,
  astPreviewSource,    \* the text the page believes the drawn syntax is of
  liveRuntime,         \* id of the run that is drawn live, 0 for null
  liveTraceEvents,
  liveTraceIndex,
  liveFinalResponse,   \* response waiting for its events to be drawn
  liveRevealTimer,
  livePaused,
  currentResponse,     \* "null", "response" or "failure"
  shownAST,            \* what currentModels.ast shows
  shownRuntime         \* what currentModels.runtime shows

requestVars == <<worker, workerReady, pendingRequest, requestSequence, timeouts>>
userVars == <<source, edits, faults>>
previewVars == <<astPreviewTimer, astPreviewSequence, pendingASTPreview,
                 astPreviewDeferred, astPreviewSource>>
liveVars == <<liveRuntime, liveTraceEvents, liveTraceIndex, liveFinalResponse,
              liveRevealTimer, livePaused>>
shownVars == <<currentResponse, shownAST, shownRuntime>>
vars == <<workerVars, requestVars, userVars, previewVars, liveVars, shownVars>>

NoPreview == [id |-> 0, source |-> 0]
NoResponse == [run |-> 0, source |-> 0, events |-> 0]
NoSyntax == [source |-> 0, complete |-> FALSE]
NoEvents == [run |-> 0, events |-> 0]

Init ==
  /\ WorkersInit
  /\ worker = 1
  /\ workerReady = FALSE
  /\ pendingRequest = 0
  /\ requestSequence = 0
  /\ timeouts = {}
  /\ source \in Sources
  /\ edits = 0
  /\ faults = 0
  /\ astPreviewTimer = FALSE
  /\ astPreviewSequence = 0
  /\ pendingASTPreview = NoPreview
  /\ astPreviewDeferred = TRUE
  /\ astPreviewSource = 0
  /\ liveRuntime = 0
  /\ liveTraceEvents = <<>>
  /\ liveTraceIndex = 0
  /\ liveFinalResponse = NoResponse
  /\ liveRevealTimer = FALSE
  /\ livePaused = FALSE
  /\ currentResponse = "null"
  /\ shownAST = NoSyntax
  /\ shownRuntime = NoEvents

-----------------------------------------------------------------------------
(***************************************************************************)
(* Helpers: functions of the page that several callbacks call.             *)
(***************************************************************************)

\* Mutant: no preview is scheduled while another one is awaited.
ScheduleASTPreview_OneAtATime(ready, live) ==
  /\ astPreviewDeferred' = TRUE
  /\ astPreviewTimer' = (ready /\ live = 0 /\ pendingASTPreview = NoPreview)

\* scheduleASTPreview, in the state the callback has reached so far.
ScheduleASTPreview(ready, live) ==
  /\ astPreviewDeferred' = TRUE
  /\ astPreviewTimer' = (ready /\ live = 0)

\* The fields that renderResponse, renderFailure and stopLiveRun all reset.
ClearLive ==
  /\ liveRuntime' = 0
  /\ liveTraceEvents' = <<>>
  /\ liveTraceIndex' = 0
  /\ liveFinalResponse' = NoResponse
  /\ liveRevealTimer' = FALSE
  /\ livePaused' = FALSE

\* renderFailure: both views become empty.
RenderFailure ==
  /\ ClearLive
  /\ currentResponse' = "failure"
  /\ shownAST' = NoSyntax
  /\ shownRuntime' = NoEvents

\* renderResponse: the views show the whole response.
RenderResponse(response) ==
  /\ ClearLive
  /\ currentResponse' = "response"
  /\ shownAST' = [source |-> response.source, complete |-> response.events > 0]
  /\ shownRuntime' = [run |-> response.run, events |-> response.events]
  /\ IF astPreviewDeferred
       THEN ScheduleASTPreview(workerReady, 0)
       ELSE UNCHANGED <<astPreviewDeferred, astPreviewTimer>>

\* The views after the first k events of the queue.  The syntax of the run's
\* text comes with the first event.
Draw(events, k) ==
  /\ liveTraceIndex' = k
  /\ shownAST' = IF k > 0
                   THEN [source |-> events[1].source, complete |-> TRUE]
                   ELSE shownAST
  /\ shownRuntime' = [run |-> liveRuntime, events |-> k]

\* What stays when a drawing step does not end the run.
KeepDrawing(events) ==
  /\ liveTraceEvents' = events
  /\ livePaused' = FALSE
  /\ UNCHANGED <<liveRuntime, liveFinalResponse, currentResponse,
                 astPreviewDeferred, astPreviewTimer>>

\* advanceLiveFlow: draw up to the next event that adds a visible node and arm
\* the timer for the one after it; when nothing is left and the response is
\* there, the run is over.  The first event adds no node, whether a later one
\* does depends on the perspective the user looks at.
AdvanceLiveFlow(events) ==
  \/ /\ \E k \in (liveTraceIndex + 1) .. Len(events) : k > 1 /\ Draw(events, k)
     /\ liveRevealTimer' = TRUE
     /\ KeepDrawing(events)
  \/ /\ liveFinalResponse = NoResponse
     /\ Draw(events, Len(events))
     /\ liveRevealTimer' = FALSE
     /\ KeepDrawing(events)
  \/ /\ liveFinalResponse # NoResponse
     /\ RenderResponse(liveFinalResponse)

-----------------------------------------------------------------------------
(***************************************************************************)
(* Controls of the user.                                                   *)
(***************************************************************************)

\* The text changes: typing, Tab or another example.
Edit(text) ==
  /\ edits < MaxEdits
  /\ edits' = edits + 1
  /\ source' = text
  /\ ScheduleASTPreview(workerReady, liveRuntime)
  /\ UNCHANGED <<workerVars, requestVars, faults, astPreviewSequence,
                 pendingASTPreview, astPreviewSource, liveVars, shownVars>>

\* The run button and the shortcut start a run when none is live and the
\* worker is ready.
MayRun == liveRuntime = 0 /\ workerReady

\* runSimulation with a field out of its range: nothing is posted.
RejectRun ==
  /\ MayRun
  /\ RenderFailure
  /\ UNCHANGED <<workerVars, requestVars, userVars, previewVars>>

\* beginLiveFlow: the syntax that is already shown for this text stays.
BeginLiveFlow(id) ==
  /\ liveRuntime' = id
  /\ liveTraceEvents' = <<>>
  /\ liveTraceIndex' = 0
  /\ liveFinalResponse' = NoResponse
  /\ liveRevealTimer' = FALSE
  /\ livePaused' = FALSE
  /\ currentResponse' = "null"
  /\ shownAST' = IF astPreviewSource = source THEN shownAST ELSE NoSyntax
  /\ astPreviewSource' = source
  /\ shownRuntime' = [run |-> id, events |-> 0]

\* runSimulation
RunSimulation ==
  /\ MayRun
  /\ requestSequence < MaxRuns
  /\ requestSequence' = requestSequence + 1
  /\ astPreviewTimer' = FALSE
  /\ pendingASTPreview' = NoPreview
  /\ astPreviewDeferred' = FALSE
  /\ pendingRequest' = requestSequence'
  /\ timeouts' = timeouts \cup {requestSequence'}
  /\ BeginLiveFlow(requestSequence')
  /\ PostRequest(worker, [type |-> "simulate", id |-> requestSequence', source |-> source])
  /\ UNCHANGED <<phase, inbox, running, worker, workerReady, userVars, astPreviewSequence>>

\* Mutant: resuming waits for the next event instead of drawing on.
ToggleLivePause_Waits ==
  /\ liveRuntime # 0
  /\ livePaused' = ~livePaused
  /\ liveRevealTimer' = FALSE
  /\ UNCHANGED <<liveRuntime, liveTraceEvents, liveTraceIndex, liveFinalResponse, shownVars,
                 previewVars, workerVars, requestVars, userVars>>

\* toggleLivePause: pausing stops the reveal timer, resuming draws on.
ToggleLivePause ==
  /\ liveRuntime # 0
  /\ IF livePaused
       THEN AdvanceLiveFlow(liveTraceEvents)
       ELSE /\ livePaused' = TRUE
            /\ liveRevealTimer' = FALSE
            /\ UNCHANGED <<liveRuntime, liveTraceEvents, liveTraceIndex, liveFinalResponse,
                           shownVars, astPreviewTimer, astPreviewDeferred>>
  /\ UNCHANGED <<workerVars, requestVars, userVars, astPreviewSequence,
                 pendingASTPreview, astPreviewSource>>

\* startWorker, after the current worker was terminated.
RestartWorker ==
  /\ Replace(worker)
  /\ worker' = worker + 1
  /\ workerReady' = FALSE
  /\ pendingASTPreview' = NoPreview
  /\ astPreviewDeferred' = TRUE
  /\ UNCHANGED astPreviewTimer

\* Mutant: the request of a stopped run stays pending.
StopLiveRun_KeepsRequest ==
  /\ liveRuntime # 0
  /\ ClearLive
  /\ timeouts' = timeouts \ {pendingRequest}
  /\ \/ /\ pendingRequest # 0
        /\ RestartWorker
     \/ /\ pendingRequest = 0
        /\ IF astPreviewDeferred
             THEN ScheduleASTPreview(workerReady, 0)
             ELSE UNCHANGED <<astPreviewDeferred, astPreviewTimer>>
        /\ UNCHANGED <<workerVars, worker, workerReady, pendingASTPreview>>
  /\ UNCHANGED <<requestSequence, pendingRequest, userVars, astPreviewSequence,
                 astPreviewSource, shownVars>>

\* stopLiveRun: what is drawn stays; a worker that still runs is replaced.
StopLiveRun ==
  /\ liveRuntime # 0
  /\ ClearLive
  /\ pendingRequest' = 0
  /\ timeouts' = timeouts \ {pendingRequest}
  /\ \/ /\ pendingRequest # 0
        /\ RestartWorker
     \/ /\ pendingRequest = 0
        /\ IF astPreviewDeferred
             THEN ScheduleASTPreview(workerReady, 0)
             ELSE UNCHANGED <<astPreviewDeferred, astPreviewTimer>>
        /\ UNCHANGED <<workerVars, worker, workerReady, pendingASTPreview>>
  /\ UNCHANGED <<requestSequence, userVars, astPreviewSequence, astPreviewSource, shownVars>>

-----------------------------------------------------------------------------
(***************************************************************************)
(* Timers.                                                                 *)
(***************************************************************************)

\* The timeout of a run: its worker is terminated and replaced.
RunTimeout(id) ==
  /\ id \in timeouts
  /\ timeouts' = timeouts \ {id}
  /\ IF pendingRequest = id
       THEN /\ pendingRequest' = 0
            /\ RenderFailure
            /\ RestartWorker
       ELSE UNCHANGED <<workerVars, pendingRequest, worker, workerReady, pendingASTPreview,
                        astPreviewDeferred, astPreviewTimer, liveVars, shownVars>>
  /\ UNCHANGED <<requestSequence, userVars, astPreviewSequence, astPreviewSource>>

\* The callback of scheduleLiveReveal.
RevealTimer ==
  /\ liveRevealTimer
  /\ IF liveRuntime = 0 \/ livePaused
       THEN /\ liveRevealTimer' = FALSE
            /\ UNCHANGED <<liveRuntime, liveTraceEvents, liveTraceIndex, liveFinalResponse,
                           livePaused, shownVars, astPreviewTimer, astPreviewDeferred>>
       ELSE AdvanceLiveFlow(liveTraceEvents)
  /\ UNCHANGED <<workerVars, requestVars, userVars, astPreviewSequence,
                 pendingASTPreview, astPreviewSource>>

\* requestASTPreview
RequestASTPreview ==
  /\ astPreviewTimer
  /\ astPreviewTimer' = FALSE
  /\ IF workerReady /\ liveRuntime = 0
       THEN /\ astPreviewSequence' = astPreviewSequence + 1
            /\ pendingASTPreview' = [id |-> astPreviewSequence', source |-> source]
            /\ PostRequest(worker, [type |-> "parse", id |-> astPreviewSequence',
                                    source |-> source])
       ELSE UNCHANGED <<astPreviewSequence, pendingASTPreview, requests>>
  /\ UNCHANGED <<phase, inbox, running, requestVars, userVars, astPreviewDeferred,
                 astPreviewSource, liveVars, shownVars>>

-----------------------------------------------------------------------------
(***************************************************************************)
(* Messages of a worker: handleWorkerMessage, one disjunct per type.  A    *)
(* message does not say which worker posted it.                            *)
(***************************************************************************)

\* failWorker: the page gives the worker up and does not replace it.
FailWorker ==
  /\ timeouts' = timeouts \ {pendingRequest}
  /\ pendingRequest' = 0
  /\ workerReady' = FALSE
  /\ RenderFailure
  /\ UNCHANGED <<worker, requestSequence, previewVars>>

Arrives(w, type) ==
  /\ inbox[w] # <<>>
  /\ Head(inbox[w]).type = type
  /\ inbox' = [inbox EXCEPT ![w] = Tail(@)]
  /\ UNCHANGED <<phase, requests, running, userVars>>

OnReady(w) ==
  /\ Arrives(w, "ready")
  /\ workerReady' = TRUE
  /\ ScheduleASTPreview(TRUE, liveRuntime)
  /\ UNCHANGED <<worker, pendingRequest, requestSequence, timeouts, astPreviewSequence,
                 pendingASTPreview, astPreviewSource, liveVars, shownVars>>

OnError(w) ==
  /\ Arrives(w, "error")
  /\ FailWorker

\* Mutant: any preview is taken for the awaited one.
OnAST_Any(w) ==
  /\ Arrives(w, "ast")
  /\ IF pendingASTPreview.id = 0
       THEN UNCHANGED <<pendingASTPreview, astPreviewDeferred, astPreviewTimer,
                        astPreviewSource, shownAST>>
       ELSE /\ pendingASTPreview' = NoPreview
            /\ IF pendingASTPreview.source # source
                 THEN /\ ScheduleASTPreview(workerReady, liveRuntime)
                      /\ UNCHANGED <<astPreviewSource, shownAST>>
                 ELSE /\ astPreviewDeferred' = FALSE
                      /\ astPreviewSource' = source
                      /\ shownAST' = [source |-> Head(inbox[w]).source, complete |-> TRUE]
                      /\ UNCHANGED astPreviewTimer
  /\ UNCHANGED <<requestVars, astPreviewSequence, liveVars, currentResponse, shownRuntime>>

\* applyASTPreview: only the last preview asked for counts, and only if the
\* text has not changed since.
OnAST(w) ==
  /\ Arrives(w, "ast")
  /\ LET data == Head(inbox[w])
         preview == pendingASTPreview
     IN IF preview.id = 0 \/ data.id # preview.id
          THEN UNCHANGED <<pendingASTPreview, astPreviewDeferred, astPreviewTimer,
                           astPreviewSource, shownAST>>
          ELSE /\ pendingASTPreview' = NoPreview
               /\ IF preview.source # source
                    THEN /\ ScheduleASTPreview(workerReady, liveRuntime)
                         /\ UNCHANGED <<astPreviewSource, shownAST>>
                    ELSE /\ astPreviewDeferred' = FALSE
                         /\ astPreviewSource' = preview.source
                         /\ shownAST' = [source |-> data.source, complete |-> TRUE]
                         /\ UNCHANGED astPreviewTimer
  /\ UNCHANGED <<requestVars, astPreviewSequence, liveVars, currentResponse, shownRuntime>>

\* Mutant: any message about a simulation passes while one is pending.
OfPendingRequest_Any(data) == pendingRequest # 0

\* The test that every message about a simulation must pass.
OfPendingRequest(data) == pendingRequest # 0 /\ data.id = pendingRequest

\* appendLiveTrace: the event is queued, and drawn unless the user paused or
\* the node before it is still on its own.
OnTrace(w) ==
  /\ Arrives(w, "trace")
  /\ LET data == Head(inbox[w])
         events == Append(liveTraceEvents, data.event)
     IN IF ~OfPendingRequest(data) \/ liveRuntime = 0
          THEN UNCHANGED <<liveVars, shownVars, astPreviewDeferred, astPreviewTimer>>
          ELSE IF livePaused \/ liveRevealTimer
          THEN /\ liveTraceEvents' = events
               /\ UNCHANGED <<liveRuntime, liveTraceIndex, liveFinalResponse, liveRevealTimer,
                              livePaused, shownVars, astPreviewDeferred, astPreviewTimer>>
          ELSE AdvanceLiveFlow(events)
  /\ UNCHANGED <<requestVars, astPreviewSequence, pendingASTPreview, astPreviewSource>>

\* Mutant: the timeout stays armed.
EndRequest_KeepsTimeout ==
  /\ pendingRequest' = 0
  /\ UNCHANGED <<worker, workerReady, requestSequence, timeouts>>

\* The request is answered: its timeout is cleared.
EndRequest ==
  /\ timeouts' = timeouts \ {pendingRequest}
  /\ pendingRequest' = 0
  /\ UNCHANGED <<worker, workerReady, requestSequence>>

\* finishLiveSimulation: the response waits while the user has paused or there
\* is something left to draw.
FinishLiveSimulation(response) ==
  IF livePaused \/ liveTraceIndex < Len(liveTraceEvents) \/ liveRevealTimer
    THEN /\ liveFinalResponse' = response
         /\ UNCHANGED <<liveRuntime, liveTraceEvents, liveTraceIndex, liveRevealTimer,
                        livePaused, shownVars, astPreviewDeferred, astPreviewTimer>>
    ELSE RenderResponse(response)

OnResult(w) ==
  /\ Arrives(w, "result")
  /\ LET data == Head(inbox[w])
     IN IF OfPendingRequest(data)
          THEN EndRequest /\ FinishLiveSimulation(data.result)
          ELSE UNCHANGED <<requestVars, liveVars, shownVars, astPreviewDeferred, astPreviewTimer>>
  /\ UNCHANGED <<astPreviewSequence, pendingASTPreview, astPreviewSource>>

OnFailure(w) ==
  /\ Arrives(w, "failure")
  /\ IF OfPendingRequest(Head(inbox[w]))
       THEN EndRequest /\ RenderFailure
       ELSE UNCHANGED <<requestVars, liveVars, shownVars>>
  /\ UNCHANGED previewVars

\* The error event of the worker the page talks to.
OnWorkerFault ==
  /\ faults < MaxFaults
  /\ faults' = faults + 1
  /\ FailWorker
  /\ UNCHANGED <<workerVars, source, edits>>

WorkerMessage(w) ==
  \/ OnReady(w)
  \/ OnError(w)
  \/ OnAST(w)
  \/ OnTrace(w)
  \/ OnResult(w)
  \/ OnFailure(w)

Next ==
  \/ \E text \in Sources : Edit(text)
  \/ RejectRun
  \/ RunSimulation
  \/ ToggleLivePause
  \/ StopLiveRun
  \/ \E id \in timeouts : RunTimeout(id)
  \/ RevealTimer
  \/ RequestASTPreview
  \/ \E w \in Workers : WorkerMessage(w)
  \/ OnWorkerFault
  \/ \E w \in Workers :
       /\ WorkerStep(w)
       /\ UNCHANGED <<requestVars, userVars, previewVars, liveVars, shownVars>>

Spec == Init /\ [][Next]_vars

\* The event loop delivers messages and timers, a worker finishes loading and
\* answers a parse request; a simulation may run forever.
Fairness ==
  /\ WF_vars(\E id \in timeouts : RunTimeout(id))
  /\ WF_vars(RevealTimer)
  /\ WF_vars(RequestASTPreview)
  /\ \A w \in Workers :
       /\ WF_vars(WorkerMessage(w))
       /\ WF_vars((FinishLoading(w) \/ ServeParse(w))
                  /\ UNCHANGED <<requestVars, userVars, previewVars, liveVars, shownVars>>)

FairSpec == Spec /\ Fairness

-----------------------------------------------------------------------------
(***************************************************************************)
(* Properties.                                                             *)
(***************************************************************************)
\* A run that is drawn live waits for exactly one thing, its worker or its
\* drawing: while it waits for the worker, its timeout and no other is armed
\* and no response is kept; once nothing is pending, the response is kept.
\* Nothing is pending, armed, kept or queued without a live run, so the
\* controls of the page, which only look at the live run, never start a second
\* simulation in a worker (runSimulation, stopLiveRun, the timeout callback).
RunAndFlowAgree ==
  /\ timeouts = IF pendingRequest = 0 THEN {} ELSE {pendingRequest}
  /\ pendingRequest # 0 => pendingRequest = liveRuntime /\ workerReady
  /\ liveRuntime # 0 <=> pendingRequest # 0 \/ liveFinalResponse # NoResponse
  /\ ~(pendingRequest # 0 /\ liveFinalResponse # NoResponse)
  /\ liveRuntime = 0 => liveTraceEvents = <<>> /\ ~liveRevealTimer /\ ~livePaused

\* The events queued for drawing are those of the live run, each once and in
\* the order in which the simulator reported them, whatever messages of
\* earlier runs still arrive; and when the response is there, none is missing,
\* so that renderResponse finds the stream complete (appendLiveTrace,
\* finishLiveSimulation, completeStream).
EventsAreOwn ==
  /\ \A k \in 1 .. Len(liveTraceEvents) :
       liveTraceEvents[k].run = liveRuntime /\ liveTraceEvents[k].number = k
  /\ liveFinalResponse # NoResponse =>
       /\ liveFinalResponse.run = liveRuntime
       /\ liveFinalResponse.events = Len(liveTraceEvents)

\* Unless a preview is owed, the syntax on the screen is that of the text in
\* the editor: neither an answer to an earlier preview request nor a run that
\* was started with an earlier text is mistaken for it (applyASTPreview,
\* astPreviewDeferred).
FreshMeansCurrent ==
  ~astPreviewDeferred /\ shownAST.complete => shownAST.source = source

\* What is drawn of a run stands still while the user has paused it, and after
\* the user has stopped it or it has ended: no timer and no late message draws
\* on, and a response that comes meanwhile waits.  Only the user draws on, and
\* only a failure clears it (toggleLivePause, stopLiveRun).
DisplayStandsStill ==
  [][ livePaused \/ (liveRuntime = 0 /\ liveRuntime' = 0)
        => \/ shownRuntime' = shownRuntime
           \/ currentResponse' = "failure"
           \/ ToggleLivePause ]_vars

\* A live run that the user does not pause comes to its end, even if the
\* worker never answers: its timeout ends it, or its response comes and every
\* event of it is drawn (RunTimeout, scheduleLiveReveal).
RunEnds == liveRuntime # 0 ~> liveRuntime = 0 \/ livePaused

\* A preview that is on its way arrives, even if the text changes meanwhile:
\* it is only given up for a run, or for a worker that is replaced or failed
\* (scheduleASTPreview, requestASTPreview, applyASTPreview).
PreviewOnItsWay ==
  astPreviewDeferred /\ workerReady /\ liveRuntime = 0
    /\ (astPreviewTimer \/ pendingASTPreview # NoPreview)
PreviewArrives ==
  PreviewOnItsWay ~> ~astPreviewDeferred \/ ~workerReady \/ liveRuntime # 0
=============================================================================
