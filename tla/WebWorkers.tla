----------------------------- MODULE WebWorkers -----------------------------
(***************************************************************************)
(* The Web Workers of the playground (src/playground/worker.js): each one  *)
(* loads the WebAssembly runtime, says so, and then serves parse and       *)
(* simulate requests one at a time, in the order in which the page posted  *)
(* them.  The page (Playground) replaces a worker by terminating it and    *)
(* starting the next one, so the workers of a session are numbered.        *)
(***************************************************************************)
EXTENDS Naturals, Sequences

CONSTANTS
  MaxRuns,    \* bound: how many simulations the page starts
  MaxEvents   \* bound: how many trace events one simulation streams

ASSUME MaxRunsAssumption == MaxRuns \in Nat \ {0}
ASSUME MaxEventsAssumption == MaxEvents \in Nat

VARIABLES
  phase,     \* what each worker is doing
  requests,  \* requests posted to each worker and not yet taken by onmessage
  inbox,     \* messages each worker posted and the page has not yet handled
  running    \* the simulate request a busy worker executes and the events so far

workerVars == <<phase, requests, inbox, running>>

\* A run is started by at most one worker, and ends at most one worker.
Workers == 1 .. MaxRuns + 1

Idle == [id |-> 0, source |-> 0, events |-> 0]

\* Messages between the page and a worker.
Requests ==
  [type : {"parse", "simulate"}, id : Nat \ {0}, source : Nat]
Results == [run : Nat \ {0}, source : Nat, events : Nat]
TraceEvents == [run : Nat \ {0}, source : Nat, number : Nat \ {0}]
Messages ==
  [type : {"ready", "error"}]
    \cup [type : {"ast"}, id : Nat \ {0}, source : Nat]
    \cup [type : {"trace"}, id : Nat \ {0}, event : TraceEvents]
    \cup [type : {"result"}, id : Nat \ {0}, result : Results]
    \cup [type : {"failure"}, id : Nat \ {0}]

WorkersInit ==
  /\ phase = [w \in Workers |-> IF w = 1 THEN "loading" ELSE "absent"]
  /\ requests = [w \in Workers |-> <<>>]
  /\ inbox = [w \in Workers |-> <<>>]
  /\ running = [w \in Workers |-> Idle]

Post(w, message) == inbox' = [inbox EXCEPT ![w] = Append(@, message)]

\* worker.postMessage
PostRequest(w, request) ==
  requests' = [requests EXCEPT ![w] = Append(@, request)]

(***************************************************************************)
(* What the page does to a worker.                                         *)
(***************************************************************************)

\* worker.terminate() followed by new Worker: messages the old worker has
\* posted may already be on their way to the page, or be dropped.
Replace(w) ==
  /\ phase' = [phase EXCEPT ![w] = "terminated", ![w + 1] = "loading"]
  /\ requests' = [requests EXCEPT ![w] = <<>>]
  /\ running' = [running EXCEPT ![w] = Idle]
  /\ \E kept \in {inbox[w], <<>>} : inbox' = [inbox EXCEPT ![w] = kept]

(***************************************************************************)
(* What a worker does by itself.                                           *)
(***************************************************************************)

\* initializeRuntime: the runtime is loaded, or loading it failed.
FinishLoading(w) ==
  /\ phase[w] = "loading"
  /\ \/ /\ phase' = [phase EXCEPT ![w] = "idle"]
        /\ Post(w, [type |-> "ready"])
     \/ /\ phase' = [phase EXCEPT ![w] = "broken"]
        /\ Post(w, [type |-> "error"])
  /\ UNCHANGED <<requests, running>>

Takes(w, type) ==
  /\ phase[w] = "idle"
  /\ requests[w] # <<>>
  /\ Head(requests[w]).type = type
  /\ requests' = [requests EXCEPT ![w] = Tail(@)]

\* A parse request is answered at once, with the syntax of its own source.
ServeParse(w) ==
  /\ Takes(w, "parse")
  /\ LET request == Head(requests[w]) IN
       Post(w, [type |-> "ast", id |-> request.id, source |-> request.source])
  /\ UNCHANGED <<phase, running>>

\* The handlers of the request compile, or the request is answered with the
\* error that compileCommandHandlers throws.
BeginSimulate(w) ==
  /\ Takes(w, "simulate")
  /\ LET request == Head(requests[w]) IN
       \/ /\ phase' = [phase EXCEPT ![w] = "busy"]
          /\ running' = [running EXCEPT ![w] =
               [id |-> request.id, source |-> request.source, events |-> 0]]
          /\ UNCHANGED inbox
       \/ /\ Post(w, [type |-> "failure", id |-> request.id])
          /\ UNCHANGED <<phase, running>>

\* streamTrace: the simulator reports its next event while it runs.  The
\* event is identified by its run and its position in it.
StreamTrace(w) ==
  /\ phase[w] = "busy"
  /\ running[w].events < MaxEvents
  /\ running' = [running EXCEPT ![w] =
       [id |-> @.id, source |-> @.source, events |-> @.events + 1]]
  /\ Post(w, [type |-> "trace", id |-> running[w].id,
              event |-> [run |-> running[w].id, source |-> running[w].source,
                         number |-> running[w].events + 1]])
  /\ UNCHANGED <<phase, requests>>

\* libcommandAnalyze returned its response, or threw.
FinishSimulate(w) ==
  /\ phase[w] = "busy"
  /\ phase' = [phase EXCEPT ![w] = "idle"]
  /\ running' = [running EXCEPT ![w] = Idle]
  /\ \/ Post(w, [type |-> "result", id |-> running[w].id,
                 result |-> [run |-> running[w].id, source |-> running[w].source,
                             events |-> running[w].events]])
     \/ Post(w, [type |-> "failure", id |-> running[w].id])
  /\ UNCHANGED requests

WorkerStep(w) ==
  \/ FinishLoading(w)
  \/ ServeParse(w)
  \/ BeginSimulate(w)
  \/ StreamTrace(w)
  \/ FinishSimulate(w)
=============================================================================
