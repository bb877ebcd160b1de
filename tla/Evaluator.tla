------------------------------- MODULE Evaluator -------------------------------
(***************************************************************************)
(* The recursive evaluator of internal/runtime as an explicit stack        *)
(* machine.  A frame on the stack is one active Go call (evaluateStatements,*)
(* evaluateStatement, evaluateLogical, ...), its pc the place inside the   *)
(* call.  A frame calls another one by pushing it and gets the resulting   *)
(* paths back in ret; an error of a callee travels in mode "raise".        *)
(*                                                                         *)
(* Loops over paths take one path per step, so that a cancellation of the  *)
(* caller's context can happen between any two of them.                    *)
(***************************************************************************)
EXTENDS ShellPaths

CONSTANTS
  Programs,           \* the programs considered: nodes whose body is run
  MaxExecutionSteps,  \* Limits.MaxExecutionSteps
  Outcomes,           \* what a registered handler may do; {} if unregistered
  Delegate,           \* the call a handler that returns Invoke asks for
  MayCancel           \* whether the caller's context may be cancelled

\* "cancel" is a handler during which the context is cancelled.
HandlerOutcomes ==
  {"ok", "fail", "unknown", "stop", "error", "cancel", "invoke"}

ASSUME EvaluatorAssumption ==
  /\ MaxExecutionSteps \in Nat
  /\ Outcomes \in [Command -> SUBSET HandlerOutcomes]
  /\ Delegate \in [Command -> Node]
  /\ MayCancel \in BOOLEAN
  /\ Programs \subseteq Node

VARIABLES
  stack,              \* the active calls, innermost last
  mode,               \* "run", "return", "raise" or "halt"
  ret,                \* the paths handed to the caller
  error,              \* the error handed to the caller in mode "raise"
  executedSteps,      \* ExecutionContext.executedSteps
  stop,               \* ExecutionContext.stop
  errexitSuppressed,  \* ExecutionContext.errexitSuppressed
  errTrapSuppressed,  \* ExecutionContext.errTrapSuppressed
  cancelled,          \* ctx.Err() # nil
  result,             \* what Execute returned
  calls,              \* history: handlers started
  lateCalls,          \* history: handlers started after the cancellation
  refused             \* history: a step reservation failed

counters == <<errexitSuppressed, errTrapSuppressed>>
control  == <<stack, mode, ret, error, counters>>
history  == <<calls, lateCalls, refused>>
vars     == <<control, executedSteps, stop, cancelled, result, history>>

FrameKinds ==
  {"main", "list", "stmt", "invoke", "delegate", "replace", "function", "eval",
   "source", "not", "logical", "if", "while", "for", "subshell", "background", "subst",
   "shell", "pipe"}
Pcs ==
  {"start", "call", "resume", "effects", "correlate", "branch", "loop",
   "traps", "merge"}

Frames ==
  [ kind  : FrameKinds,
    pc    : Pcs,
    node  : Node,
    list  : Seq(Node),          \* the statements a list evaluates
    idx   : Nat,                \* statement, item or pipeline side
    todo  : Seq(Path),          \* paths still to be evaluated
    work  : Seq(Path),          \* paths being classified
    out   : Seq(Path),          \* paths classified
    done  : Seq(Path),          \* results so far
    base  : State \cup {NoState},
    quiet : {0, 1},             \* its share of errexitSuppressed
    mute  : Int,                \* its share of errTrapSuppressed
    err   : Issues ]            \* the error pending while EXIT traps run

-------------------------------------------------------------------------------
(* Calls, returns and errors. *)

Depth == Len(stack)
Top   == stack[Depth]
OnTop(kind) == Depth > 0 /\ Top.kind = kind
Below == SubSeq(stack, 1, Depth - 1)

Frame(kind, n, paths) ==
  [ kind |-> kind, pc |-> "start", node |-> n, list |-> <<>>, idx |-> 1,
    todo |-> paths, work |-> <<>>, out |-> <<>>, done |-> <<>>,
    base |-> NoState, quiet |-> 0, mute |-> 0, err |-> "none" ]

ListFrame(n, list, paths, quiet) ==
  [Frame("list", n, paths) EXCEPT !.list = list, !.quiet = quiet]

\* evaluateStatement pushes a substitution frame before it evaluates.
StmtFrame(n, s, quiet) ==
  [Frame("stmt", n, <<Completed(PushFrame(s))>>) EXCEPT
     !.base = s, !.quiet = quiet]

\* A call that keeps the state parent it was made in.
ScopeFrame(kind, n, parent, s) ==
  [Frame(kind, n, <<Completed(s)>>) EXCEPT !.base = parent]

\* The top frame goes on as f.
Go(f) ==
  /\ stack' = Append(Below, f)
  /\ mode' = "run" /\ ret' = <<>> /\ error' = "none"
  /\ errexitSuppressed' = errexitSuppressed
  /\ errTrapSuppressed' = errTrapSuppressed + f.mute - Top.mute

\* The top frame goes on as f after the call of g.
Call(f, g) ==
  /\ stack' = Append(Append(Below, f), g)
  /\ mode' = "run" /\ ret' = <<>> /\ error' = "none"
  /\ errexitSuppressed' = errexitSuppressed + g.quiet
  /\ errTrapSuppressed' = errTrapSuppressed + f.mute - Top.mute + g.mute

\* Mutant: a function that fails to count itself out.
CleanUp_FunctionStays(f, s) ==
  CASE f.kind = "stmt"   -> PopFrame(s)
    [] f.kind = "while"  -> PopLoop(s)
    [] f.kind = "for"    -> [s EXCEPT !.loopDepth = @ - 1]
    [] f.kind = "source" -> LeaveSource(s)
    [] OTHER             -> s

\* What the deferred cleanup of frame f does to a path it hands out.
CleanUp(f, s) ==
  CASE f.kind = "stmt"     -> PopFrame(s)
    [] f.kind = "while"    -> PopLoop(s)
    [] f.kind = "for"      -> [s EXCEPT !.loopDepth = @ - 1]
    [] f.kind = "function" -> LeaveFunction(s, f.base)
    [] f.kind = "source"   -> LeaveSource(s)
    [] OTHER               -> s
CleanedUp(f, paths) ==
  [k \in 1..Len(paths) |-> [paths[k] EXCEPT !.state = CleanUp(f, @)]]

Leave(paths, how, e) ==
  /\ stack' = Below
  /\ mode' = how /\ ret' = CleanedUp(Top, paths) /\ error' = e
  /\ errexitSuppressed' = errexitSuppressed - Top.quiet
  /\ errTrapSuppressed' = errTrapSuppressed - Top.mute
Return(paths)   == Leave(paths, "return", "none")
Raise(paths, e) == Leave(paths, "raise", e)

Running(kind, pc)   == mode = "run" /\ OnTop(kind) /\ Top.pc = pc
Returned(kind, pc)  == mode = "return" /\ OnTop(kind) /\ Top.pc = pc

FreeStep  == UNCHANGED <<executedSteps, refused>>
NoCall    == UNCHANGED <<calls, lateCalls>>
Quietly   == UNCHANGED <<stop, cancelled, result>> /\ NoCall
Internal  == FreeStep /\ Quietly

\* reserveExecutionSteps for one step.
CanReserve == ~cancelled /\ executedSteps < MaxExecutionSteps
WhyRefused == IF cancelled THEN "cancelled" ELSE "budget"
Refuse(p)  == GiveUp(p, WhyRefused)
Pay == /\ CanReserve
       /\ executedSteps' = executedSteps + 1
       /\ UNCHANGED refused
BeRefused == /\ ~CanReserve
             /\ refused' = TRUE
             /\ UNCHANGED executedSteps

\* resolveExitStatus of path p: its successors, and the step a fork costs.
Resolved(p) ==
  IF p.state.exit # "unknown" THEN <<p>>
  ELSE IF CanReserve THEN Fork(p) ELSE <<Refuse(p)>>
PayForResolving(p) ==
  IF p.state.exit # "unknown" THEN FreeStep
  ELSE Pay \/ BeRefused

\* appendStreams: a path takes no output any more once the context is done.
Emitted(p) == IF cancelled THEN GiveUp(p, "cancelled") ELSE p

First(q) == q[1]
Rest(q)  == SubSeq(q, 2, Len(q))

-------------------------------------------------------------------------------
(* evaluateStatements: a statement list over all the paths that reach it. *)

ListNext ==
  /\ Running("list", "start") /\ Top.todo = <<>> /\ Top.idx < Len(Top.list)
  /\ Go([Top EXCEPT !.idx = @ + 1, !.todo = Top.done, !.done = <<>>])
  /\ Internal

ListFinish ==
  /\ Running("list", "start")
  /\ Top.list = <<>> \/ (Top.todo = <<>> /\ Top.idx = Len(Top.list))
  /\ Return(Top.done \o Top.todo)
  /\ Internal

ListSkip ==
  /\ Running("list", "start") /\ Top.todo # <<>> /\ Top.list # <<>>
  /\ LET p == First(Top.todo)
     IN  /\ ~IsActive(p) \/ stop
         /\ Go([Top EXCEPT !.todo = Rest(@),
                           !.done = Append(@, IF IsActive(p) THEN Terminated(p)
                                                             ELSE p)])
  /\ Internal

ListEvaluate ==
  /\ Running("list", "start") /\ Top.todo # <<>> /\ Top.list # <<>> /\ ~stop
  /\ LET p == First(Top.todo)
     IN  /\ IsActive(p)
         /\ Call([Top EXCEPT !.todo = Rest(@), !.pc = "call"],
                 StmtFrame(Top.list[Top.idx], p.state, 0))
  /\ Internal

\* statementSuppressesParentErrTrap: the subshell ran its own ERR trap.
MutesErrTrap(f) == IF IsSubshell(f.list[f.idx]) THEN 1 ELSE 0

ListEvaluated ==
  /\ Returned("list", "call")
  /\ Go([Top EXCEPT !.pc = "effects", !.work = ret, !.out = <<>>,
                    !.mute = @ + MutesErrTrap(Top)])
  /\ Internal

(***************************************************************************)
(* applyFailureEffects and applyKnownFailure: an unresolved status is      *)
(* forked only if errexit or an ERR trap observes it; a failure runs the   *)
(* ERR trap and then ends the path under errexit.                          *)
(***************************************************************************)
\* Mutant: the ERR trap is not suppressed while it runs.
TrapObserves_Always(s) == s.errTrap # <<>>
TrapObserves(s) == s.errTrap # <<>> /\ errTrapSuppressed = 0
Observed(s)     == TrapObserves(s) \/ s.errexit
AfterFailure(p) ==
  IF IsActive(p)
  THEN [p EXCEPT !.state = [SetExit(@, "nonzero") EXCEPT
                              !.signal = IF p.state.errexit THEN "exit"
                                                            ELSE "none"]]
  ELSE p

EffectsSuppressed ==
  /\ Running("list", "effects") /\ errexitSuppressed # 0
  /\ Go([Top EXCEPT !.pc = "correlate",
                    !.mute = @ - MutesErrTrap(Top)])
  /\ Internal

EffectsPass ==
  /\ Running("list", "effects") /\ errexitSuppressed = 0 /\ Top.work # <<>>
  /\ LET p == First(Top.work)
     IN  /\ \/ ~IsActive(p)
            \/ p.state.exit = "zero"
            \/ p.state.exit = "unknown" /\ ~Observed(p.state)
         /\ Go([Top EXCEPT !.work = Rest(@), !.out = Append(@, p)])
  /\ Internal

EffectsFork ==
  /\ Running("list", "effects") /\ errexitSuppressed = 0 /\ Top.work # <<>>
  /\ LET p == First(Top.work)
     IN  /\ IsActive(p) /\ p.state.exit = "unknown" /\ Observed(p.state)
         /\ Go([Top EXCEPT !.work = Resolved(p) \o Rest(@)])
         /\ PayForResolving(p)
  /\ Quietly

EffectsFailure ==
  /\ Running("list", "effects") /\ errexitSuppressed = 0 /\ Top.work # <<>>
  /\ LET p == First(Top.work)
     IN  /\ IsActive(p) /\ p.state.exit = "nonzero"
         /\ IF TrapObserves(p.state)
            THEN Call([Top EXCEPT !.work = Rest(@)],
                      [ListFrame(Top.node, p.state.errTrap, <<p>>, 0)
                         EXCEPT !.mute = 1])
            ELSE Go([Top EXCEPT !.work = Rest(@),
                                !.out = Append(@, AfterFailure(p))])
  /\ Internal

EffectsTrapped ==
  /\ Returned("list", "effects")
  /\ Go([Top EXCEPT !.out = @ \o [k \in 1..Len(ret) |-> AfterFailure(ret[k])]])
  /\ Internal

EffectsDone ==
  /\ Running("list", "effects") /\ errexitSuppressed = 0 /\ Top.work = <<>>
  /\ Go([Top EXCEPT !.pc = "correlate", !.work = Top.out, !.out = <<>>,
                    !.mute = @ - MutesErrTrap(Top)])
  /\ Internal

(***************************************************************************)
(* resolveCorrelatedExitStatuses: a status whose failure has a state of    *)
(* its own is resolved before the next statement can overwrite it.         *)
(***************************************************************************)
Correlates == mode = "run" /\ Depth > 0 /\ Top.pc = "correlate"
\* Mutant: only a shell under errexit tells the outcomes apart.
IsCorrelated_Errexit(p) ==
  p.status = "completed" /\ p.state.exit = "unknown" /\ p.state.errexit
IsCorrelated(p) ==
  /\ p.status = "completed"
  /\ p.state.exit = "unknown"
  /\ p.state.exitFailure # NoState

CorrelatePass ==
  /\ Correlates /\ Top.work # <<>> /\ ~IsCorrelated(First(Top.work))
  /\ Go([Top EXCEPT !.work = Rest(@), !.out = Append(@, First(Top.work))])
  /\ Internal

CorrelateFork ==
  /\ Correlates /\ Top.work # <<>> /\ IsCorrelated(First(Top.work))
  /\ Go([Top EXCEPT !.work = Rest(@), !.out = @ \o Resolved(First(Top.work))])
  /\ PayForResolving(First(Top.work))
  /\ Quietly

CorrelateDone(kind) == Correlates /\ Top.kind = kind /\ Top.work = <<>>

Interrupted(p) ==
  IF p.status = "completed" THEN GiveUp(p, "cancelled") ELSE p

ListStatementDone ==
  /\ CorrelateDone("list")
  /\ IF cancelled
     THEN Raise(Top.done \o [k \in 1..Len(Top.out) |-> Interrupted(Top.out[k])],
                "cancelled")
     ELSE Go([Top EXCEPT !.pc = "start", !.done = @ \o Top.out, !.out = <<>>])
  /\ Internal

-------------------------------------------------------------------------------
(***************************************************************************)
(* evaluateStatement and evaluateStatementInFrameFully.  todo holds the    *)
(* pending paths, the next one first.  An expansion that meets a command   *)
(* substitution not yet evaluated runs the substitution and then starts    *)
(* the statement anew on each of the resulting paths.                      *)
(***************************************************************************)
StmtReady(kinds) ==
  /\ Running("stmt", "start") /\ Top.todo # <<>>
  /\ ~cancelled
  /\ Top.node.kind \in kinds

Subject == First(Top.todo)
Popped  == [Top EXCEPT !.todo = Rest(@)]

\* The statement ends on this path without another call.
Yield(p) == Go([Popped EXCEPT !.done = Append(@, p)])
\* The statement is evaluated by the call of g.
Evaluate(g) == Call([Popped EXCEPT !.pc = "call"], g)

\* The expansion stops at a substitution; the statement is resumed later.
Request(site, s) ==
  Call([Popped EXCEPT !.pc = "resume"],
       ScopeFrame("subst", site, s, SubstitutionChild(s)))

StmtCancelled ==
  /\ Running("stmt", "start") /\ Top.todo # <<>> /\ cancelled
  /\ Raise(Append(Top.done, GiveUp(Subject, "cancelled")), "cancelled")
  /\ Internal

StmtEvaluated ==
  /\ Returned("stmt", "call")
  /\ Go([Top EXCEPT !.pc = "start", !.done = @ \o ret])
  /\ Internal

StmtSubstituted ==
  /\ Returned("stmt", "resume")
  /\ Go([Top EXCEPT !.work = ret])
  /\ Internal

\* Mutant: a path whose substitution did not complete is evaluated again.
StmtResume_Everything ==
  /\ Running("stmt", "resume")
  /\ IF Top.work = <<>> THEN Go([Top EXCEPT !.pc = "start"])
     ELSE Go([Top EXCEPT !.work = Front1(@),
                         !.todo = <<Top.work[Len(Top.work)]>> \o @])
  /\ Internal

\* The continuation paths go before the pending ones, in their order.
StmtResume ==
  /\ Running("stmt", "resume")
  /\ IF Top.work = <<>> THEN Go([Top EXCEPT !.pc = "start"])
     ELSE LET p == Top.work[Len(Top.work)]
              f == [Top EXCEPT !.work = Front1(@)]
          IN  Go(IF p.status = "completed"
                 THEN [f EXCEPT !.todo = <<p>> \o @]
                 ELSE [f EXCEPT !.done = Append(@, p)])
  /\ Internal

StmtFinish ==
  /\ Running("stmt", "start") /\ Top.todo = <<>>
  /\ Return(Top.done)
  /\ Internal

-------------------------------------------------------------------------------
(* The commands that call nothing. *)

EvaluateUnsupported ==
  /\ StmtReady({"unsupported"})
  /\ Yield(Unresolved(Subject))
  /\ Internal

DeclareFunction ==
  /\ StmtReady({"fdef"})
  /\ Yield([Subject EXCEPT
              !.state = [SetExit(@, "zero") EXCEPT
                           !.functions[Top.node.name] = Top.node.body]])
  /\ Internal

\* evaluateAssignmentCall: the status is that of the last substitution.
EvaluateAssignment ==
  /\ StmtReady({"assign"}) /\ Unexpanded(Subject.state, Top.node) = {}
  /\ LET last == LastSubstitutionExit(Subject.state)
     IN  Yield([Subject EXCEPT
                  !.state = SetExit(@, IF last = "absent" THEN "zero"
                                                          ELSE last)])
  /\ Pay
  /\ Quietly

-------------------------------------------------------------------------------
(* evaluateCallStatement and evaluateExpandedCommand. *)

CallRefused ==
  /\ StmtReady({"call", "assign"})
  /\ Yield(Refuse(Subject))
  /\ BeRefused
  /\ Quietly

\* The step is released when the expansion asks for a substitution.
RequestSubstitution ==
  /\ StmtReady({"call", "assign"}) /\ Unexpanded(Subject.state, Top.node) # {}
  /\ CanReserve
  /\ Request(FirstUnexpanded(Subject.state, Top.node), Subject.state)
  /\ Internal

CallReady ==
  /\ StmtReady({"call"})
  /\ Unexpanded(Subject.state, Top.node) = {}

IsFunction(s, name) == name \in Function /\ s.functions[name] # <<>>

CallFunction ==
  /\ CallReady /\ IsFunction(Subject.state, Top.node.name)
  /\ LET s == Subject.state
     IN  Evaluate([ScopeFrame("function", Top.node, s, EnterFunction(s))
                     EXCEPT !.list = s.functions[Top.node.name]])
  /\ Pay
  /\ Quietly

CallControl ==
  /\ CallReady /\ Top.node.name \in Controls
  /\ Yield([Subject EXCEPT !.state = LanguageControl(@, Top.node)])
  /\ Pay
  /\ Quietly

CallBuiltin ==
  /\ CallReady
  /\ Top.node.name \in Builtins \ {"eval", "source", "shell", "exec"}
  /\ Yield([Subject EXCEPT !.state = ApplyBuiltin(@, Top.node)])
  /\ Pay
  /\ Quietly

\* executeEvaluate, executeSource and executeRunShell.
CallEval ==
  /\ CallReady /\ Top.node.name = "eval"
  /\ Evaluate(Frame("eval", Top.node, <<Subject>>))
  /\ Pay
  /\ Quietly

CallSource ==
  /\ CallReady /\ Top.node.name = "source"
  /\ Evaluate(Frame("source", Top.node,
                    <<[Subject EXCEPT !.state.sourceDepth = @ + 1]>>))
  /\ Pay
  /\ Quietly

CallShell ==
  /\ CallReady /\ Top.node.name = "shell"
  /\ Evaluate(ScopeFrame("shell", Top.node, Subject.state,
                         FreshShell(Subject.state)))
  /\ Pay
  /\ Quietly

\* executeReplace keeps the state an unknown command may fail back to.
CallExec ==
  /\ CallReady /\ Top.node.name = "exec"
  /\ Evaluate([Frame("replace", Top.node, <<Subject>>) EXCEPT
                 !.base = SnapshotForUnknownFailure(Subject.state)])
  /\ Pay
  /\ Quietly

\* Mutant: a call that is not paid for.
CallCommand_Free ==
  /\ CallReady
  /\ Top.node.name \in Command /\ ~IsFunction(Subject.state, Top.node.name)
  /\ Evaluate(Frame("invoke", Top.node, <<Subject>>))
  /\ Internal

\* Mutant: a call that observes the budget and not the context.
CallCommand_Unchecked ==
  /\ Running("stmt", "start") /\ Top.todo # <<>> /\ Top.node.kind = "call"
  /\ Unexpanded(Subject.state, Top.node) = {}
  /\ Top.node.name \in Command /\ ~IsFunction(Subject.state, Top.node.name)
  /\ executedSteps < MaxExecutionSteps
  /\ Evaluate(Frame("invoke", Top.node, <<Subject>>))
  /\ executedSteps' = executedSteps + 1 /\ UNCHANGED refused
  /\ Quietly

CallCommand ==
  /\ CallReady
  /\ Top.node.name \in Command /\ ~IsFunction(Subject.state, Top.node.name)
  /\ Evaluate(Frame("invoke", Top.node, <<Subject>>))
  /\ Pay
  /\ Quietly

-------------------------------------------------------------------------------
(***************************************************************************)
(* invokeCommand: a handler runs on the path.  A handler that returns      *)
(* Invoke starts the next handler from here, in a frame "delegate", and    *)
(* without another reservation.                                            *)
(***************************************************************************)
InvokedName(n) == IF n.name = "exec" THEN n.cmd ELSE n.name
IsRegistered(c) == Outcomes[c] # {}

Outcome(p, c, o) ==
  LET s == [p.state EXCEPT !.fs = Append(@, c)]
  IN  CASE o = "fail" -> Completed(SetExit(s, "nonzero"))
        [] o = "stop" -> Terminated(Completed(SetExit(s, "zero")))
        [] o = "unknown" -> Emitted(Completed(SetExit(s, "unknown")))
        [] OTHER -> Completed(SetExit(s, "zero"))

Invoking == mode = "run" /\ Depth > 0 /\ Top.pc = "start"
            /\ Top.kind \in {"invoke", "delegate"}
Invoked  == InvokedName(Top.node)

\* Only the commands the program calls are counted, not what they delegate to.
HandlerStarts ==
  LET counted == IF Top.kind = "invoke" THEN 1 ELSE 0
  IN  /\ calls' = calls + counted
      /\ lateCalls' = IF cancelled THEN lateCalls + counted ELSE lateCalls

InvokeUnregistered ==
  /\ Invoking /\ ~IsRegistered(Invoked)
  /\ Return(<<Emitted([Subject EXCEPT !.state = SetExit(@, "unknown")])>>)
  /\ Internal

InvokeHandler ==
  /\ Invoking
  /\ \E o \in Outcomes[Invoked] \ {"error", "invoke"} :
       /\ Return(<<Outcome(Subject, Invoked, o)>>)
       /\ stop' = (stop \/ o = "stop")
       /\ cancelled' = (cancelled \/ o = "cancel")
  /\ HandlerStarts
  /\ FreeStep /\ UNCHANGED result

InvokeFailing ==
  /\ Invoking /\ "error" \in Outcomes[Invoked]
  /\ Raise(<<GiveUp(Outcome(Subject, Invoked, "ok"), "handler")>>, "handler")
  /\ HandlerStarts
  /\ FreeStep /\ UNCHANGED <<stop, cancelled, result>>

InvokeDelegating ==
  /\ Invoking /\ "invoke" \in Outcomes[Invoked]
  /\ Call([Top EXCEPT !.pc = "call"],
          Frame("delegate", Delegate[Invoked],
                <<Outcome(Subject, Invoked, "ok")>>))
  /\ HandlerStarts
  /\ FreeStep /\ UNCHANGED <<stop, cancelled, result>>

\* executeReplace: a command that was replaced ends the path; an unknown one
\* may instead have failed to start.
Replaced(f, p) ==
  IF p.status # "completed" THEN p
  ELSE [p EXCEPT !.state.signal = "exit",
                 !.state.exitFailure =
                    IF p.state.exit = "unknown" /\ ~IsRegistered(f.node.cmd)
                    THEN f.base ELSE @]

\* The wrappers that observe a cancellation before they start.
Checking == {"function", "eval", "source"}

WrapperStart ==
  /\ mode = "run" /\ Depth > 0 /\ Top.pc = "start"
  /\ Top.kind = "replace" \/ (Top.kind \in Checking /\ ~cancelled)
  /\ Call([Top EXCEPT !.pc = "call"],
          CASE Top.kind = "replace"  -> Frame("invoke", Top.node, Top.todo)
            [] Top.kind = "function" -> StmtFrame(Top.list[1], Subject.state, 0)
            [] OTHER -> ListFrame(Top.node, Top.node.body, Top.todo, 0))
  /\ Internal

WrapperCancelled ==
  /\ mode = "run" /\ Depth > 0 /\ Top.pc = "start"
  /\ Top.kind \in Checking /\ cancelled
  /\ Return(<<GiveUp(Subject, "cancelled")>>)
  /\ Internal

WrapperReturn ==
  /\ mode = "return" /\ Depth > 0 /\ Top.pc = "call"
  /\ Top.kind \in Checking \cup {"invoke", "delegate", "replace"}
  /\ Return(IF Top.kind = "replace"
            THEN [k \in 1..Len(ret) |-> Replaced(Top, ret[k])] ELSE ret)
  /\ Internal

-------------------------------------------------------------------------------
(* Compound commands: the statement hands its path to a frame of its own. *)

EvaluateBlock ==
  /\ StmtReady({"block"})
  /\ Evaluate(ListFrame(Top.node, Top.node.body, <<Subject>>, 0))
  /\ Internal

FrameOf(k) == CASE k \in {"and", "or"}      -> "logical"
                [] k \in {"while", "until"} -> "while"
                [] OTHER                    -> k

EvaluateCompound ==
  /\ StmtReady({"not", "and", "or", "if"})
  /\ Evaluate(Frame(FrameOf(Top.node.kind), Top.node, <<Subject>>))
  /\ Internal

EvaluateWhile ==
  /\ StmtReady({"while", "until"})
  /\ Evaluate([Frame("while", Top.node, <<>>) EXCEPT
                 !.out = <<[Subject EXCEPT !.state = PushLoop(@)]>>,
                 !.pc = "loop"])
  /\ Internal

\* evaluateFor counts the loop before its items are expanded, and the count
\* stays when the expansion asks for a substitution.
Counted(p) == [p EXCEPT !.state.loopDepth = @ + 1]

RequestForItems ==
  /\ StmtReady({"for"}) /\ Unexpanded(Subject.state, Top.node) # {}
  /\ Request(FirstUnexpanded(Subject.state, Top.node), Counted(Subject).state)
  /\ Internal

EvaluateFor ==
  /\ StmtReady({"for"}) /\ Unexpanded(Subject.state, Top.node) = {}
  /\ Evaluate(Frame("for", Top.node,
                    <<[Counted(Subject) EXCEPT
                         !.state = SetExit(@, "zero")]>>))
  /\ Internal

EvaluateChild ==
  /\ StmtReady({"subshell", "background"})
  /\ LET s == Subject.state
     IN  Evaluate(ScopeFrame(Top.node.kind, Top.node, s,
                             IF Top.node.kind = "subshell"
                             THEN SubshellChild(s) ELSE BackgroundChild(s)))
  /\ Internal

EvaluatePipeline ==
  /\ StmtReady({"pipe"})
  /\ Evaluate(ScopeFrame("pipe", Top.node, Subject.state, Subject.state))
  /\ Internal

-------------------------------------------------------------------------------
(* Negation. *)

NotStart ==
  /\ Running("not", "start")
  /\ Call([Top EXCEPT !.pc = "call"],
          StmtFrame(Top.node.body[1], Subject.state, 1))
  /\ Internal

NotEvaluated ==
  /\ Returned("not", "call")
  /\ Go([Top EXCEPT !.pc = "correlate", !.work = ret])
  /\ Internal

NotFinish ==
  /\ CorrelateDone("not")
  /\ Return([k \in 1..Len(Top.out) |-> Invert(Top.out[k])])
  /\ Internal

-------------------------------------------------------------------------------
(***************************************************************************)
(* Branches.  todo holds the paths of the condition, work the successors   *)
(* of the one being branched on once its status is resolved.               *)
(***************************************************************************)
BranchKinds == {"logical", "if", "while"}

ConditionStart ==
  /\ mode = "run" /\ Depth > 0 /\ Top.pc = "start"
  /\ Top.kind \in {"logical", "if"}
  /\ IF Top.kind = "logical"
     THEN Call([Top EXCEPT !.pc = "call", !.todo = <<>>],
               StmtFrame(Top.node.cond[1], Subject.state, 1))
     ELSE IF Top.node.cond = <<>>
          THEN Call([Top EXCEPT !.pc = "branch", !.todo = <<>>],
                    ListFrame(Top.node, Top.node.body, Top.todo, 0))
          ELSE Call([Top EXCEPT !.pc = "call", !.todo = <<>>],
                    ListFrame(Top.node, Top.node.cond, Top.todo, 1))
  /\ Internal

ConditionEvaluated ==
  /\ mode = "return" /\ Depth > 0 /\ Top.pc = "call" /\ Top.kind \in BranchKinds
  /\ Go([Top EXCEPT !.pc = "branch", !.todo = ret])
  /\ Internal

Branching ==
  mode = "run" /\ Depth > 0 /\ Top.pc = "branch" /\ Top.kind \in BranchKinds

BranchEnded ==
  /\ Branching /\ Top.work = <<>> /\ Top.todo # <<>>
  /\ Subject.status # "completed"
  /\ Go([Popped EXCEPT !.done = Append(@, Subject)])
  /\ Internal

BranchResolve ==
  /\ Branching /\ Top.work = <<>> /\ Top.todo # <<>>
  /\ Subject.status = "completed"
  /\ Go([Popped EXCEPT !.work = Resolved(Subject)])
  /\ PayForResolving(Subject)
  /\ Quietly

\* The path to branch on next.
Choice   == First(Top.work)
Chosen   == [Top EXCEPT !.work = Rest(@)]
Deciding(kind) == Branching /\ Top.kind = kind /\ Top.work # <<>>

BranchStopped ==
  /\ Deciding(Top.kind) /\ Top.kind \in {"logical", "if"} /\ stop
  /\ Go([Chosen EXCEPT !.done = Append(@, Terminated(Choice))])
  /\ Internal

RunsRight(n, s) == IF n.kind = "and" THEN Succeeded(s) ELSE ~Succeeded(s)

\* Mutant: the right side runs after CommandStop.
LogicalBranch_AfterStop ==
  /\ Deciding("logical")
  /\ IF RunsRight(Top.node, Choice.state)
     THEN Call(Chosen, StmtFrame(Top.node.body[1], Choice.state, 0))
     ELSE Go([Chosen EXCEPT !.done = Append(@, Choice)])
  /\ Internal

LogicalBranch ==
  /\ Deciding("logical") /\ ~stop
  /\ IF RunsRight(Top.node, Choice.state)
     THEN Call(Chosen, StmtFrame(Top.node.body[1], Choice.state, 0))
     ELSE Go([Chosen EXCEPT !.done = Append(@, Choice)])
  /\ Internal

IfBranch ==
  /\ Deciding("if") /\ ~stop
  /\ IF Succeeded(Choice.state)
     THEN Call(Chosen, ListFrame(Top.node, Top.node.body, <<Choice>>, 0))
     ELSE IF Top.node.els # <<>>
          THEN Call(Chosen, Frame("if", Top.node.els[1],
                                  <<Completed(Choice.state)>>))
          ELSE Go([Chosen EXCEPT
                     !.done = Append(@, [Choice EXCEPT
                                           !.state = SetExit(@, "zero")])])
  /\ Internal

BranchReturned ==
  /\ mode = "return" /\ Depth > 0 /\ Top.pc = "branch"
  /\ Top.kind \in {"logical", "if"}
  /\ Go([Top EXCEPT !.done = @ \o ret])
  /\ Internal

BranchFinish ==
  /\ Branching /\ Top.kind \in {"logical", "if"}
  /\ Top.work = <<>> /\ Top.todo = <<>>
  /\ Return(Top.done)
  /\ Internal
-------------------------------------------------------------------------------
(***************************************************************************)
(* Loops.  A while frame starts at pc "loop" with the paths that enter the *)
(* condition in out; at "merge" work holds the paths its body ended in.    *)
(* Only the paths that go on reach the next condition or the next item.    *)
(***************************************************************************)
WhileCondition ==
  /\ Running("while", "loop")
  /\ IF Top.out = <<>> THEN Return(Top.done)
     ELSE Call([Top EXCEPT !.pc = "call", !.out = <<>>],
               ListFrame(Top.node, Top.node.cond, Top.out, 1))
  /\ Internal

EntersBody(n, s) == IF n.kind = "until" THEN ~Succeeded(s) ELSE Succeeded(s)

\* A loop that ends has the status of its last body.
WhileBranch ==
  /\ Deciding("while")
  /\ Go(IF EntersBody(Top.node, Choice.state)
        THEN [Chosen EXCEPT !.out = Append(@, Choice)]
        ELSE [Chosen EXCEPT
                !.done = Append(@, [Choice EXCEPT
                           !.state = SetExit(@, CurrentLoopExit(@))])])
  /\ Internal

WhileBody ==
  /\ Running("while", "branch") /\ Top.work = <<>> /\ Top.todo = <<>>
  /\ IF Top.out = <<>> THEN Return(Top.done)
     ELSE Call([Top EXCEPT !.pc = "merge", !.out = <<>>],
               ListFrame(Top.node, Top.node.body, Top.out, 0))
  /\ Internal

LoopBodyEvaluated ==
  /\ mode = "return" /\ Depth > 0 /\ Top.pc = "merge"
  /\ Top.kind \in {"while", "for"}
  /\ Go([Top EXCEPT !.work = ret])
  /\ Internal

\* collectLoopContinuation.  while remembers the status of its body first.
LoopCollect ==
  /\ mode = "run" /\ Depth > 0 /\ Top.pc = "merge"
  /\ Top.kind \in {"while", "for"} /\ Top.work # <<>>
  /\ LET p == IF Top.kind = "while" /\ Choice.status = "completed"
              THEN [Choice EXCEPT !.state = SetLoopExit(@)] ELSE Choice
     IN  Go(IF LoopGoesOn(p)
            THEN [Chosen EXCEPT !.out = Append(@, AfterIteration(p))]
            ELSE [Chosen EXCEPT !.done = Append(@, AfterIteration(p))])
  /\ Internal

LoopCollected ==
  /\ mode = "run" /\ Depth > 0 /\ Top.pc = "merge"
  /\ Top.kind \in {"while", "for"} /\ Top.work = <<>>
  /\ Go(IF Top.kind = "while" THEN [Top EXCEPT !.pc = "loop"]
        ELSE [Top EXCEPT !.pc = "start", !.idx = @ + 1,
                         !.todo = Top.out, !.out = <<>>])
  /\ Internal

\* collectInactivePath, for each path that reaches the next item.
ForItem ==
  /\ Running("for", "start") /\ Top.idx <= Top.node.num /\ Top.todo # <<>>
  /\ Go(IF Subject.status = "completed" /\ ~stop
        THEN [Popped EXCEPT !.out = Append(@, Subject)]
        ELSE [Popped EXCEPT
                !.done = Append(@, IF Subject.status = "completed"
                                   THEN Terminated(Subject) ELSE Subject)])
  /\ Internal

ForBody ==
  /\ Running("for", "start") /\ Top.idx <= Top.node.num /\ Top.todo = <<>>
  /\ IF Top.out = <<>> THEN Return(Top.done)
     ELSE Call([Top EXCEPT !.pc = "merge", !.out = <<>>],
               ListFrame(Top.node, Top.node.body, Top.out, 0))
  /\ Internal

ForFinish ==
  /\ Running("for", "start") /\ Top.idx > Top.node.num
  /\ Return(Top.done \o Top.todo)
  /\ Internal

-------------------------------------------------------------------------------
(***************************************************************************)
(* Children: subshells, background commands, command substitutions, child  *)
(* shells and the program itself.  A child keeps the state of its parent   *)
(* in base, evaluates its statements ("call"), runs the EXIT trap of every *)
(* path that has one of its own ("traps") and merges each path into a copy *)
(* of the parent ("merge").                                                *)
(***************************************************************************)
Children == {"main", "subshell", "background", "subst", "shell"}
InChild(pc) == mode = "run" /\ Depth > 0 /\ Top.kind \in Children /\ Top.pc = pc

ChildStart ==
  /\ InChild("start") /\ (Top.kind = "subst" => Top.node.kind # "input")
  /\ Top.kind \in {"main", "subst", "shell"} => ~cancelled
  /\ Call([Top EXCEPT !.todo = <<>>, !.pc = "call"],
          IF Top.kind = "background"
          THEN StmtFrame(Top.node.body[1], Subject.state, 0)
          ELSE ListFrame(Top.node, Top.node.body, Top.todo, 0))
  /\ Internal

\* A substitution that was cancelled hands out its child, a shell its parent.
ChildCancelled ==
  /\ InChild("start") /\ (Top.kind = "subst" => Top.node.kind # "input")
  /\ Top.kind \in {"subst", "shell"} /\ cancelled
  /\ Return(<<GiveUp(IF Top.kind = "subst" THEN Subject ELSE Completed(Top.base),
                     "cancelled")>>)
  /\ Internal

\* $(<file) of a file that may be missing: with the file, and without it.
InputSubstitution ==
  /\ Running("subst", "start") /\ Top.node.kind = "input"
  /\ LET absent  == SnapshotForUnknownFailure(Top.base)
         present == [Top.base EXCEPT !.fs = Append(@, "input")]
     IN  Return(IF CanReserve
                THEN << Completed(SetSubstitution(present, Top.node, "zero")),
                        Completed(SetSubstitution(absent, Top.node, "nonzero")) >>
                ELSE << Refuse(Completed(present)) >>)
  /\ Pay \/ BeRefused
  /\ Quietly

ChildEvaluated ==
  /\ mode = "return" /\ Depth > 0 /\ Top.kind \in Children /\ Top.pc = "call"
  /\ Go([Top EXCEPT !.work = ret, !.pc = IF Top.kind = "background"
                                         THEN "correlate" ELSE "traps"])
  /\ Internal

BackgroundResolved ==
  /\ CorrelateDone("background")
  /\ Go([Top EXCEPT !.pc = "traps", !.work = Top.out, !.out = <<>>])
  /\ Internal

\* evaluateExitTraps.  The path whose trap runs stays the first of work: the
\* trap's own status is replaced by the one it had.
RunsExitTrap(p) ==
  /\ p.status = "completed"
  /\ p.state.exitTrap # <<>>
  /\ ~p.state.exitTrapInherited
Restored(p, s) ==
  IF IsActive(p)
  THEN [p EXCEPT !.state.exit = s.exit, !.state.exitFailure = s.exitFailure]
  ELSE p
AfterTrap ==
  [k \in 1..Len(ret) |-> Restored(ret[k], Choice.state)]

ExitTrapSkip ==
  /\ InChild("traps") /\ Top.work # <<>> /\ ~RunsExitTrap(Choice)
  /\ Go([Chosen EXCEPT !.out = Append(@, Choice)])
  /\ Internal

ExitTrapRun ==
  /\ InChild("traps") /\ Top.work # <<>> /\ RunsExitTrap(Choice)
  /\ Call(Top, ListFrame(Top.node, Choice.state.exitTrap,
                         <<[Choice EXCEPT !.state.exitTrap = <<>>,
                                          !.state.signal = "none"]>>, 0))
  /\ Internal

ExitTrapReturned ==
  /\ mode = "return" /\ Depth > 0 /\ Top.kind \in Children /\ Top.pc = "traps"
  /\ Go([Chosen EXCEPT !.out = @ \o AfterTrap])
  /\ Internal

ExitTrapsDone ==
  /\ InChild("traps") /\ Top.work = <<>>
  /\ Go([Top EXCEPT !.pc = "merge", !.work = Top.out, !.out = <<>>])
  /\ Internal

\* Mutant: the parent of a child that did not complete goes on.
Merged_Completed(f, p) ==
  LET q == Completed(SetExit(MergeChild(f.base, p.state), p.state.exit))
  IN  IF f.kind = "subst"
      THEN [q EXCEPT !.state = SetSubstitution(@, f.node, p.state.exit)] ELSE q

\* setSubstitutionAlternatives would fork a status whose failure has a state of
\* its own; FailuresNotDropped says that none gets here.
Merged(f, p) ==
  LET parent == MergeChild(f.base, p.state)
      q      == Emitted([p EXCEPT !.state = parent])
  IN  CASE f.kind = "background" -> [q EXCEPT !.state = SetExit(@, "zero")]
        [] f.kind = "subst" ->
             IF q.status # "completed" THEN q
             ELSE [q EXCEPT !.state = SetSubstitution(@, f.node, p.state.exit)]
        [] OTHER -> [q EXCEPT !.state = SetExit(@, p.state.exit)]

ChildMerge ==
  /\ InChild("merge") /\ Top.kind # "main" /\ Top.work # <<>>
  /\ Go([Chosen EXCEPT !.done = Append(@, Merged(Top, Choice))])
  /\ Internal

\* invokeCommand drops the paths of a child shell that failed.
ChildFinish ==
  /\ InChild("merge") /\ Top.kind # "main" /\ Top.work = <<>>
  /\ IF Top.err = "none" THEN Return(Top.done)
     ELSE Raise(IF Top.kind = "shell" THEN <<GiveUp(Completed(Top.base), Top.err)>>
                                      ELSE Top.done,
                Top.err)
  /\ Internal

-------------------------------------------------------------------------------
(***************************************************************************)
(* evaluatePipeline.  idx is the side that runs; while the right side of a *)
(* left path runs, that path stays the first of todo.                      *)
(***************************************************************************)
PipeLeft ==
  /\ Running("pipe", "start")
  /\ Call([Top EXCEPT !.todo = <<>>, !.pc = "call"],
          StmtFrame(Top.node.cond[1], Top.base, 1))
  /\ Internal

PipeSideEvaluated ==
  /\ Returned("pipe", "call")
  /\ Go([Top EXCEPT !.pc = "correlate", !.work = ret])
  /\ Internal

PipeSideResolved ==
  /\ CorrelateDone("pipe")
  /\ Go(IF Top.idx = 1
        THEN [Top EXCEPT !.pc = "branch", !.todo = Top.out, !.out = <<>>]
        ELSE [Top EXCEPT !.pc = "merge", !.work = Top.out, !.out = <<>>])
  /\ Internal

\* A left path that ended takes its issue and its status along, and no file.
LeftAlone(f, p) ==
  LET q == Emitted([p EXCEPT !.state = SetExit(MergeIssue(f.base, p.state),
                                               p.state.exit)])
  IN  IF stop /\ q.status = "completed" THEN Terminated(q) ELSE q

PipeNoRight ==
  /\ Running("pipe", "branch") /\ Top.todo # <<>>
  /\ Subject.status # "completed" \/ stop
  /\ Go([Popped EXCEPT !.done = Append(@, LeftAlone(Top, Subject))])
  /\ Internal

PipeRight ==
  /\ Running("pipe", "branch") /\ Top.todo # <<>>
  /\ Subject.status = "completed" /\ ~stop
  /\ Call([Top EXCEPT !.pc = "call", !.idx = 2],
          StmtFrame(Top.node.body[1], MergeChild(Top.base, Subject.state), 1))
  /\ Internal

PipeExit(f, left, right) ==
  IF f.base.pipefail /\ right.exit = "zero" THEN left.exit ELSE right.exit
Joined(f, left, p) ==
  Emitted([p EXCEPT !.state = SetExit(MergeChild(f.base, @),
                                      PipeExit(f, left.state, @))])

PipeMerge ==
  /\ Running("pipe", "merge") /\ Top.work # <<>>
  /\ Go([Chosen EXCEPT !.done = Append(@, Joined(Top, Subject, Choice))])
  /\ Internal

PipeNext ==
  /\ Running("pipe", "merge") /\ Top.work = <<>>
  /\ Go([Popped EXCEPT !.pc = "branch", !.idx = 1])
  /\ Internal

PipeFinish ==
  /\ Running("pipe", "branch") /\ Top.todo = <<>>
  /\ Return(Top.done)
  /\ Internal

-------------------------------------------------------------------------------
(***************************************************************************)
(* Errors.  A call that fails hands the paths it has, and the ones of the  *)
(* call below, to its caller; the deferred cleanups run on all of them.    *)
(* The paths it had not reached yet are dropped.                           *)
(***************************************************************************)
Raised(kinds) == mode = "raise" /\ Depth > 0 /\ Top.kind \in kinds

UnwindPaths ==
  /\ Raised({"list", "stmt", "function", "logical", "if", "while", "for", "not"})
  /\ LET raised == IF Top.kind = "not" THEN [k \in 1..Len(ret) |-> Invert(ret[k])]
                                       ELSE ret
     IN  Raise(Top.done \o Top.out \o raised, error)
  /\ Internal

\* invokeCommand hands out the path it was called with, incomplete.
UnwindCommand ==
  /\ Raised({"invoke", "delegate", "replace", "eval", "source"})
  /\ Raise(<<GiveUp(Subject, error)>>, error)
  /\ Internal

UnwindPipe ==
  /\ Raised({"pipe"})
  /\ Raise(IF Top.idx = 1 THEN ret
           ELSE Top.done \o [k \in 1..Len(ret) |-> Joined(Top, Subject, ret[k])],
           error)
  /\ Internal

\* The EXIT traps of a child still run when its statements failed.
UnwindChild ==
  /\ Raised(Children \ {"main"}) /\ Top.pc = "call"
  /\ Go([Top EXCEPT !.pc = "traps", !.work = ret, !.err = error])
  /\ Internal

UnwindTraps ==
  /\ Raised(Children \ {"main"}) /\ Top.pc = "traps"
  /\ Go([Top EXCEPT !.pc = "merge", !.work = Top.out \o AfterTrap, !.out = <<>>,
                    !.err = IF @ = "none" THEN error ELSE @])
  /\ Internal

-------------------------------------------------------------------------------
(* Execute returns. *)

Explains(p) == p.status \notin {"completed", "terminated"}

\* What Execute makes of the final paths: the issue of the first that ended
\* early.  "unexplained" is its message for a path without an issue.
Verdict(paths) ==
  IF cancelled THEN "cancelled"
  ELSE IF \A k \in 1..Len(paths) : ~Explains(paths[k]) THEN "nil"
  ELSE LET k == CHOOSE k \in 1..Len(paths) :
                  /\ Explains(paths[k])
                  /\ \A j \in 1..(k - 1) : ~Explains(paths[j])
       IN  IF paths[k].state.issue = "none" THEN "unexplained"
           ELSE paths[k].state.issue

Halt(paths, verdict) ==
  /\ stack' = <<Top>> /\ mode' = "halt" /\ ret' = paths /\ error' = "none"
  /\ UNCHANGED counters
  /\ result' = verdict
  /\ FreeStep /\ NoCall /\ UNCHANGED <<stop, cancelled>>

NotStarted ==
  /\ InChild("start") /\ Top.kind = "main" /\ cancelled
  /\ Halt(<<>>, "cancelled")

Finished ==
  /\ InChild("merge") /\ Top.kind = "main"
  /\ Halt(Top.work, Verdict(Top.work))

Failed ==
  /\ Raised({"main"})
  /\ Halt(ret, error)

\* The caller cancels the context at any time.
Cancel ==
  /\ MayCancel /\ ~cancelled /\ mode # "halt"
  /\ cancelled' = TRUE
  /\ UNCHANGED <<control, executedSteps, stop, result, history>>

Halted == mode = "halt" /\ UNCHANGED vars

-------------------------------------------------------------------------------
Init ==
  /\ \E n \in Programs : stack = <<Frame("main", n, <<Completed(NewState)>>)>>
  /\ mode = "run" /\ ret = <<>> /\ error = "none"
  /\ executedSteps = 0 /\ stop = FALSE
  /\ errexitSuppressed = 0 /\ errTrapSuppressed = 0
  /\ cancelled = FALSE /\ result = "none"
  /\ calls = 0 /\ lateCalls = 0 /\ refused = FALSE

Lists ==
  \/ ListNext \/ ListFinish \/ ListSkip \/ ListEvaluate \/ ListEvaluated
  \/ EffectsSuppressed \/ EffectsPass \/ EffectsFork \/ EffectsFailure
  \/ EffectsTrapped \/ EffectsDone
  \/ CorrelatePass \/ CorrelateFork \/ ListStatementDone

Statements ==
  \/ StmtCancelled \/ StmtEvaluated \/ StmtSubstituted \/ StmtResume \/ StmtFinish
  \/ EvaluateUnsupported \/ DeclareFunction \/ EvaluateAssignment
  \/ EvaluateBlock \/ EvaluateCompound \/ EvaluateWhile
  \/ RequestForItems \/ EvaluateFor \/ EvaluateChild \/ EvaluatePipeline

Commands ==
  \/ CallRefused \/ RequestSubstitution \/ CallFunction \/ CallControl
  \/ CallBuiltin \/ CallEval \/ CallSource \/ CallShell \/ CallExec \/ CallCommand
  \/ InvokeUnregistered \/ InvokeHandler \/ InvokeFailing \/ InvokeDelegating
  \/ WrapperStart \/ WrapperCancelled \/ WrapperReturn

Compounds ==
  \/ NotStart \/ NotEvaluated \/ NotFinish
  \/ ConditionStart \/ ConditionEvaluated \/ BranchEnded \/ BranchResolve
  \/ BranchStopped \/ LogicalBranch \/ IfBranch \/ BranchReturned \/ BranchFinish
  \/ WhileCondition \/ WhileBranch \/ WhileBody
  \/ LoopBodyEvaluated \/ LoopCollect \/ LoopCollected
  \/ ForItem \/ ForBody \/ ForFinish
  \/ PipeLeft \/ PipeSideEvaluated \/ PipeSideResolved \/ PipeNoRight
  \/ PipeRight \/ PipeMerge \/ PipeNext \/ PipeFinish

ChildProcesses ==
  \/ ChildStart \/ ChildCancelled \/ InputSubstitution \/ ChildEvaluated
  \/ BackgroundResolved \/ ExitTrapSkip \/ ExitTrapRun \/ ExitTrapReturned
  \/ ExitTrapsDone \/ ChildMerge \/ ChildFinish

Unwinding ==
  UnwindPaths \/ UnwindCommand \/ UnwindPipe \/ UnwindChild \/ UnwindTraps

Step ==
  \/ Lists \/ Statements \/ Commands \/ Compounds \/ ChildProcesses
  \/ Unwinding \/ NotStarted \/ Finished \/ Failed

Next == Step \/ Cancel \/ Halted

Spec     == Init /\ [][Next]_vars
FairSpec == Spec /\ WF_vars(Step)
-------------------------------------------------------------------------------
(* Properties. *)

\* The paths that exist right now: on the stack, or on their way to a caller.
PathsOf(q) == {q[k] : k \in 1..Len(q)}
Paths ==
  PathsOf(ret) \cup
  UNION {PathsOf(stack[k].todo) \cup PathsOf(stack[k].work) \cup
         PathsOf(stack[k].out)  \cup PathsOf(stack[k].done) : k \in 1..Depth}

\* Every command the program calls was paid for with an execution step of its
\* own, so the step budget bounds the calls (reserveExecutionSteps).
CallsPaid == calls <= executedSteps /\ executedSteps <= MaxExecutionSteps

\* Once the context is cancelled the program calls at most one more command:
\* the one whose step had been reserved already.
OneLateCall == lateCalls <= 1

\* A statement leaves every path in the scopes it found it in: the same loops,
\* functions and sourced files, and only its own substitution frame more,
\* however it ended (break, return, exit, a failure, an issue).
ScopesBalanced ==
  \A k \in 1..Depth : stack[k].kind = "stmt" =>
    \A p \in PathsOf(stack[k].done) :
      /\ p.state.loopDepth      = stack[k].base.loopDepth
      /\ Len(p.state.loopExits) = Len(stack[k].base.loopExits)
      /\ p.state.funcDepth      = stack[k].base.funcDepth
      /\ p.state.sourceDepth    = stack[k].base.sourceDepth
      /\ Len(p.state.frames)    = Len(stack[k].base.frames) + 1

\* A pending break or continue always has that many loops left to leave, a
\* pending return a function or a sourced file, and none of them survives to
\* the end of the program.
SignalsScoped ==
  /\ \A p \in Paths : p.status = "completed" =>
       /\ p.state.signal \in {"break", "continue"} =>
            p.state.signalDepth \in 1..p.state.loopDepth
       /\ p.state.signal = "return" =>
            p.state.funcDepth + p.state.sourceDepth > 0
  /\ mode = "halt" => \A p \in PathsOf(ret) :
       p.status = "completed" => p.state.signal \in {"none", "exit"}

\* A break or continue outside any loop is refused and the program goes on: no
\* execution ends by one.
NoStrayBreak ==
  mode = "halt" => \A p \in PathsOf(ret) :
                     p.state.signal \notin {"break", "continue"}

\* A path that ended early says why: Execute never has to return its
\* "simulation ended before completion" message.
EndingsExplained ==
  /\ \A p \in Paths : p.status \in {"incomplete", "unresolved"} =>
                         p.state.issue # "none"
  /\ result # "unexplained"

\* The ERR trap is never run by a failure inside an ERR trap: one call of
\* applyKnownFailure at most is running the trap.
RunsErrTrap(k) == k < Depth /\ stack[k].kind = "list" /\ stack[k].pc = "effects"
ErrTrapNotReentered ==
  \A j, k \in 1..Depth : RunsErrTrap(j) /\ RunsErrTrap(k) => j = k

\* A child never hands its parent an unresolved status whose failure has a state
\* of its own: the merges of subshells, pipelines, background commands and
\* child shells keep the status and would lose that state.
FailuresNotDropped ==
  \A k \in 1..Depth :
    stack[k].kind \in (Children \ {"main"}) \cup {"pipe"} /\ stack[k].pc = "merge" =>
      \A p \in PathsOf(stack[k].work) :
        p.status = "completed" => p.state.exitFailure = NoState

\* Execute returns nil only if every path was followed to its end: a step
\* reservation that failed is reported.
NilMeansExplored == result = "nil" => ~refused

\* No handler starts on a path whose last command may have failed into a
\* state of its own: the two outcomes are told apart first.
HandlerStarted == calls' # calls
OutcomesToldApart ==
  [][HandlerStarted => Subject.state.exitFailure = NoState]_vars

\* No handler starts after one returned CommandStop.
NoCallAfterStop == [][HandlerStarted => ~stop]_vars

\* The simulation ends.
Terminates == <>(mode = "halt")
===============================================================================
