---------------------------- MODULE EvaluatorProofs ----------------------------
(***************************************************************************)
(* What bounds the commands a simulation calls, for every program, every   *)
(* set of handlers and every step budget: a reservation precedes every     *)
(* call (CallsPaid), and at most one call starts once the context is       *)
(* cancelled (OneLateCall).                                                *)
(*                                                                         *)
(* Neither is inductive.  Between reserveExecutionSteps and the handler    *)
(* lie frames of invokeCommand and executeReplace that have been paid for  *)
(* and have not called yet: Load counts them.  CallsInv says that there is *)
(* at most one, on the top of the stack, and that the call it owes fits    *)
(* under both bounds.  Almost every action leaves Load at 0 and the        *)
(* counters alone (Plain); only CallExec, CallCommand, WrapperStart and    *)
(* the three handler actions need a proof of their own.                    *)
(***************************************************************************)
EXTENDS Evaluator, SequenceTheorems, FoldsProofs, TLAPS

\* A frame is a function on these fields, whatever values they have.
FrameFields ==
  {"kind", "pc", "node", "list", "idx", "todo", "work", "out", "done", "base",
   "quiet", "mute", "err"}
IsFrame(f) == f = [x \in FrameFields |-> f[x]]

\* A frame whose next step starts the handler of a command the program calls.
Pending(f) == f.kind \in {"invoke", "replace"} /\ f.pc = "start"
\* The calls that have been paid for and have not been made.
Load == IF Depth > 0 /\ Pending(Top) THEN 1 ELSE 0

\* Only the shape of the stack matters here, not the types of its data.
IsStack ==
  /\ \E S : stack \in Seq(S)
  /\ \A k \in 1..Depth : IsFrame(stack[k])
\* A frame below the top waits for a callee, never for its handler to start.
Suspended == \A k \in 1..(Depth - 1) : ~Pending(stack[k])

\* The step leaves a well-shaped stack that owes n calls.
Settled(n) == IsStack' /\ Suspended' /\ Load' = n

-------------------------------------------------------------------------------
(* Pushing and popping frames. *)

\* The frames below the top, and the top, of a stack that is not empty.
LEMMA StackFacts ==
  ASSUME IsStack, Depth > 0
  PROVE  /\ Depth \in Nat
         /\ \E S : Below \in Seq(S)
         /\ Len(Below) = Depth - 1
         /\ \A k \in 1..(Depth - 1) : Below[k] = stack[k]
         /\ IsFrame(Top)
<1>1. PICK S : stack \in Seq(S) BY DEF IsStack
<1>2. Depth \in Nat BY <1>1 DEF Depth
<1>3. \A k \in 1..(Depth - 1) : stack[k] \in S BY <1>1, <1>2 DEF Depth
<1>4. /\ SubSeq(stack, 1, Depth - 1) \in Seq(S)
      /\ Len(SubSeq(stack, 1, Depth - 1)) =
            IF 1 <= Depth - 1 THEN (Depth - 1) - 1 + 1 ELSE 0
      /\ \A k \in 1..((Depth - 1) - 1 + 1) :
            SubSeq(stack, 1, Depth - 1)[k] = stack[1 + k - 1]
  <2>1. \A q : \A n \in Int :
          (\A i \in 1..n : q[i] \in S) =>
             /\ SubSeq(q, 1, n) \in Seq(S)
             /\ Len(SubSeq(q, 1, n)) = IF 1 <= n THEN n - 1 + 1 ELSE 0
             /\ \A k \in 1..(n - 1 + 1) : SubSeq(q, 1, n)[k] = q[1 + k - 1]
    BY SubSeqProperties
  <2>2. Depth - 1 \in Int BY <1>2
  <2>. QED BY <1>3, <2>1, <2>2, Zenon
<1>5. /\ Len(SubSeq(stack, 1, Depth - 1)) = Depth - 1
      /\ \A k \in 1..(Depth - 1) : SubSeq(stack, 1, Depth - 1)[k] = stack[k]
  BY <1>2, <1>4
<1>6. IsFrame(Top) BY <1>2 DEF IsStack, Top
<1>. QED BY <1>2, <1>4, <1>5, <1>6 DEF Below

\* Replacing the top frame keeps the shape of the stack.
LEMMA PushBelow ==
  ASSUME IsStack, Suspended, Depth > 0, NEW f, IsFrame(f), stack' =
         Append(Below, f)
  PROVE  Settled(IF Pending(f) THEN 1 ELSE 0)
<1>0. Depth \in Nat BY StackFacts
<1>1. PICK S : Below \in Seq(S) BY StackFacts
<1>2. Below \in Seq(S \cup {f}) BY <1>1
<1>3. stack' \in Seq(S \cup {f}) BY <1>2
<1>4. Len(stack') = Depth /\ stack'[Depth] = f BY <1>2, <1>0, StackFacts
<1>5. \A k \in 1..(Depth - 1) : stack'[k] = stack[k] BY <1>2, <1>0, StackFacts
<1>6. \A k \in 1..Depth : IsFrame(stack'[k]) 
  BY <1>0, <1>4, <1>5 DEF IsStack
<1>7. IsStack' BY <1>3, <1>4, <1>6 DEF IsStack, Depth
<1>8. Suspended' BY <1>4, <1>5, <1>0 DEF Suspended, Depth
<1>. QED BY <1>0, <1>4, <1>7, <1>8 DEF Settled, Load, Depth, Top

\* Going on as a frame that owes no call settles the stack.
LEMMA GoSettles ==
  ASSUME IsStack, Suspended, Depth > 0, NEW f, IsFrame(f), ~Pending(f), Go(f)
  PROVE  Settled(0)
BY PushBelow DEF Go

\* After a call the stack owes what the callee owes.
LEMMA CallSettles ==
  ASSUME IsStack, Suspended, Depth > 0, NEW f, NEW g,
         IsFrame(f), IsFrame(g), ~Pending(f), Call(f, g)
  PROVE  Settled(IF Pending(g) THEN 1 ELSE 0)
<1>0. Depth \in Nat BY StackFacts
<1>1. PICK S : Below \in Seq(S) BY StackFacts
<1>2. Below \in Seq(S \cup {f, g}) BY <1>1
<1>3. stack' = Append(Append(Below, f), g) BY DEF Call
<1>4. /\ stack' \in Seq(S \cup {f, g})
      /\ Len(stack') = Depth + 1
      /\ stack'[Depth + 1] = g
      /\ stack'[Depth] = f 
      /\ \A k \in 1..(Depth - 1) : stack'[k] = Below[k]
  BY <1>0, <1>2, <1>3, StackFacts
<1>5. \A k \in 1..(Depth - 1) : stack'[k] = stack[k] BY <1>4, StackFacts
<1>6. \A k \in 1..(Depth + 1) : IsFrame(stack'[k]) 
  BY <1>0, <1>4, <1>5 DEF IsStack
<1>7. IsStack' BY <1>4, <1>6 DEF IsStack, Depth
<1>8. Suspended' BY <1>4, <1>5, <1>0 DEF Suspended, Depth
<1>. QED BY <1>0, <1>4, <1>7, <1>8 DEF Settled, Load, Depth, Top

\* A call that returns or raises leaves a caller that owes no call.
LEMMA LeaveSettles ==
  ASSUME IsStack, Suspended, Depth > 0, NEW paths, NEW how, NEW e,
         Leave(paths, how, e)
  PROVE  Settled(0)
<1>0. Depth \in Nat BY StackFacts
<1>1. PICK S : Below \in Seq(S) BY StackFacts
<1>2. stack' = Below BY DEF Leave
<1>3. Len(stack') = Depth - 1 /\ \A k \in 1..(Depth - 1) : stack'[k] = stack[k]
  BY <1>2, StackFacts
<1>4. IsStack' BY <1>0, <1>1, <1>2, <1>3 DEF IsStack, Depth
<1>5. Suspended' BY <1>0, <1>3 DEF Suspended, Depth
<1>6. Load' = 0 BY <1>0, <1>3 DEF Suspended, Load, Top, Depth
<1>. QED BY <1>4, <1>5, <1>6 DEF Settled

\* The frames the evaluator makes have their shape and their kind.
LEMMA FreshFrames ==
  ASSUME NEW k, NEW n, NEW p, NEW x, NEW y
  PROVE  /\ IsFrame(Frame(k, n, p)) /\ Frame(k, n, p).kind = k
            /\ Frame(k, n, p).pc = "start"
         /\ IsFrame(ListFrame(n, p, x, y))
         /\ ListFrame(n, p, x, y).kind = "list"
         /\ IsFrame(StmtFrame(n, x, y)) /\ StmtFrame(n, x, y).kind = "stmt"
         /\ IsFrame(ScopeFrame(k, n, x, y)) /\ ScopeFrame(k, n, x, y).kind = k
BY DEF IsFrame, FrameFields, Frame, ListFrame, StmtFrame, ScopeFrame

\* A frame that owes no call.
Idle(f) == IsFrame(f) /\ ~Pending(f)

\* A statement, a list and every wrapper but invoke and replace start idle.
LEMMA StmtIdle ==
  ASSUME NEW n, NEW s, NEW q
  PROVE  Idle(StmtFrame(n, s, q))
BY FreshFrames DEF Idle, Pending

\* A list starts idle, the one of an ERR trap too.
LEMMA ListIdle ==
  ASSUME NEW n, NEW list, NEW paths, NEW q
  PROVE  /\ Idle(ListFrame(n, list, paths, q))
         /\ Idle([ListFrame(n, list, paths, q) EXCEPT !.mute = 1])
BY DEF Idle, Pending, IsFrame, FrameFields, ListFrame, Frame

\* So does every frame of another kind than invoke and replace.
LEMMA FrameIdle ==
  ASSUME NEW k, NEW n, NEW p, k \notin {"invoke", "replace"}
  PROVE  Idle(Frame(k, n, p))
BY FreshFrames DEF Idle, Pending

\* A while loop starts idle.
LEMMA LoopIdle ==
  ASSUME NEW n, NEW o, NEW pc
  PROVE  Idle([Frame("while", n, <<>>) EXCEPT !.out = o, !.pc = pc])
BY DEF Idle, Pending, IsFrame, FrameFields, Frame

\* So do a function call and the children.
LEMMA ScopeIdle ==
  ASSUME NEW k, NEW n, NEW s, NEW t, NEW l, k \notin {"invoke", "replace"}
  PROVE  /\ Idle(ScopeFrame(k, n, s, t))
         /\ Idle([ScopeFrame(k, n, s, t) EXCEPT !.list = l])
BY DEF Idle, Pending, IsFrame, FrameFields, ScopeFrame, Frame

-------------------------------------------------------------------------------
(* The actions that make no call and reserve no step for one. *)

\* At most one step of the budget is spent, and never one it does not have.
Spent ==
  \/ executedSteps' = executedSteps
  \/ executedSteps < MaxExecutionSteps /\ executedSteps' = executedSteps + 1
\* What all actions do but the ones that lead to a handler.
Plain == Settled(0) /\ Spent /\ UNCHANGED <<calls, lateCalls, cancelled>>

\* CallSettles for an idle callee.
LEMMA CallIdle ==
  ASSUME IsStack, Suspended, Depth > 0, NEW f, NEW g, Idle(f), Idle(g),
         Call(f, g)
  PROVE  Settled(0)
BY CallSettles DEF Idle

\* GoSettles for an idle frame.
LEMMA GoIdle ==
  ASSUME IsStack, Suspended, Depth > 0, NEW f, Idle(f), Go(f)
  PROVE  Settled(0)
BY GoSettles DEF Idle

\* A statement that hands its path to an idle frame.
LEMMA EvaluateIdle ==
  ASSUME IsStack, Suspended, Depth > 0, Top.kind = "stmt", NEW g, Idle(g),
         Evaluate(g)
  PROVE  Settled(0)
<1>1. Idle([Popped EXCEPT !.pc = "call"])
  BY StackFacts DEF Popped, Idle, Pending, IsFrame, FrameFields
<1>. QED BY <1>1, CallIdle DEF Evaluate

\* A statement that asks for a command substitution.
LEMMA RequestIdle ==
  ASSUME IsStack, Suspended, Depth > 0, Top.kind = "stmt", NEW x, NEW y,
         Request(x, y)
  PROVE  Settled(0)
<1>1. Idle([Popped EXCEPT !.pc = "resume"])
  BY StackFacts DEF Popped, Idle, Pending, IsFrame, FrameFields
<1>. QED BY <1>1, CallIdle, ScopeIdle DEF Request

\* evaluateStatements and the failure effects of its statements.
LEMMA ListsPlain ==
  ASSUME IsStack, Suspended, Lists
  PROVE  Plain
<1>. USE StackFacts
     DEF Running, Returned, OnTop, Correlates, CorrelateDone, Plain, Spent,
         Internal, Quietly, NoCall, FreeStep
<1>1. CASE ListNext
  BY <1>1, GoSettles
  DEF ListNext, IsFrame, FrameFields, Pending
<1>2. CASE ListFinish
  BY <1>2, LeaveSettles
  DEF ListFinish, Return
<1>3. CASE ListSkip
  BY <1>3, GoSettles
  DEF ListSkip, IsFrame, FrameFields, Pending
<1>4. CASE ListEvaluate
  <2>1. Depth > 0 /\ Top.kind = "list" BY <1>4 DEF ListEvaluate
  <2>2. Idle([Top EXCEPT !.todo = Rest(@), !.pc = "call"])
    BY <2>1, <1>4 DEF Idle, Pending, IsFrame, FrameFields, ListEvaluate
  <2>3. Settled(0)
    BY <1>4, <2>1, <2>2, CallIdle, StmtIdle DEF ListEvaluate
  <2>. QED BY <1>4, <2>3 DEF ListEvaluate
<1>5. CASE ListEvaluated
  BY <1>5, GoSettles
  DEF ListEvaluated, IsFrame, FrameFields, Pending
<1>6. CASE EffectsSuppressed
  BY <1>6, GoSettles
  DEF EffectsSuppressed, IsFrame, FrameFields, Pending
<1>7. CASE EffectsPass
  BY <1>7, GoSettles
  DEF EffectsPass, IsFrame, FrameFields, Pending
<1>8. CASE EffectsFork
  BY <1>8, GoSettles
  DEF EffectsFork, PayForResolving, Pay, BeRefused, CanReserve, IsFrame,
      FrameFields, Pending
<1>9. CASE EffectsFailure
  <2>1. Depth > 0 /\ Top.kind = "list" BY <1>9 DEF EffectsFailure
  <2>2. /\ Idle([Top EXCEPT !.work = Rest(@)])
        /\ Idle([Top EXCEPT !.work = Rest(@),
                            !.out = Append(@, AfterFailure(First(Top.work)))])
    BY <2>1, <1>9 DEF Idle, Pending, IsFrame, FrameFields, EffectsFailure
  <2>3. Settled(0)
    BY <1>9, <2>1, <2>2, CallIdle, ListIdle, GoIdle DEF EffectsFailure
  <2>. QED BY <1>9, <2>3 DEF EffectsFailure
<1>10. CASE EffectsTrapped
  BY <1>10, GoSettles
  DEF EffectsTrapped, IsFrame, FrameFields, Pending
<1>11. CASE EffectsDone
  BY <1>11, GoSettles
  DEF EffectsDone, IsFrame, FrameFields, Pending
<1>12. CASE CorrelatePass
  BY <1>12, GoSettles
  DEF CorrelatePass, IsFrame, FrameFields, Pending
<1>13. CASE CorrelateFork
  BY <1>13, GoSettles
  DEF CorrelateFork, PayForResolving, Pay, BeRefused, CanReserve, IsFrame,
      FrameFields, Pending
<1>14. CASE ListStatementDone
  BY <1>14, GoSettles, LeaveSettles
  DEF ListStatementDone, Raise, IsFrame, FrameFields, Pending
<1>. QED BY <1>1, <1>2, <1>3, <1>4, <1>5, <1>6, <1>7, <1>8, <1>9, <1>10,
         <1>11, <1>12, <1>13, <1>14 DEF Lists

\* evaluateStatement, and the statements that are not commands.
LEMMA StatementsPlain ==
  ASSUME IsStack, Suspended, Statements
  PROVE  Plain
<1>. USE StackFacts
     DEF Running, Returned, OnTop, Correlates, CorrelateDone, Plain, Spent,
         Internal, Quietly, NoCall, FreeStep
<1>1. CASE StmtCancelled
  BY <1>1, LeaveSettles
  DEF StmtCancelled, Raise
<1>2. CASE StmtEvaluated
  BY <1>2, GoSettles
  DEF StmtEvaluated, IsFrame, FrameFields, Pending
<1>3. CASE StmtSubstituted
  BY <1>3, GoSettles
  DEF StmtSubstituted, IsFrame, FrameFields, Pending
<1>4. CASE StmtResume
  BY <1>4, GoSettles
  DEF StmtResume, IsFrame, FrameFields, Pending
<1>5. CASE StmtFinish
  BY <1>5, LeaveSettles
  DEF StmtFinish, Return
<1>6. CASE EvaluateUnsupported
  BY <1>6, GoSettles
  DEF EvaluateUnsupported, Yield, StmtReady, Popped, IsFrame, FrameFields,
      Pending
<1>7. CASE DeclareFunction
  BY <1>7, GoSettles
  DEF DeclareFunction, Yield, StmtReady, Popped, IsFrame, FrameFields, Pending
<1>8. CASE EvaluateAssignment
  BY <1>8, GoSettles
  DEF EvaluateAssignment, Yield, StmtReady, Popped, Pay, CanReserve, IsFrame,
      FrameFields, Pending
<1>9. CASE EvaluateBlock
  BY <1>9, EvaluateIdle, ListIdle DEF EvaluateBlock, StmtReady
<1>10. CASE EvaluateCompound
  BY <1>10, EvaluateIdle, FrameIdle DEF EvaluateCompound, StmtReady, FrameOf
<1>11. CASE EvaluateWhile
  BY <1>11, EvaluateIdle, LoopIdle DEF EvaluateWhile, StmtReady
<1>12. CASE RequestForItems
  BY <1>12, RequestIdle DEF RequestForItems, StmtReady
<1>13. CASE EvaluateFor
  BY <1>13, EvaluateIdle, FrameIdle DEF EvaluateFor, StmtReady
<1>14. CASE EvaluateChild
  BY <1>14, EvaluateIdle, ScopeIdle DEF EvaluateChild, StmtReady
<1>15. CASE EvaluatePipeline
  BY <1>15, EvaluateIdle, ScopeIdle DEF EvaluatePipeline, StmtReady
<1>. QED BY <1>1, <1>2, <1>3, <1>4, <1>5, <1>6, <1>7, <1>8, <1>9, <1>10,
         <1>11, <1>12, <1>13, <1>14, <1>15 DEF Statements

\* The commands that call no handler, and the ends of those that did.
LEMMA QuietCommandsPlain ==
  ASSUME IsStack, Suspended, 
         \/ CallRefused
         \/ RequestSubstitution
         \/ CallFunction
         \/ CallControl
         \/ CallBuiltin
         \/ CallEval
         \/ CallSource
         \/ CallShell
         \/ InvokeUnregistered
         \/ WrapperCancelled
         \/ WrapperReturn
  PROVE  Plain
<1>. USE StackFacts
     DEF Running, Returned, OnTop, Correlates, CorrelateDone, Plain, Spent,
         Internal, Quietly, NoCall, FreeStep
<1>1. CASE CallRefused
  BY <1>1, GoSettles
  DEF CallRefused, Yield, StmtReady, Popped, BeRefused, IsFrame, FrameFields,
      Pending
<1>2. CASE RequestSubstitution
  BY <1>2, RequestIdle DEF RequestSubstitution, StmtReady
<1>3. CASE CallFunction
  BY <1>3, EvaluateIdle, ScopeIdle
  DEF CallFunction, CallReady, StmtReady, Pay, CanReserve
<1>4. CASE CallControl
  BY <1>4, GoSettles
  DEF CallControl, CallReady, Yield, StmtReady, Popped, Pay, CanReserve,
      IsFrame, FrameFields, Pending
<1>5. CASE CallBuiltin
  BY <1>5, GoSettles
  DEF CallBuiltin, CallReady, Yield, StmtReady, Popped, Pay, CanReserve,
      IsFrame, FrameFields, Pending
<1>6. CASE CallEval
  BY <1>6, EvaluateIdle, FrameIdle
  DEF CallEval, CallReady, StmtReady, Pay, CanReserve
<1>7. CASE CallSource
  BY <1>7, EvaluateIdle, FrameIdle
  DEF CallSource, CallReady, StmtReady, Pay, CanReserve
<1>8. CASE CallShell
  BY <1>8, EvaluateIdle, ScopeIdle
  DEF CallShell, CallReady, StmtReady, Pay, CanReserve
<1>9. CASE InvokeUnregistered
  BY <1>9, LeaveSettles
  DEF InvokeUnregistered, Invoking, Return
<1>10. CASE WrapperCancelled
  BY <1>10, LeaveSettles
  DEF WrapperCancelled, Return
<1>11. CASE WrapperReturn
  BY <1>11, LeaveSettles
  DEF WrapperReturn, Return
<1>. QED BY <1>1, <1>2, <1>3, <1>4, <1>5, <1>6, <1>7, <1>8, <1>9, <1>10, <1>11

\* Negations, branches, loops and pipelines.
LEMMA CompoundsPlain ==
  ASSUME IsStack, Suspended, Compounds
  PROVE  Plain
<1>. USE StackFacts
     DEF Running, Returned, OnTop, Correlates, CorrelateDone, Plain, Spent,
         Internal, Quietly, NoCall, FreeStep
<1>1. CASE NotStart
  <2>1. Depth > 0 /\ Top.kind = "not" BY <1>1 DEF NotStart
  <2>2. Idle([Top EXCEPT !.pc = "call"])
    BY <2>1, <1>1 DEF Idle, Pending, IsFrame, FrameFields, NotStart
  <2>3. Idle(StmtFrame(Top.node.body[1], Subject.state, 1))
    BY StmtIdle, ListIdle, FrameIdle
  <2>4. Settled(0)
    BY <1>1, <2>1, <2>2, CallIdle, <2>3 DEF NotStart
  <2>. QED BY <1>1, <2>4 DEF NotStart
<1>2. CASE NotEvaluated
  BY <1>2, GoSettles
  DEF NotEvaluated, IsFrame, FrameFields, Pending
<1>3. CASE NotFinish
  BY <1>3, LeaveSettles
  DEF NotFinish, Return
<1>4. CASE ConditionStart
  <2>1. Depth > 0 /\ Top.kind \in {"logical", "if"} BY <1>4 DEF ConditionStart
  <2>2. /\ Idle([Top EXCEPT !.pc = "call", !.todo = <<>>])
        /\ Idle([Top EXCEPT !.pc = "branch", !.todo = <<>>])
    BY <2>1, <1>4 DEF Idle, Pending, IsFrame, FrameFields, ConditionStart
  <2>3. /\ Idle(StmtFrame(Top.node.cond[1], Subject.state, 1))
        /\ Idle(ListFrame(Top.node, Top.node.body, Top.todo, 0))
        /\ Idle(ListFrame(Top.node, Top.node.cond, Top.todo, 1))
    BY StmtIdle, ListIdle, FrameIdle
  <2>4. Settled(0)
    BY <1>4, <2>1, <2>2, CallIdle, <2>3 DEF ConditionStart
  <2>. QED BY <1>4, <2>4 DEF ConditionStart
<1>5. CASE ConditionEvaluated
  BY <1>5, GoSettles
  DEF ConditionEvaluated, IsFrame, FrameFields, Pending
<1>6. CASE BranchEnded
  BY <1>6, GoSettles
  DEF BranchEnded, Branching, Popped, IsFrame, FrameFields, Pending
<1>7. CASE BranchResolve
  BY <1>7, GoSettles
  DEF BranchResolve, Branching, Popped, PayForResolving, Pay, BeRefused,
      CanReserve, IsFrame, FrameFields, Pending
<1>8. CASE BranchStopped
  BY <1>8, GoSettles
  DEF BranchStopped, Deciding, Branching, Chosen, IsFrame, FrameFields, Pending
<1>9. CASE LogicalBranch
  <2>1. Depth > 0 /\ Top.kind = "logical" BY <1>9 DEF LogicalBranch, Deciding, Branching
  <2>2. /\ Idle(Chosen)
        /\ Idle([Chosen EXCEPT !.done = Append(@, Choice)])
    BY <2>1, <1>9
    DEF Idle, Pending, IsFrame, FrameFields, Chosen, LogicalBranch, Deciding,
        Branching
  <2>3. Settled(0)
    BY <1>9, <2>1, <2>2, CallIdle, StmtIdle, GoIdle
    DEF LogicalBranch, Deciding, Branching
  <2>. QED BY <1>9, <2>3 DEF LogicalBranch, Deciding, Branching
<1>10. CASE IfBranch
  <2>1. Depth > 0 /\ Top.kind = "if" BY <1>10 DEF IfBranch, Deciding, Branching
  <2>2. /\ Idle(Chosen)
        /\ Idle([Chosen EXCEPT
                    !.done = Append(@, [Choice EXCEPT
                                          !.state = SetExit(@, "zero")])])
    BY <2>1, <1>10
    DEF Idle, Pending, IsFrame, FrameFields, Chosen, IfBranch, Deciding,
        Branching
  <2>3. /\ Idle(ListFrame(Top.node, Top.node.body, <<Choice>>, 0))
        /\ Idle(Frame("if", Top.node.els[1], <<Completed(Choice.state)>>))
    BY StmtIdle, ListIdle, FrameIdle
  <2>4. Settled(0)
    BY <1>10, <2>1, <2>2, CallIdle, <2>3, GoIdle
    DEF IfBranch, Deciding, Branching
  <2>. QED BY <1>10, <2>4 DEF IfBranch, Deciding, Branching
<1>11. CASE BranchReturned
  BY <1>11, GoSettles
  DEF BranchReturned, IsFrame, FrameFields, Pending
<1>12. CASE BranchFinish
  BY <1>12, LeaveSettles
  DEF BranchFinish, Branching, Return
<1>13. CASE WhileCondition
  <2>1. Depth > 0 /\ Top.kind = "while" BY <1>13 DEF WhileCondition
  <2>2. Idle([Top EXCEPT !.pc = "call", !.out = <<>>])
    BY <2>1, <1>13 DEF Idle, Pending, IsFrame, FrameFields, WhileCondition
  <2>3. Settled(0)
    BY <1>13, <2>1, <2>2, CallIdle, ListIdle, LeaveSettles
    DEF WhileCondition, Return
  <2>. QED BY <1>13, <2>3 DEF WhileCondition
<1>14. CASE WhileBranch
  BY <1>14, GoSettles
  DEF WhileBranch, Deciding, Branching, Chosen, IsFrame, FrameFields, Pending
<1>15. CASE WhileBody
  <2>1. Depth > 0 /\ Top.kind = "while" BY <1>15 DEF WhileBody
  <2>2. Idle([Top EXCEPT !.pc = "merge", !.out = <<>>])
    BY <2>1, <1>15 DEF Idle, Pending, IsFrame, FrameFields, WhileBody
  <2>3. Settled(0)
    BY <1>15, <2>1, <2>2, CallIdle, ListIdle, LeaveSettles DEF WhileBody, Return
  <2>. QED BY <1>15, <2>3 DEF WhileBody
<1>16. CASE LoopBodyEvaluated
  BY <1>16, GoSettles
  DEF LoopBodyEvaluated, IsFrame, FrameFields, Pending
<1>17. CASE LoopCollect
  BY <1>17, GoSettles
  DEF LoopCollect, Chosen, IsFrame, FrameFields, Pending
<1>18. CASE LoopCollected
  BY <1>18, GoSettles
  DEF LoopCollected, IsFrame, FrameFields, Pending
<1>19. CASE ForItem
  BY <1>19, GoSettles
  DEF ForItem, Popped, IsFrame, FrameFields, Pending
<1>20. CASE ForBody
  <2>1. Depth > 0 /\ Top.kind = "for" BY <1>20 DEF ForBody
  <2>2. Idle([Top EXCEPT !.pc = "merge", !.out = <<>>])
    BY <2>1, <1>20 DEF Idle, Pending, IsFrame, FrameFields, ForBody
  <2>3. Settled(0)
    BY <1>20, <2>1, <2>2, CallIdle, ListIdle, LeaveSettles DEF ForBody, Return
  <2>. QED BY <1>20, <2>3 DEF ForBody
<1>21. CASE ForFinish
  BY <1>21, LeaveSettles
  DEF ForFinish, Return
<1>22. CASE PipeLeft
  <2>1. Depth > 0 /\ Top.kind = "pipe" BY <1>22 DEF PipeLeft
  <2>2. Idle([Top EXCEPT !.todo = <<>>, !.pc = "call"])
    BY <2>1, <1>22 DEF Idle, Pending, IsFrame, FrameFields, PipeLeft
  <2>3. Idle(StmtFrame(Top.node.cond[1], Top.base, 1))
    BY StmtIdle, ListIdle, FrameIdle
  <2>4. Settled(0)
    BY <1>22, <2>1, <2>2, CallIdle, <2>3 DEF PipeLeft
  <2>. QED BY <1>22, <2>4 DEF PipeLeft
<1>23. CASE PipeSideEvaluated
  BY <1>23, GoSettles
  DEF PipeSideEvaluated, IsFrame, FrameFields, Pending
<1>24. CASE PipeSideResolved
  BY <1>24, GoSettles
  DEF PipeSideResolved, IsFrame, FrameFields, Pending
<1>25. CASE PipeNoRight
  BY <1>25, GoSettles
  DEF PipeNoRight, Popped, IsFrame, FrameFields, Pending
<1>26. CASE PipeRight
  <2>1. Depth > 0 /\ Top.kind = "pipe" BY <1>26 DEF PipeRight
  <2>2. Idle([Top EXCEPT !.pc = "call", !.idx = 2])
    BY <2>1, <1>26 DEF Idle, Pending, IsFrame, FrameFields, PipeRight
  <2>3. Idle(StmtFrame(Top.node.body[1], MergeChild(Top.base, Subject.state), 1))
    BY StmtIdle, ListIdle, FrameIdle
  <2>4. Settled(0)
    BY <1>26, <2>1, <2>2, CallIdle, <2>3 DEF PipeRight
  <2>. QED BY <1>26, <2>4 DEF PipeRight
<1>27. CASE PipeMerge
  BY <1>27, GoSettles
  DEF PipeMerge, Chosen, IsFrame, FrameFields, Pending
<1>28. CASE PipeNext
  BY <1>28, GoSettles
  DEF PipeNext, Popped, IsFrame, FrameFields, Pending
<1>29. CASE PipeFinish
  BY <1>29, LeaveSettles
  DEF PipeFinish, Return
<1>. QED BY <1>1, <1>2, <1>3, <1>4, <1>5, <1>6, <1>7, <1>8, <1>9, <1>10,
         <1>11, <1>12, <1>13, <1>14, <1>15, <1>16, <1>17, <1>18, <1>19, <1>20,
         <1>21, <1>22, <1>23, <1>24, <1>25, <1>26, <1>27, <1>28, <1>29 DEF
         Compounds

\* Child shells, their EXIT traps and their merge.
LEMMA ChildProcessesPlain ==
  ASSUME IsStack, Suspended, ChildProcesses
  PROVE  Plain
<1>. USE StackFacts
     DEF Running, Returned, OnTop, Correlates, CorrelateDone, Plain, Spent,
         Internal, Quietly, NoCall, FreeStep
<1>1. CASE ChildStart
  <2>1. Depth > 0 /\ Top.kind \in Children BY <1>1 DEF ChildStart, InChild
  <2>2. Idle([Top EXCEPT !.todo = <<>>, !.pc = "call"])
    BY <2>1, <1>1
    DEF Idle, Pending, IsFrame, FrameFields, ChildStart, InChild, Children
  <2>3. /\ Idle(StmtFrame(Top.node.body[1], Subject.state, 0))
        /\ Idle(ListFrame(Top.node, Top.node.body, Top.todo, 0))
    BY StmtIdle, ListIdle, FrameIdle
  <2>4. Settled(0)
    BY <1>1, <2>1, <2>2, CallIdle, <2>3 DEF ChildStart, InChild
  <2>. QED BY <1>1, <2>4 DEF ChildStart, InChild
<1>2. CASE ChildCancelled
  BY <1>2, LeaveSettles
  DEF ChildCancelled, InChild, Return
<1>3. CASE InputSubstitution
  BY <1>3, LeaveSettles
  DEF InputSubstitution, InChild, Pay, BeRefused, CanReserve, Return
<1>4. CASE ChildEvaluated
  BY <1>4, GoSettles
  DEF ChildEvaluated, Children, IsFrame, FrameFields, Pending
<1>5. CASE BackgroundResolved
  BY <1>5, GoSettles
  DEF BackgroundResolved, IsFrame, FrameFields, Pending
<1>6. CASE ExitTrapSkip
  BY <1>6, GoSettles
  DEF ExitTrapSkip, InChild, Chosen, Children, IsFrame, FrameFields, Pending
<1>7. CASE ExitTrapRun
  <2>1. Depth > 0 /\ Top.kind \in Children BY <1>7 DEF ExitTrapRun, InChild
  <2>2. Idle(Top)
    BY <2>1, <1>7
    DEF Idle, Pending, IsFrame, FrameFields, ExitTrapRun, InChild, Children
  <2>3. Settled(0)
    BY <1>7, <2>1, <2>2, CallIdle, ListIdle DEF ExitTrapRun, InChild
  <2>. QED BY <1>7, <2>3 DEF ExitTrapRun, InChild
<1>8. CASE ExitTrapReturned
  BY <1>8, GoSettles
  DEF ExitTrapReturned, Children, Chosen, IsFrame, FrameFields, Pending
<1>9. CASE ExitTrapsDone
  BY <1>9, GoSettles
  DEF ExitTrapsDone, InChild, Children, IsFrame, FrameFields, Pending
<1>10. CASE ChildMerge
  BY <1>10, GoSettles
  DEF ChildMerge, InChild, Chosen, Children, IsFrame, FrameFields, Pending
<1>11. CASE ChildFinish
  BY <1>11, LeaveSettles
  DEF ChildFinish, InChild, Return, Raise
<1>. QED BY <1>1, <1>2, <1>3, <1>4, <1>5, <1>6, <1>7, <1>8, <1>9, <1>10, <1>11
         DEF ChildProcesses

\* Errors on their way to Execute.
LEMMA UnwindingPlain ==
  ASSUME IsStack, Suspended, Unwinding
  PROVE  Plain
<1>. USE StackFacts
     DEF Running, Returned, OnTop, Correlates, CorrelateDone, Plain, Spent,
         Internal, Quietly, NoCall, FreeStep
<1>1. CASE UnwindPaths
  BY <1>1, LeaveSettles
  DEF UnwindPaths, Raised, Raise
<1>2. CASE UnwindCommand
  BY <1>2, LeaveSettles
  DEF UnwindCommand, Raised, Raise
<1>3. CASE UnwindPipe
  BY <1>3, LeaveSettles
  DEF UnwindPipe, Raised, Raise
<1>4. CASE UnwindChild
  BY <1>4, GoSettles
  DEF UnwindChild, Raised, Children, IsFrame, FrameFields, Pending
<1>5. CASE UnwindTraps
  BY <1>5, GoSettles
  DEF UnwindTraps, Raised, Children, IsFrame, FrameFields, Pending
<1>. QED BY <1>1, <1>2, <1>3, <1>4, <1>5 DEF Unwinding

-------------------------------------------------------------------------------
(* The actions on the way to a handler. *)

\* evaluateExpandedCommand pays for the call and owes it from then on.
LEMMA ReservingSettles ==
  ASSUME IsStack, Suspended, CallExec \/ CallCommand
  PROVE  Settled(1) /\ Pay /\ UNCHANGED <<calls, lateCalls, cancelled>>
<1>. DEFINE caller  == [Popped EXCEPT !.pc = "call"]
            replace == [Frame("replace", Top.node, <<Subject>>) EXCEPT
                          !.base = SnapshotForUnknownFailure(Subject.state)]
            invoke  == Frame("invoke", Top.node, <<Subject>>)
<1>1. Depth > 0 /\ Top.kind = "stmt"
  BY DEF CallExec, CallCommand, CallReady, StmtReady, Running, OnTop
<1>2. IsFrame(caller) /\ ~Pending(caller)
  BY <1>1, StackFacts DEF Popped, IsFrame, FrameFields, Pending
<1>3. IsFrame(replace) /\ Pending(replace)
  BY DEF IsFrame, FrameFields, Frame, Pending
<1>4. IsFrame(invoke) /\ Pending(invoke)
  BY DEF IsFrame, FrameFields, Frame, Pending
<1>5. Call(caller, replace) \/ Call(caller, invoke)
  BY DEF CallExec, CallCommand, Evaluate
<1>6. Settled(1) BY <1>1, <1>2, <1>3, <1>4, <1>5, CallSettles
<1>. QED BY <1>6 DEF CallExec, CallCommand, Quietly, NoCall

\* executeReplace passes the debt on to invokeCommand.
LEMMA WrapperSettles ==
  ASSUME IsStack, Suspended, WrapperStart
  PROVE  Settled(Load) /\ UNCHANGED <<executedSteps, calls, lateCalls, cancelled>>
<1>. DEFINE caller == [Top EXCEPT !.pc = "call"]
            invoke == Frame("invoke", Top.node, Top.todo)
<1>1. Depth > 0 /\ Top.pc = "start" /\ Top.kind \in {"replace"} \cup Checking
  BY DEF WrapperStart
<1>2. IsFrame(caller) /\ ~Pending(caller)
  BY <1>1, StackFacts DEF IsFrame, FrameFields, Pending
<1>3. Settled(Load)
  <2>1. CASE Top.kind = "replace"
    <3>1. Load = 1 BY <1>1, <2>1 DEF Load, Pending
    <3>2. IsFrame(invoke) /\ Pending(invoke)
      BY DEF IsFrame, FrameFields, Frame, Pending
    <3>3. Call(caller, invoke) BY <2>1 DEF WrapperStart
    <3>. QED BY <1>1, <1>2, <3>1, <3>2, <3>3, CallSettles
  <2>2. CASE Top.kind = "function"
    <3>1. Load = 0 BY <1>1, <2>2 DEF Load, Pending
    <3>2. Call(caller, StmtFrame(Top.list[1], Subject.state, 0))
      BY <2>2 DEF WrapperStart
    <3>. QED BY <1>1, <1>2, <3>1, <3>2, StmtIdle, CallIdle DEF Idle
  <2>3. CASE Top.kind \in {"eval", "source"}
    <3>1. Load = 0 BY <1>1, <2>3 DEF Load, Pending
    <3>2. Call(caller, ListFrame(Top.node, Top.node.body, Top.todo, 0))
      BY <2>3 DEF WrapperStart
    <3>. QED BY <1>1, <1>2, <3>1, <3>2, ListIdle, CallIdle DEF Idle
  <2>. QED BY <1>1, <2>1, <2>2, <2>3 DEF Checking
<1>. QED BY <1>3 DEF WrapperStart, Internal, FreeStep, Quietly, NoCall

\* invokeCommand calls the handler.
HandlerStart == InvokeHandler \/ InvokeFailing \/ InvokeDelegating

\* A handler that starts settles the debt: only a delegate had none.
LEMMA HandlerSettles ==
  ASSUME IsStack, Suspended, HandlerStart
  PROVE  /\ Settled(0)
         /\ executedSteps' = executedSteps
         /\ cancelled => cancelled'
         /\ calls' = calls + Load
         /\ lateCalls' = IF cancelled THEN lateCalls + Load ELSE lateCalls
<1>1. Depth > 0 /\ Top.pc = "start" /\ Top.kind \in {"invoke", "delegate"}
  BY DEF HandlerStart, InvokeHandler, InvokeFailing, InvokeDelegating, Invoking
<1>2. Load = IF Top.kind = "invoke" THEN 1 ELSE 0
  BY <1>1 DEF Load, Pending
<1>3. Settled(0)
  <2>1. CASE InvokeHandler BY <1>1, <2>1, LeaveSettles DEF InvokeHandler, Return
  <2>2. CASE InvokeFailing BY <1>1, <2>2, LeaveSettles DEF InvokeFailing, Raise
  <2>3. CASE InvokeDelegating
    <3>1. Idle([Top EXCEPT !.pc = "call"])
      BY <1>1, StackFacts DEF Idle, Pending, IsFrame, FrameFields
    <3>. QED BY <1>1, <2>3, <3>1, FrameIdle, CallIdle DEF InvokeDelegating
  <2>. QED BY <2>1, <2>2, <2>3 DEF HandlerStart
<1>4. HandlerStarts /\ executedSteps' = executedSteps
  BY DEF HandlerStart, InvokeHandler, InvokeFailing, InvokeDelegating, FreeStep
<1>5. cancelled => cancelled'
  BY Zenon DEF HandlerStart, InvokeHandler, InvokeFailing, InvokeDelegating
<1>6. /\ calls' = calls + Load
      /\ lateCalls' = IF cancelled THEN lateCalls + Load ELSE lateCalls
  BY <1>2, <1>4 DEF HandlerStarts
<1>. QED BY <1>3, <1>4, <1>5, <1>6

\* Execute returns with the main frame alone on the stack.
LEMMA HaltPlain ==
  ASSUME IsStack, Suspended, NotStarted \/ Finished \/ Failed
  PROVE  Plain
<1>1. Depth > 0 /\ Top.kind = "main"
  BY DEF NotStarted, Finished, Failed, InChild, Raised
<1>2. stack' = <<Top>> /\ UNCHANGED <<executedSteps, calls, lateCalls, cancelled>>
  BY DEF NotStarted, Finished, Failed, Halt, FreeStep, NoCall
<1>3. stack' \in Seq({Top}) /\ Len(stack') = 1 /\ stack'[1] = Top BY <1>2
<1>4. IsStack' BY <1>1, <1>3, StackFacts DEF IsStack, Depth
<1>5. Suspended' /\ Load' = 0
  BY <1>1, <1>3 DEF Suspended, Load, Pending, Depth, Top
<1>. QED BY <1>2, <1>4, <1>5 DEF Plain, Settled, Spent

-------------------------------------------------------------------------------
(* The inductive invariant and the theorems. *)

\* The bounds, with the call that is owed counted as made.
CallsInv ==
  /\ IsStack /\ Suspended
  /\ executedSteps \in Nat /\ calls \in Nat /\ lateCalls \in Nat
  /\ calls + Load <= executedSteps
  /\ executedSteps <= MaxExecutionSteps
  /\ IF cancelled THEN lateCalls + Load <= 1 ELSE lateCalls = 0

\* At most one call is owed.
LEMMA LoadType == Load \in {0, 1}
BY DEF Load

\* CallsInv holds of a simulation that has not started.
LEMMA InitCallsInv == Init => CallsInv
<1>. SUFFICES ASSUME Init PROVE CallsInv
  OBVIOUS
<1>1. PICK n : stack = <<Frame("main", n, <<Completed(NewState)>>)>>
  BY DEF Init
<1>. DEFINE f == Frame("main", n, <<Completed(NewState)>>)
<1>2. Idle(f) BY FrameIdle
<1>3. stack \in Seq({f}) /\ Len(stack) = 1 /\ stack[1] = f BY <1>1
<1>4. IsStack /\ Suspended /\ Load = 0
  BY <1>2, <1>3 DEF IsStack, Suspended, Load, Idle, Depth, Top
<1>. QED BY <1>4, EvaluatorAssumption DEF CallsInv, Init

\* Every step of the evaluator, and a cancellation at any time, preserves it.
LEMMA NextCallsInv == CallsInv /\ [Next]_vars => CallsInv'
<1>. SUFFICES ASSUME CallsInv, [Next]_vars PROVE CallsInv'
  OBVIOUS
<1>. USE LoadType, EvaluatorAssumption DEF CallsInv
<1>1. CASE Plain
  BY <1>1 DEF Plain, Settled, Spent
<1>2. CASE Lists BY <1>1, <1>2, ListsPlain
<1>3. CASE Statements BY <1>1, <1>3, StatementsPlain
<1>4. CASE Commands
  <2>1. CASE CallExec \/ CallCommand
    BY <2>1, ReservingSettles DEF Settled, Pay, CanReserve
  <2>2. CASE WrapperStart BY <2>2, WrapperSettles DEF Settled
  <2>3. CASE HandlerStart
    <3>1. /\ Settled(0)
          /\ executedSteps' = executedSteps
          /\ cancelled => cancelled'
          /\ calls' = calls + Load
          /\ lateCalls' = IF cancelled THEN lateCalls + Load ELSE lateCalls
      BY <2>3, HandlerSettles
    <3>. QED BY <3>1 DEF Settled
  <2>4. CASE \/ CallRefused \/ RequestSubstitution \/ CallFunction
             \/ CallControl \/ CallBuiltin \/ CallEval \/ CallSource
             \/ CallShell \/ InvokeUnregistered \/ WrapperCancelled
             \/ WrapperReturn
    BY <1>1, <2>4, QuietCommandsPlain
  <2>. QED BY <1>4, <2>1, <2>2, <2>3, <2>4 DEF Commands, HandlerStart
<1>5. CASE Compounds BY <1>1, <1>5, CompoundsPlain
<1>6. CASE ChildProcesses BY <1>1, <1>6, ChildProcessesPlain
<1>7. CASE Unwinding BY <1>1, <1>7, UnwindingPlain
<1>8. CASE NotStarted \/ Finished \/ Failed BY <1>1, <1>8, HaltPlain
<1>9. CASE /\ UNCHANGED <<stack, executedSteps, calls, lateCalls>>
           /\ cancelled' \/ UNCHANGED cancelled
  BY <1>9 DEF IsStack, Suspended, Load, Depth, Top
<1>10. CASE Cancel BY <1>9, <1>10 DEF Cancel, control, history
<1>11. CASE UNCHANGED vars BY <1>9, <1>11 DEF vars, control, history
<1>. QED
  BY <1>2, <1>3, <1>4, <1>5, <1>6, <1>7, <1>8, <1>10, <1>11
  DEF Next, Step, Halted

\* The inductive invariant holds in every reachable state.
THEOREM CallsInvariant == Spec => []CallsInv
BY InitCallsInv, NextCallsInv, PTL DEF Spec

\* Execute never calls more commands than it reserved steps for, and never
\* reserves more than Limits.MaxExecutionSteps (reserveExecutionSteps).
THEOREM CallsPaidTheorem == Spec => []CallsPaid
<1>1. CallsInv => CallsPaid
  BY LoadType DEF CallsInv, CallsPaid
<1>. QED BY <1>1, CallsInvariant, PTL

\* Once the context is cancelled at most one more command is called: the
\* context is observed with every reservation (reserveExecutionSteps).
THEOREM OneLateCallTheorem == Spec => []OneLateCall
<1>1. CallsInv => OneLateCall
  BY LoadType DEF CallsInv, OneLateCall
<1>. QED BY <1>1, CallsInvariant, PTL
-------------------------------------------------------------------------------
(***************************************************************************)
(* That no path ends early without a reason (EndingsExplained), and that   *)
(* the ERR trap is not run by a failure inside an ERR trap                 *)
(* (ErrTrapNotReentered), for every program, every set of handlers and     *)
(* every step budget.                                                      *)
(*                                                                         *)
(* Every action calls, returns, or goes on in the top frame (or ends the   *)
(* simulation).  So there is one lemma for each of these (GoKeeps,         *)
(* CallKeeps, TrapKeeps, LeaveKeeps, HaltKeeps), and what is left to show  *)
(* of an action is that the frames it makes are sound: that the functions  *)
(* of ShellPaths never clear the issue of a path, and that a frame's share *)
(* of errTrapSuppressed is what it added.                                  *)
(***************************************************************************)

-------------------------------------------------------------------------------
(* States and paths.  Only their shape matters, and the issue. *)

StateFields ==
  {"fs", "exit", "exitFailure", "signal", "signalDepth", "loopDepth",
   "loopExits", "funcDepth", "sourceDepth", "errexit", "inheritErrexit",
   "errTrace", "pipefail", "errTrap", "exitTrap", "exitTrapInherited",
   "functions", "frames", "issue"}
IsState(s) == s = [x \in StateFields |-> s[x]] /\ s.issue \in Issues
\* The state a failure leads to is a state as well.
Sound(s) == IsState(s) /\ (s.exitFailure = NoState \/ IsState(s.exitFailure))
\* From s to t a state changes and keeps its issue.
Keeps(s, t) == Sound(t) /\ (s.issue # "none" => t.issue # "none")

IsPath(p) == p = [x \in {"status", "state"} |-> p[x]]
Early == {"incomplete", "unresolved"}
\* A path that ended early has an issue.
Told(p) ==
  /\ IsPath(p) /\ Sound(p.state)
  /\ p.status \in Statuses
  /\ p.status \in Early => p.state.issue # "none"

\* A new path has nothing to explain.
LEMMA CompletedTold ==
  ASSUME NEW s, Sound(s)
  PROVE  Told(Completed(s))
BY DEF Told, IsPath, Completed, Early, Statuses

\* A path whose state changes and keeps its issue.
LEMMA StateTold ==
  ASSUME NEW p, Told(p), NEW t, Keeps(p.state, t)
  PROVE  Told([p EXCEPT !.state = t])
BY DEF Told, IsPath, Keeps

\* A path that is given up gets an issue, unless it has one.
LEMMA GiveUpTold ==
  ASSUME NEW p, Told(p), NEW i \in Issues \ {"none"}
  PROVE  Told(GiveUp(p, i)) /\ GiveUp(p, i).status = "incomplete"
BY DEF Told, IsPath, GiveUp, SetIssue, Sound, IsState, StateFields, Early, Statuses

\* So does one whose value is not known.
LEMMA UnresolvedTold ==
  ASSUME NEW p, Told(p)
  PROVE  Told(Unresolved(p))
BY DEF Told, IsPath, Unresolved, SetIssue, Sound, IsState, StateFields, Early, Statuses,
       Issues

\* One that is ended by CommandStop needs none.
LEMMA TerminatedTold ==
  ASSUME NEW p, Told(p)
  PROVE  Told(Terminated(p))
BY DEF Told, IsPath, Terminated, Early, Statuses

\* A path that could not reserve a step, or whose output was refused.
LEMMA RefusedTold ==
  ASSUME NEW p, Told(p)
  PROVE  Told(Refuse(p)) /\ Told(Emitted(p))
<1>1. Told(GiveUp(p, "cancelled")) /\ Told(GiveUp(p, "budget"))
  BY GiveUpTold DEF Issues
<1>. QED BY <1>1 DEF Refuse, WhyRefused, Emitted

\* The functions on states that only set fields.
LEMMA SetExitKeeps ==
  ASSUME NEW s, Sound(s), NEW e
  PROVE  Keeps(s, SetExit(s, e)) /\ SetExit(s, e).exitFailure = NoState
BY DEF Keeps, Sound, IsState, StateFields, SetExit

\* Pushing and popping substitution frames, on a failure state too.
LEMMA FramesKeep ==
  ASSUME NEW s, Sound(s)
  PROVE  Keeps(s, PushFrame(s)) /\ Keeps(s, PopFrame(s))
<1>1. Keeps(s, PushFrame(s))
  BY DEF Keeps, Sound, IsState, StateFields, PushFrame
<1>2. ASSUME NEW t, IsState(t)
      PROVE  IsState(PopOwnFrame(t)) /\ PopOwnFrame(t).exitFailure = t.exitFailure
             /\ PopOwnFrame(t).issue = t.issue
  BY <1>2 DEF IsState, StateFields, PopOwnFrame
<1>3. Keeps(s, PopFrame(s))
  <2>1. CASE s.exitFailure = NoState
    BY <1>2, <2>1 DEF Keeps, Sound, PopFrame
  <2>2. CASE s.exitFailure # NoState
    <3>1. IsState(PopOwnFrame(s)) /\ IsState(PopOwnFrame(s.exitFailure))
      BY <1>2, <2>2 DEF Sound
    <3>2. PopFrame(s) = [PopOwnFrame(s) EXCEPT !.exitFailure = PopOwnFrame(s.exitFailure)]
      BY <1>2, <2>2 DEF PopFrame, Sound
    <3>3. PopOwnFrame(s).issue = s.issue
      BY <1>2 DEF Sound
    <3>. QED BY <3>1, <3>2, <3>3 DEF Keeps, Sound, IsState, StateFields
  <2>. QED BY <2>1, <2>2
<1>. QED BY <1>1, <1>3

\* A state that keeps what another one kept.
LEMMA KeepsChain ==
  ASSUME NEW s, NEW t, NEW u, Keeps(s, t), Keeps(t, u)
  PROVE  Keeps(s, u)
BY DEF Keeps

\* Loops, functions and sourced files.
LEMMA ScopesKeep ==
  ASSUME NEW s, Sound(s)
  PROVE  /\ Keeps(s, PushLoop(s)) /\ Keeps(s, PopLoop(s))
         /\ Keeps(s, SetLoopExit(s))
         /\ Keeps(s, [s EXCEPT !.loopDepth = @ + 1])
         /\ Keeps(s, [s EXCEPT !.loopDepth = @ - 1])
         /\ Keeps(s, [s EXCEPT !.sourceDepth = @ + 1])
         /\ Keeps(s, EnterFunction(s))
<1>. USE DEF Keeps, Sound, IsState, StateFields
<1>1. Keeps(s, PushLoop(s))
  BY DEF PushLoop
<1>2. Keeps(s, PopLoop(s))
  BY DEF PopLoop
<1>3. Keeps(s, SetLoopExit(s))
  BY DEF SetLoopExit
<1>4. Keeps(s, [s EXCEPT !.loopDepth = @ + 1])
  OBVIOUS
<1>5. Keeps(s, [s EXCEPT !.loopDepth = @ - 1])
  OBVIOUS
<1>6. Keeps(s, [s EXCEPT !.sourceDepth = @ + 1])
  OBVIOUS
<1>7. Keeps(s, EnterFunction(s))
  BY DEF EnterFunction
<1>. QED BY <1>1, <1>2, <1>3, <1>4, <1>5, <1>6, <1>7

\* The end of a function or a sourced file.
LEMMA ReturnsKeep ==
  ASSUME NEW s, Sound(s), NEW caller
  PROVE  Keeps(s, LeaveFunction(s, caller)) /\ Keeps(s, LeaveSource(s))
<1>1. Keeps(s, ClearReturn(s))
  BY DEF Keeps, Sound, IsState, StateFields, ClearReturn
<1>2. ASSUME NEW t, Sound(t), NEW a, NEW b
      PROVE  /\ Keeps(t, [t EXCEPT !.funcDepth = a, !.errTrap = b])
             /\ Keeps(t, [t EXCEPT !.sourceDepth = a])
  BY <1>2 DEF Keeps, Sound, IsState, StateFields
<1>3. Sound(ClearReturn(s))
  BY <1>1 DEF Keeps
<1>4. Keeps(ClearReturn(s), LeaveFunction(s, caller))
  BY <1>2, <1>3 DEF LeaveFunction
<1>5. Keeps(ClearReturn(s), LeaveSource(s))
  BY <1>2, <1>3 DEF LeaveSource
<1>. QED BY <1>1, <1>4, <1>5, KeepsChain

\* What the deferred cleanup of a frame does to a state.
LEMMA CleanUpKeeps ==
  ASSUME NEW f, NEW s, Sound(s)
  PROVE  Keeps(s, CleanUp(f, s))
<1>0. Keeps(s, s)
  BY DEF Keeps
<1>1. CASE f.kind = "stmt"
  BY <1>1, FramesKeep DEF CleanUp
<1>2. CASE f.kind = "while"
  BY <1>2, ScopesKeep DEF CleanUp
<1>3. CASE f.kind = "for"
  BY <1>3, ScopesKeep DEF CleanUp
<1>4. CASE f.kind = "function"
  BY <1>4, ReturnsKeep DEF CleanUp
<1>5. CASE f.kind = "source"
  BY <1>5, ReturnsKeep DEF CleanUp
<1>6. CASE f.kind \notin {"stmt", "while", "for", "function", "source"}
  BY <1>0, <1>6 DEF CleanUp
<1>. QED BY <1>1, <1>2, <1>3, <1>4, <1>5, <1>6

\* The results of command substitutions.
LEMMA SubstitutionKeeps ==
  ASSUME NEW s, Sound(s), NEW site, NEW e
  PROVE  Keeps(s, SetSubstitution(s, site, e))
BY DEF Keeps, Sound, IsState, StateFields, SetSubstitution

\* break, continue, return and exit.
LEMMA ControlKeeps ==
  ASSUME NEW s, Sound(s), NEW n
  PROVE  Keeps(s, LanguageControl(s, n))
<1>1. ASSUME NEW e, NEW x, NEW y
      PROVE  /\ Keeps(s, SetExit(s, e))
             /\ Keeps(s, [SetExit(s, e) EXCEPT !.signal = x])
             /\ Keeps(s, [SetExit(s, e) EXCEPT !.signal = x, !.signalDepth = y])
  BY DEF Keeps, Sound, IsState, StateFields, SetExit
<1>2. CASE n.name \in {"break", "continue"}
  BY <1>1, <1>2 DEF LanguageControl
<1>3. CASE n.name = "return"
  BY <1>1, <1>3 DEF LanguageControl
<1>4. CASE n.name \notin {"break", "continue", "return"}
  BY <1>1, <1>4 DEF LanguageControl
<1>. QED BY <1>2, <1>3, <1>4

\* The builtins that set options and traps, and cd.
LEMMA BuiltinKeeps ==
  ASSUME NEW s, Sound(s), NEW n
  PROVE  Keeps(s, ApplyBuiltin(s, n))
<1>. DEFINE t == SetExit(s, "zero")
            Quick == {"set -e", "set -E", "set -o pipefail", "shopt inherit_errexit",
                      "trap ERR", "trap EXIT"}
<1>1. Keeps(s, t) /\ Sound(t)
  BY SetExitKeeps DEF Keeps
<1>. HIDE DEF t
<1>2. ASSUME NEW x, NEW y
      PROVE  /\ Keeps(t, [t EXCEPT !.errexit = x])
             /\ Keeps(t, [t EXCEPT !.errTrace = x])
             /\ Keeps(t, [t EXCEPT !.pipefail = x])
             /\ Keeps(t, [t EXCEPT !.inheritErrexit = x])
             /\ Keeps(t, [t EXCEPT !.errTrap = x])
             /\ Keeps(t, [t EXCEPT !.exitTrap = x, !.exitTrapInherited = y])
  BY <1>1 DEF Keeps, Sound, IsState, StateFields
<1>3. CASE n.name = "set -e"
  BY <1>1, <1>2, <1>3, KeepsChain DEF ApplyBuiltin, t
<1>4. CASE n.name = "set -E"
  BY <1>1, <1>2, <1>4, KeepsChain DEF ApplyBuiltin, t
<1>5. CASE n.name = "set -o pipefail"
  BY <1>1, <1>2, <1>5, KeepsChain DEF ApplyBuiltin, t
<1>6. CASE n.name = "shopt inherit_errexit"
  BY <1>1, <1>2, <1>6, KeepsChain DEF ApplyBuiltin, t
<1>7. CASE n.name = "trap ERR"
  BY <1>1, <1>2, <1>7, KeepsChain DEF ApplyBuiltin, t
<1>8. CASE n.name = "trap EXIT"
  BY <1>1, <1>2, <1>8, KeepsChain DEF ApplyBuiltin, t
<1>9. CASE n.name \notin Quick
  <2>1. IsState(SnapshotForUnknownFailure(s))
    BY DEF Sound, IsState, StateFields, SnapshotForUnknownFailure
  <2>2. ASSUME NEW fs, NEW u, IsState(u)
        PROVE  Keeps(s, SetUnknownExitWithFailure([s EXCEPT !.fs = fs], u))
    BY <2>2 DEF Keeps, Sound, IsState, StateFields, SetUnknownExitWithFailure
  <2>3. ApplyBuiltin(s, n) =
          SetUnknownExitWithFailure([s EXCEPT !.fs = Append(@, "cd")],
                                    SnapshotForUnknownFailure(s))
    BY <1>9 DEF ApplyBuiltin
  <2>. QED BY <2>1, <2>2, <2>3
<1>. QED BY <1>3, <1>4, <1>5, <1>6, <1>7, <1>8, <1>9

\* The state a simulation starts in.
LEMMA NewStateSound == Sound(NewState)
BY DEF Sound, IsState, StateFields, NewState, Issues

\* What children start in.
LEMMA ChildrenKeep ==
  ASSUME NEW s, Sound(s)
  PROVE  /\ Keeps(s, BackgroundChild(s)) /\ Keeps(s, SubshellChild(s))
         /\ Keeps(s, SubstitutionChild(s)) /\ Sound(FreshShell(s))
         /\ Sound(SnapshotForUnknownFailure(s))
<1>1. Keeps(s, BackgroundChild(s))
  BY DEF Keeps, Sound, IsState, StateFields, BackgroundChild
<1>2. ASSUME NEW t, Sound(t), NEW x
      PROVE  Keeps(t, [t EXCEPT !.errTrap = x]) /\ Keeps(t, [t EXCEPT !.errexit = x])
  BY <1>2 DEF Keeps, Sound, IsState, StateFields
<1>3. Keeps(s, SubshellChild(s))
  <2>1. Sound(BackgroundChild(s))
    BY <1>1 DEF Keeps
  <2>2. Keeps(BackgroundChild(s), SubshellChild(s))
    BY <2>1, <1>2 DEF SubshellChild
  <2>. QED BY <1>1, <2>2, KeepsChain
<1>4. Keeps(s, SubstitutionChild(s))
  <2>1. Sound(SubshellChild(s))
    BY <1>3 DEF Keeps
  <2>2. Keeps(SubshellChild(s), SubstitutionChild(s))
    BY <2>1, <1>2 DEF SubstitutionChild
  <2>. QED BY <1>3, <2>2, KeepsChain
<1>6. Sound(FreshShell(s))
  BY NewStateSound DEF Sound, IsState, StateFields, FreshShell
<1>7. Sound(SnapshotForUnknownFailure(s))
  BY DEF Sound, IsState, StateFields, SnapshotForUnknownFailure
<1>. QED BY <1>1, <1>3, <1>4, <1>6, <1>7

\* A parent takes over the issue of its child.
LEMMA MergeKeeps ==
  ASSUME NEW parent, Sound(parent), NEW child, child.issue \in Issues
  PROVE  /\ Keeps(parent, MergeIssue(parent, child))
         /\ Keeps(parent, MergeChild(parent, child))
         /\ child.issue # "none" => MergeIssue(parent, child).issue # "none"
         /\ child.issue # "none" => MergeChild(parent, child).issue # "none"
<1>1. /\ Keeps(parent, MergeIssue(parent, child))
      /\ child.issue # "none" => MergeIssue(parent, child).issue # "none"
  BY DEF Keeps, Sound, IsState, StateFields, MergeIssue
<1>2. ASSUME NEW t, Sound(t), NEW x
      PROVE  /\ Keeps(t, [t EXCEPT !.fs = x])
             /\ [t EXCEPT !.fs = x].issue = t.issue
  BY <1>2 DEF Keeps, Sound, IsState, StateFields
<1>3. Sound(MergeIssue(parent, child))
  BY <1>1 DEF Keeps
<1>4. Keeps(MergeIssue(parent, child), MergeChild(parent, child))
      /\ MergeChild(parent, child).issue = MergeIssue(parent, child).issue
  BY <1>2, <1>3 DEF MergeChild
<1>. QED BY <1>1, <1>4, KeepsChain

-------------------------------------------------------------------------------
(* What the evaluator does to one path. *)

\* Paths whose status is told apart, or need not be.
LEMMA ForkTold ==
  ASSUME NEW p, Told(p), p.status = "completed"
  PROVE  Told(Fork(p)[1]) /\ Told(Fork(p)[2])
<1>1. Told([p EXCEPT !.state = SetExit(@, "zero")])
  BY StateTold, SetExitKeeps DEF Told
<1>2. ASSUME NEW t, Sound(t)
      PROVE  Told([p EXCEPT !.state = t])
  BY <1>2 DEF Told, IsPath, Early
<1>3. IsState(FailureState(p.state))
  BY DEF Told, Sound, FailureState
<1>4. Sound(SetExit(FailureState(p.state), "nonzero"))
  BY <1>3 DEF Sound, IsState, StateFields, SetExit
<1>5. Told([p EXCEPT !.state = SetExit(FailureState(@), "nonzero")])
  BY <1>2, <1>4
<1>. QED BY <1>1, <1>5 DEF Fork

\* The path after a failure, and after a negation.
LEMMA EffectsTold ==
  ASSUME NEW p, Told(p)
  PROVE  Told(AfterFailure(p)) /\ Told(Invert(p)) /\ Told(Interrupted(p))
<1>1. ASSUME NEW e, NEW x
      PROVE  Keeps(p.state, [SetExit(p.state, e) EXCEPT !.signal = x])
  BY DEF Told, Keeps, Sound, IsState, StateFields, SetExit
<1>2. Told(AfterFailure(p))
  BY <1>1, StateTold DEF AfterFailure
<1>3. ASSUME NEW e
      PROVE  Keeps(p.state, [p.state EXCEPT !.exit = e, !.exitFailure = NoState])
  BY DEF Told, Keeps, Sound, IsState, StateFields
<1>4. Told(Invert(p))
  <2>1. CASE p.status # "completed" \/ p.state.exit = "unknown"
    BY <2>1 DEF Invert
  <2>2. CASE ~(p.status # "completed" \/ p.state.exit = "unknown")
    <3>. DEFINE e == IF p.state.exit = "zero" THEN "nonzero" ELSE "zero"
    <3>1. Invert(p) = [p EXCEPT !.state = [p.state EXCEPT !.exit = e, !.exitFailure = NoState]]
      BY <2>2 DEF Invert, Told, IsPath
    <3>. HIDE DEF e
    <3>2. Keeps(p.state, [p.state EXCEPT !.exit = e, !.exitFailure = NoState])
      BY <1>3
    <3>3. Told([p EXCEPT !.state = [p.state EXCEPT !.exit = e, !.exitFailure = NoState]])
      BY <3>2, StateTold
    <3>. QED BY <3>1, <3>3, Zenon
  <2>. QED BY <2>1, <2>2
<1>5. Told(Interrupted(p))
  BY GiveUpTold DEF Interrupted, Issues
<1>. QED BY <1>2, <1>4, <1>5

\* A command that was replaced, and the state its failure leads to.
LEMMA ReplacedTold ==
  ASSUME NEW p, Told(p), NEW f, Sound(f.base)
  PROVE  Told(Replaced(f, p))
<1>1. CASE p.status # "completed"
  BY <1>1 DEF Replaced
<1>2. CASE p.status = "completed"
  <2>. DEFINE x == IF p.state.exit = "unknown" /\ ~IsRegistered(f.node.cmd)
                   THEN f.base ELSE p.state.exitFailure
  <2>1. Replaced(f, p) = [p EXCEPT !.state = [p.state EXCEPT !.signal = "exit",
                                                             !.exitFailure = x]]
    BY <1>2 DEF Replaced, Told, IsPath
  <2>2. x = NoState \/ IsState(x)
    BY DEF Told, Sound
  <2>. HIDE DEF x
  <2>3. Keeps(p.state, [p.state EXCEPT !.signal = "exit", !.exitFailure = x])
    BY <2>2 DEF Told, Keeps, Sound, IsState, StateFields
  <2>. QED BY <2>1, <2>3, StateTold
<1>. QED BY <1>1, <1>2

\* A path after an EXIT trap has the status it had before.
LEMMA RestoredTold ==
  ASSUME NEW p, Told(p), NEW s, Sound(s)
  PROVE  Told(Restored(p, s))
<1>1. Keeps(p.state, [p.state EXCEPT !.exit = s.exit, !.exitFailure = s.exitFailure])
  BY DEF Told, Keeps, Sound, IsState, StateFields
<1>2. [p EXCEPT !.state.exit = s.exit, !.state.exitFailure = s.exitFailure]
      = [p EXCEPT !.state = [p.state EXCEPT !.exit = s.exit, !.exitFailure = s.exitFailure]]
  BY DEF Told, IsPath
<1>. QED BY <1>1, <1>2, StateTold DEF Restored

\* A path that leaves a child process.
LEMMA MergedTold ==
  ASSUME NEW f, Sound(f.base), NEW p, Told(p)
  PROVE  Told(Merged(f, p))
<1>. DEFINE parent == MergeChild(f.base, p.state)
            q      == Emitted([p EXCEPT !.state = parent])
<1>1. Told([p EXCEPT !.state = parent])
  <2>1. p.state.issue \in Issues
    BY DEF Told, Sound, IsState
  <2>2. Sound(parent) /\ (p.state.issue # "none" => parent.issue # "none")
    BY <2>1, MergeKeeps DEF Keeps
  <2>. QED BY <2>2 DEF Told, IsPath
<1>2. Told(q)
  BY <1>1, RefusedTold
<1>. HIDE DEF q
<1>3. \A e : Told([q EXCEPT !.state = SetExit(@, e)])
  BY <1>2, StateTold, SetExitKeeps DEF Told
<1>4. \A n, e : Told([q EXCEPT !.state = SetSubstitution(@, n, e)])
  BY <1>2, StateTold, SubstitutionKeeps DEF Told
<1>5. CASE f.kind = "background"
  BY <1>3, <1>5 DEF Merged, q
<1>6. CASE f.kind = "subst"
  BY <1>2, <1>4, <1>6 DEF Merged, q
<1>7. CASE f.kind \notin {"background", "subst"}
  BY <1>3, <1>7 DEF Merged, q
<1>. QED BY <1>5, <1>6, <1>7

\* A path that leaves a pipeline, after its left or its right side.
LEMMA PipeTold ==
  ASSUME NEW f, Sound(f.base), NEW p, Told(p), NEW left
  PROVE  Told(LeftAlone(f, p)) /\ Told(Joined(f, left, p))
<1>0. p.state.issue \in Issues
  BY DEF Told, Sound, IsState
<1>. DEFINE parent == MergeIssue(f.base, p.state)
            child  == MergeChild(f.base, p.state)
<1>5. /\ Sound(parent) /\ (p.state.issue # "none" => parent.issue # "none")
      /\ Sound(child) /\ (p.state.issue # "none" => child.issue # "none")
  BY <1>0, MergeKeeps DEF Keeps
<1>. HIDE DEF parent, child
<1>6. ASSUME NEW e, NEW s, Sound(s), p.state.issue # "none" => s.issue # "none"
      PROVE  Told([p EXCEPT !.state = SetExit(s, e)])
  <2>1. Keeps(s, SetExit(s, e))
    BY <1>6, SetExitKeeps
  <2>. QED BY <1>6, <2>1 DEF Told, IsPath, Keeps
<1>1. \A e : Told([p EXCEPT !.state = SetExit(MergeIssue(f.base, p.state), e)])
  BY <1>5, <1>6, Zenon DEF parent
<1>2. \A e : Told([p EXCEPT !.state = SetExit(MergeChild(f.base, p.state), e)])
  BY <1>5, <1>6, Zenon DEF child
<1>3. Told(LeftAlone(f, p))
  <2>. DEFINE q == Emitted([p EXCEPT !.state = SetExit(MergeIssue(f.base, p.state),
                                                      p.state.exit)])
  <2>1. Told(q)
    BY <1>1, RefusedTold
  <2>. HIDE DEF q
  <2>. QED BY <2>1, TerminatedTold DEF LeftAlone, q
<1>4. Told(Joined(f, left, p))
  BY <1>2, RefusedTold DEF Joined
<1>. QED BY <1>3, <1>4

\* A path between two iterations of a loop, and one that enters it.
LEMMA LoopTold ==
  ASSUME NEW p, Told(p)
  PROVE  /\ Told(AfterIteration(p))
         /\ Told([p EXCEPT !.state = SetLoopExit(@)])
         /\ Told([p EXCEPT !.state = PushLoop(@)])
         /\ Told(Counted(p))
         /\ Told([Counted(p) EXCEPT !.state = SetExit(@, "zero")])
<1>1. ASSUME NEW x, NEW y
      PROVE  /\ Keeps(p.state, [p.state EXCEPT !.signal = x, !.signalDepth = y])
             /\ Keeps(p.state, [p.state EXCEPT !.signalDepth = y])
  BY DEF Told, Keeps, Sound, IsState, StateFields
<1>2. /\ [p EXCEPT !.state.signal = "none", !.state.signalDepth = 0]
           = [p EXCEPT !.state = [p.state EXCEPT !.signal = "none", !.signalDepth = 0]]
      /\ [p EXCEPT !.state.signalDepth = @ - 1]
           = [p EXCEPT !.state = [p.state EXCEPT !.signalDepth = @ - 1]]
  BY DEF Told, IsPath
<1>3. /\ Told([p EXCEPT !.state.signal = "none", !.state.signalDepth = 0])
      /\ Told([p EXCEPT !.state.signalDepth = @ - 1])
  BY <1>1, <1>2, StateTold
<1>4. Told(AfterIteration(p))
  BY <1>3 DEF AfterIteration
<1>5. Told(Counted(p))
  <2>1. Counted(p) = [p EXCEPT !.state = [p.state EXCEPT !.loopDepth = @ + 1]]
    BY DEF Counted, Told, IsPath
  <2>2. Keeps(p.state, [p.state EXCEPT !.loopDepth = @ + 1])
    BY ScopesKeep DEF Told
  <2>. QED BY <2>1, <2>2, StateTold
<1>6. Told([Counted(p) EXCEPT !.state = SetExit(@, "zero")])
  BY <1>5, StateTold, SetExitKeeps DEF Told
<1>. QED BY <1>4, <1>5, <1>6, StateTold, ScopesKeep DEF Told

\* What a handler makes of a path.
LEMMA OutcomeTold ==
  ASSUME NEW p, Told(p), NEW c, NEW o
  PROVE  Told(Outcome(p, c, o))
<1>. DEFINE s == [p.state EXCEPT !.fs = Append(@, c)]
<1>1. Sound(s)
  BY DEF Told, Sound, IsState, StateFields
<1>. HIDE DEF s
<1>2. \A e : Told(Completed(SetExit(s, e)))
  BY <1>1, SetExitKeeps, CompletedTold DEF Keeps
<1>3. CASE o = "fail"
  BY <1>2, <1>3 DEF Outcome, s
<1>4. CASE o = "stop"
  BY <1>2, <1>4, TerminatedTold DEF Outcome, s
<1>5. CASE o = "unknown"
  BY <1>2, <1>5, RefusedTold DEF Outcome, s
<1>6. CASE o \notin {"fail", "stop", "unknown"}
  BY <1>2, <1>6 DEF Outcome, s
<1>. QED BY <1>3, <1>4, <1>5, <1>6

-------------------------------------------------------------------------------
(* Sequences of such paths. *)

IsSequence(q) == \E S : q \in Seq(S)
AllTold(q) == IsSequence(q) /\ \A k \in 1..Len(q) : Told(q[k])

\* Short sequences.
LEMMA FewTold ==
  ASSUME NEW p, Told(p), NEW r, Told(r)
  PROVE  AllTold(<<>>) /\ AllTold(<<p>>) /\ AllTold(<<p, r>>)
<1>1. <<>> \in Seq({}) /\ <<p>> \in Seq({p}) /\ <<p, r>> \in Seq({p, r})
  OBVIOUS
<1>2. AllTold(<<>>)
  BY <1>1 DEF AllTold, IsSequence
<1>3. AllTold(<<p>>)
  <2>1. Len(<<p>>) = 1 /\ <<p>>[1] = p /\ \A k \in 1..1 : k = 1
    OBVIOUS
  <2>2. \A k \in 1..1 : Told(<<p>>[k])
    BY <2>1, Zenon
  <2>. QED BY <1>1, <2>1, <2>2 DEF AllTold, IsSequence
<1>4. Len(<<p, r>>) = 2 /\ \A k \in 1..2 : Told(<<p, r>>[k])
  <2>1. \A k \in 1..2 : k = 1 \/ k = 2
    OBVIOUS
  <2>2. <<p, r>>[1] = p /\ <<p, r>>[2] = r /\ Len(<<p, r>>) = 2
    OBVIOUS
  <2>. QED BY <2>1, <2>2, Zenon
<1>5. IsSequence(<<p, r>>)
  BY <1>1 DEF IsSequence
<1>6. AllTold(<<p, r>>)
  BY <1>4, <1>5 DEF AllTold
<1>. QED BY <1>2, <1>3, <1>6

\* The empty one needs no path.
LEMMA NoneTold == AllTold(<<>>)
<1>1. <<>> \in Seq({}) /\ Len(<<>>) = 0
  OBVIOUS
<1>. QED BY <1>1 DEF AllTold, IsSequence

\* A path more.
LEMMA AppendTold ==
  ASSUME NEW q, AllTold(q), NEW p, Told(p)
  PROVE  AllTold(Append(q, p))
<1>1. PICK S : q \in Seq(S)
  BY DEF AllTold, IsSequence
<1>2. q \in Seq(S \cup {p})
  BY <1>1
<1>3. /\ Append(q, p) \in Seq(S \cup {p})
      /\ Len(Append(q, p)) = Len(q) + 1 /\ Len(q) \in Nat
      /\ \A k \in 1..Len(q) : Append(q, p)[k] = q[k]
      /\ Append(q, p)[Len(q) + 1] = p
  BY <1>2
<1>. QED BY <1>3 DEF AllTold, IsSequence

\* One sequence after the other.
LEMMA ConcatTold ==
  ASSUME NEW q, AllTold(q), NEW r, AllTold(r)
  PROVE  AllTold(q \o r)
<1>1. PICK S : q \in Seq(S)
  BY DEF AllTold, IsSequence
<1>2. PICK T : r \in Seq(T)
  BY DEF AllTold, IsSequence
<1>3. q \in Seq(S \cup T) /\ r \in Seq(S \cup T)
  BY <1>1, <1>2
<1>4. /\ q \o r \in Seq(S \cup T)
      /\ Len(q \o r) = Len(q) + Len(r) /\ Len(q) \in Nat /\ Len(r) \in Nat
      /\ \A k \in 1..Len(q) + Len(r) : (q \o r)[k] = IF k <= Len(q) THEN q[k] ELSE r[k - Len(q)]
  BY <1>3
<1>5. ASSUME NEW k \in 1..Len(q \o r)
      PROVE  Told((q \o r)[k])
  <2>1. k \in 1..Len(q) \/ k - Len(q) \in 1..Len(r)
    BY <1>4
  <2>. QED BY <1>4, <2>1 DEF AllTold
<1>. QED BY <1>4, <1>5 DEF AllTold, IsSequence

\* All but the last, all but the first.
LEMMA PartTold ==
  ASSUME NEW q, AllTold(q), q # <<>>
  PROVE  /\ AllTold(Rest(q)) /\ AllTold(Front1(q))
         /\ Told(First(q)) /\ Told(q[Len(q)])
<1>1. PICK S : q \in Seq(S)
  BY DEF AllTold, IsSequence
<1>2. Len(q) \in Nat /\ Len(q) # 0
  BY <1>1
<1>3. \A k \in 1..Len(q) : q[k] \in S
  BY <1>1
<1>4. \A m, n \in Int :
        (\A i \in m..n : q[i] \in S) =>
          /\ SubSeq(q, m, n) \in Seq(S)
          /\ Len(SubSeq(q, m, n)) = IF m <= n THEN n - m + 1 ELSE 0
          /\ \A i \in 1..(n - m + 1) : SubSeq(q, m, n)[i] = q[m + i - 1]
  BY SubSeqProperties
<1>5. /\ 1 \in Int /\ 2 \in Int /\ Len(q) \in Int /\ Len(q) - 1 \in Int
      /\ \A i \in 2..Len(q) : q[i] \in S
      /\ \A i \in 1..(Len(q) - 1) : q[i] \in S
  BY <1>2, <1>3
<1>6. /\ Rest(q) \in Seq(S)
      /\ Len(Rest(q)) = IF 2 <= Len(q) THEN Len(q) - 2 + 1 ELSE 0
      /\ \A i \in 1..(Len(q) - 2 + 1) : Rest(q)[i] = q[2 + i - 1]
  BY <1>4, <1>5, Zenon DEF Rest
<1>7. /\ Front1(q) \in Seq(S)
      /\ Len(Front1(q)) = IF 1 <= Len(q) - 1 THEN (Len(q) - 1) - 1 + 1 ELSE 0
      /\ \A i \in 1..((Len(q) - 1) - 1 + 1) : Front1(q)[i] = q[1 + i - 1]
  BY <1>4, <1>5, Zenon DEF Front1
<1>8. \A k \in 1..Len(q) : Told(q[k])
  BY DEF AllTold
<1>9. AllTold(Rest(q))
  <2>1. ASSUME NEW k \in 1..Len(Rest(q))
        PROVE  Rest(q)[k] = q[k + 1] /\ k + 1 \in 1..Len(q)
    BY <1>2, <1>6
  <2>. QED BY <1>6, <1>8, <2>1 DEF AllTold, IsSequence
<1>10. AllTold(Front1(q))
  <2>1. ASSUME NEW k \in 1..Len(Front1(q))
        PROVE  Front1(q)[k] = q[k] /\ k \in 1..Len(q)
    BY <1>2, <1>7
  <2>. QED BY <1>7, <1>8, <2>1 DEF AllTold, IsSequence
<1>. QED BY <1>2, <1>8, <1>9, <1>10 DEF First

\* A path made of each.
LEMMA EachTold ==
  ASSUME NEW n \in Nat, NEW r, r = [k \in 1..n |-> r[k]], \A k \in 1..n : Told(r[k])
  PROVE  AllTold(r)
<1>. DEFINE S == {r[k] : k \in 1..n}
<1>1. r \in [1..n -> S]
  OBVIOUS
<1>2. r \in Seq(S) /\ Len(r) = n
  BY <1>1
<1>. QED BY <1>2 DEF AllTold, IsSequence

\* The length of a sequence.
LEMMA LengthTold ==
  ASSUME NEW q, AllTold(q)
  PROVE  Len(q) \in Nat
BY DEF AllTold, IsSequence

\* The deferred cleanups.
LEMMA CleanedUpTold ==
  ASSUME NEW f, NEW q, AllTold(q)
  PROVE  AllTold(CleanedUp(f, q))
<1>. DEFINE r == CleanedUp(f, q)
<1>1. r = [k \in 1..Len(q) |-> [q[k] EXCEPT !.state = CleanUp(f, @)]]
  BY DEF CleanedUp
<1>2. \A k \in 1..Len(q) : Told([q[k] EXCEPT !.state = CleanUp(f, @)])
  BY CleanUpKeeps, StateTold DEF AllTold, Told
<1>3. Len(q) \in Nat
  BY LengthTold
<1>. HIDE DEF r
<1>4. r = [k \in 1..Len(q) |-> r[k]] /\ \A k \in 1..Len(q) : Told(r[k])
  BY <1>1, <1>2
<1>5. AllTold(r)
  BY <1>3, <1>4, EachTold
<1>. QED BY <1>5 DEF r

\* A status that is resolved, or for which no step is left.
LEMMA ResolvedTold ==
  ASSUME NEW p, Told(p), p.status = "completed"
  PROVE  AllTold(Resolved(p))
<1>1. AllTold(<<p>>) /\ AllTold(<<Refuse(p)>>)
  BY FewTold, RefusedTold
<1>2. AllTold(Fork(p))
  <2>1. Fork(p) = <<Fork(p)[1], Fork(p)[2]>>
    BY DEF Fork
  <2>. QED BY <2>1, ForkTold, FewTold
<1>. QED BY <1>1, <1>2 DEF Resolved

\* The first path and the others, of a list that may be empty.
LEMMA RestTold ==
  ASSUME NEW q, AllTold(q)
  PROVE  AllTold(Rest(q)) /\ AllTold(Front1(q))
<1>1. CASE q # <<>>
  BY <1>1, PartTold
<1>2. CASE q = <<>>
  <2>1. \A m, n \in Int :
          (\A i \in m..n : q[i] \in {}) =>
            /\ SubSeq(q, m, n) \in Seq({})
            /\ Len(SubSeq(q, m, n)) = IF m <= n THEN n - m + 1 ELSE 0
    BY SubSeqProperties
  <2>2. Len(q) = 0 /\ 0 \in Int /\ 1 \in Int /\ 2 \in Int /\ -1 \in Int /\ 0 - 1 = -1
    BY <1>2
  <2>3. (\A i \in 2..0 : q[i] \in {}) /\ (\A i \in 1..(-1) : q[i] \in {})
    OBVIOUS
  <2>4. /\ SubSeq(q, 2, 0) \in Seq({})
        /\ Len(SubSeq(q, 2, 0)) = IF 2 <= 0 THEN 0 - 2 + 1 ELSE 0
    BY <2>1, <2>2, <2>3, Zenon
  <2>5. /\ SubSeq(q, 1, -1) \in Seq({})
        /\ Len(SubSeq(q, 1, -1)) = IF 1 <= -1 THEN -1 - 1 + 1 ELSE 0
    BY <2>1, <2>2, <2>3, Zenon
  <2>6. Rest(q) = SubSeq(q, 2, 0) /\ Front1(q) = SubSeq(q, 1, -1)
    BY <2>2 DEF Rest, Front1
  <2>7. Rest(q) = <<>> /\ Front1(q) = <<>>
    BY <2>4, <2>5, <2>6
  <2>. QED BY <2>7, NoneTold
<1>. QED BY <1>1, <1>2

\* A sequence made of each path of another one.
LEMMA MapTold ==
  ASSUME NEW q, AllTold(q), NEW r, r = [k \in 1..Len(q) |-> r[k]],
         \A k \in 1..Len(q) : Told(q[k]) => Told(r[k])
  PROVE  AllTold(r)
<1>1. Len(q) \in Nat
  BY LengthTold
<1>2. \A k \in 1..Len(q) : Told(r[k])
  BY DEF AllTold
<1>. QED BY <1>1, <1>2, EachTold

\* The sequences the evaluator makes in this way.
LEMMA MapsTold ==
  ASSUME NEW q, AllTold(q)
  PROVE  /\ AllTold([k \in 1..Len(q) |-> AfterFailure(q[k])])
         /\ AllTold([k \in 1..Len(q) |-> Invert(q[k])])
         /\ AllTold([k \in 1..Len(q) |-> Interrupted(q[k])])
<1>1. AllTold([k \in 1..Len(q) |-> AfterFailure(q[k])])
  <2>. DEFINE r == [k \in 1..Len(q) |-> AfterFailure(q[k])]
  <2>1. r = [k \in 1..Len(q) |-> r[k]] /\ \A k \in 1..Len(q) : Told(q[k]) => Told(r[k])
    BY EffectsTold
  <2>. HIDE DEF r
  <2>2. AllTold(r)
    BY <2>1, MapTold
  <2>. QED BY <2>2 DEF r
<1>2. AllTold([k \in 1..Len(q) |-> Invert(q[k])])
  <2>. DEFINE r == [k \in 1..Len(q) |-> Invert(q[k])]
  <2>1. r = [k \in 1..Len(q) |-> r[k]] /\ \A k \in 1..Len(q) : Told(q[k]) => Told(r[k])
    BY EffectsTold
  <2>. HIDE DEF r
  <2>2. AllTold(r)
    BY <2>1, MapTold
  <2>. QED BY <2>2 DEF r
<1>3. AllTold([k \in 1..Len(q) |-> Interrupted(q[k])])
  <2>. DEFINE r == [k \in 1..Len(q) |-> Interrupted(q[k])]
  <2>1. r = [k \in 1..Len(q) |-> r[k]] /\ \A k \in 1..Len(q) : Told(q[k]) => Told(r[k])
    BY EffectsTold
  <2>. HIDE DEF r
  <2>2. AllTold(r)
    BY <2>1, MapTold
  <2>. QED BY <2>2 DEF r
<1>. QED BY <1>1, <1>2, <1>3

\* Those that depend on the frame of a caller.
LEMMA MapsBaseTold ==
  ASSUME NEW q, AllTold(q), NEW f, Sound(f.base), NEW left, NEW s, Sound(s)
  PROVE  /\ AllTold([k \in 1..Len(q) |-> Replaced(f, q[k])])
         /\ AllTold([k \in 1..Len(q) |-> Joined(f, left, q[k])])
         /\ AllTold([k \in 1..Len(q) |-> Restored(q[k], s)])
<1>1. AllTold([k \in 1..Len(q) |-> Replaced(f, q[k])])
  <2>. DEFINE r == [k \in 1..Len(q) |-> Replaced(f, q[k])]
  <2>1. r = [k \in 1..Len(q) |-> r[k]] /\ \A k \in 1..Len(q) : Told(q[k]) => Told(r[k])
    BY ReplacedTold
  <2>. HIDE DEF r
  <2>2. AllTold(r)
    BY <2>1, MapTold
  <2>. QED BY <2>2 DEF r
<1>2. AllTold([k \in 1..Len(q) |-> Joined(f, left, q[k])])
  <2>. DEFINE r == [k \in 1..Len(q) |-> Joined(f, left, q[k])]
  <2>1. r = [k \in 1..Len(q) |-> r[k]] /\ \A k \in 1..Len(q) : Told(q[k]) => Told(r[k])
    BY PipeTold
  <2>. HIDE DEF r
  <2>2. AllTold(r)
    BY <2>1, MapTold
  <2>. QED BY <2>2 DEF r
<1>3. AllTold([k \in 1..Len(q) |-> Restored(q[k], s)])
  <2>. DEFINE r == [k \in 1..Len(q) |-> Restored(q[k], s)]
  <2>1. r = [k \in 1..Len(q) |-> r[k]] /\ \A k \in 1..Len(q) : Told(q[k]) => Told(r[k])
    BY RestoredTold
  <2>. HIDE DEF r
  <2>2. AllTold(r)
    BY <2>1, MapTold
  <2>. QED BY <2>2 DEF r
<1>. QED BY <1>1, <1>2, <1>3

-------------------------------------------------------------------------------
(* The share of errTrapSuppressed that is a frame's. *)

\* What the frames of stack q have added to errTrapSuppressed.
Muted(q) == SumFunctionOnSet([k \in 1..Len(q) |-> q[k].mute], 1..Len(q))

\* One frame more on the stack.
LEMMA MutedAppend ==
  ASSUME NEW q, NEW r, Len(q) \in Nat, Len(r) = Len(q) + 1,
         \A k \in 1..Len(q) : r[k] = q[k] /\ q[k].mute \in Int,
         r[Len(r)].mute \in Int
  PROVE  Muted(r) = Muted(q) + r[Len(r)].mute /\ Muted(q) \in Int
<1>. DEFINE n == Len(q)
            S == 1..n
            T == 1..n + 1
            g == [k \in S |-> q[k].mute]
            h == [k \in T |-> r[k].mute]
<1>1. IsFiniteSet(S) /\ IsFiniteSet(T)
  <2>1. n \in Int /\ n + 1 \in Int /\ 1 \in Int
    OBVIOUS
  <2>. QED BY <2>1, FS_Interval
<1>2. n + 1 \in T /\ T \ {n + 1} = S
  OBVIOUS
<1>3. \A k \in S : g[k] = h[k] /\ g[k] \in Int
  OBVIOUS
<1>4. h[n + 1] = r[n + 1].mute
  BY <1>2
<1>5. \A k \in T : h[k] \in Int
  BY <1>2, <1>4
<1>6. Muted(r) = SumFunctionOnSet(h, T) /\ Muted(q) = SumFunctionOnSet(g, S)
  BY DEF Muted
<1>. HIDE DEF g, h, S, T
<1>7. SumFunctionOnSet(h, T) = h[n + 1] + SumFunctionOnSet(h, T \ {n + 1})
  BY <1>1, <1>2, <1>5, SumRemove
<1>8. SumFunctionOnSet(g, S) = SumFunctionOnSet(h, S)
  BY <1>1, <1>3, SumSame
<1>9. SumFunctionOnSet(g, S) \in Int
  BY <1>1, <1>3, SumType
<1>10. Muted(r) = r[n + 1].mute + Muted(q)
  BY <1>2, <1>4, <1>6, <1>7, <1>8, Zenon
<1>. QED BY <1>6, <1>9, <1>10

\* If nothing is suppressed, no frame suppresses anything.
LEMMA MutedNone ==
  ASSUME NEW q, Len(q) \in Nat, \A k \in 1..Len(q) : q[k].mute \in Nat,
         Muted(q) = 0
  PROVE  \A k \in 1..Len(q) : q[k].mute = 0
<1>. DEFINE S == 1..Len(q)
            g == [k \in S |-> q[k].mute]
<1>1. IsFiniteSet(S)
  <2>1. Len(q) \in Int /\ 1 \in Int
    OBVIOUS
  <2>. QED BY <2>1, FS_Interval
<1>2. \A k \in S : g[k] = q[k].mute /\ g[k] \in Nat /\ g[k] \in Int
  OBVIOUS
<1>3. SumFunctionOnSet(g, S) = 0
  BY DEF Muted
<1>. HIDE DEF g, S
<1>4. ASSUME NEW k \in S
      PROVE  g[k] = 0
  <2>1. SumFunctionOnSet(g, S) = g[k] + SumFunctionOnSet(g, S \ {k})
    BY <1>1, <1>2, SumRemove
  <2>2. IsFiniteSet(S \ {k})
    BY <1>1, FS_Subset
  <2>3. SumFunctionOnSet(g, S \ {k}) \in Nat
    BY <1>2, <2>2, SumNatural
  <2>. QED BY <1>2, <1>3, <2>1, <2>3
<1>. QED BY <1>2, <1>4 DEF S

\* The ERR trap of a list's statement runs, or is looked for.
InEffects(f) == f.kind = "list" /\ f.pc = "effects"
\* What a frame was called with: a list in its failure effects has added what
\* its statement, a subshell, suppresses.
Own(f) == f.mute - (IF InEffects(f) THEN MutesErrTrap(f) ELSE 0)

-------------------------------------------------------------------------------
(* Frames. *)

\* The frames that keep the state of a parent.
Based == {"replace", "subshell", "background", "subst", "shell", "pipe"}
\* The frames that have a path to evaluate.
Holding == {"invoke", "delegate", "replace", "function", "eval", "source", "not"}
Waiting(f) ==
  f.kind \in Holding \/ (f.pc = "start" /\ f.kind \in {"logical"} \cup Children)
\* A child whose EXIT trap runs still has the path it runs for.
Awaits(f) == f.kind \in Children /\ f.pc = "traps" => f.work # <<>>

GoodFrame(f) ==
  /\ IsFrame(f)
  /\ AllTold(f.todo) /\ AllTold(f.work) /\ AllTold(f.out) /\ AllTold(f.done)
  /\ f.kind \in Based => Sound(f.base)
  /\ f.err \in Issues
  /\ Waiting(f) => f.todo # <<>>
  /\ f.mute \in Nat /\ Own(f) \in {0, 1}

\* The inductive invariant, in two parts.
PathsTold ==
  /\ IsStack
  /\ \A k \in 1..Depth : GoodFrame(stack[k])
  /\ \A k \in 1..Depth : k < Depth \/ mode \in {"return", "raise"} => Awaits(stack[k])
  /\ AllTold(ret)
  /\ error \in Issues /\ (mode = "raise" => error # "none")
  /\ result # "unexplained"

TrapsMuted ==
  /\ mode # "halt" => errTrapSuppressed = Muted(stack)
  /\ \A j \in 1..(Depth - 1) : InEffects(stack[j]) => Own(stack[j + 1]) = 1
  /\ \A j, k \in 1..(Depth - 1) : InEffects(stack[j]) /\ InEffects(stack[k]) => j = k

PathsInv == PathsTold /\ TrapsMuted

-------------------------------------------------------------------------------
(* The steps all actions are made of. *)

\* The stack after Go, Call and Leave.
LEMMA GoShape ==
  ASSUME IsStack, Depth > 0, NEW f, IsFrame(f), stack' = Append(Below, f)
  PROVE  /\ IsStack' /\ Depth' = Depth /\ stack'[Depth] = f
         /\ \A k \in 1..(Depth - 1) : stack'[k] = stack[k]
<1>0. Depth \in Nat BY StackFacts
<1>1. PICK S : Below \in Seq(S) BY StackFacts
<1>2. Below \in Seq(S \cup {f}) BY <1>1
<1>3. stack' \in Seq(S \cup {f}) BY <1>2
<1>4. Len(stack') = Depth /\ stack'[Depth] = f BY <1>2, <1>0, StackFacts
<1>5. \A k \in 1..(Depth - 1) : stack'[k] = stack[k] BY <1>2, <1>0, StackFacts
<1>6. \A k \in 1..Depth : IsFrame(stack'[k])
  BY <1>0, <1>4, <1>5 DEF IsStack
<1>7. IsStack' BY <1>3, <1>4, <1>6 DEF IsStack, Depth
<1>. QED BY <1>4, <1>5, <1>7 DEF Depth

\* The top frame goes on and a new one is put on it.
LEMMA CallShape ==
  ASSUME IsStack, Depth > 0, NEW f, NEW g, IsFrame(f), IsFrame(g),
         stack' = Append(Append(Below, f), g)
  PROVE  /\ IsStack' /\ Depth' = Depth + 1
         /\ stack'[Depth] = f /\ stack'[Depth + 1] = g
         /\ \A k \in 1..(Depth - 1) : stack'[k] = stack[k]
<1>0. Depth \in Nat BY StackFacts
<1>1. PICK S : Below \in Seq(S) BY StackFacts
<1>2. Below \in Seq(S \cup {f, g}) BY <1>1
<1>4. /\ stack' \in Seq(S \cup {f, g})
      /\ Len(stack') = Depth + 1
      /\ stack'[Depth + 1] = g
      /\ stack'[Depth] = f
      /\ \A k \in 1..(Depth - 1) : stack'[k] = Below[k]
  BY <1>0, <1>2, StackFacts
<1>5. \A k \in 1..(Depth - 1) : stack'[k] = stack[k] BY <1>4, StackFacts
<1>6. \A k \in 1..(Depth + 1) : IsFrame(stack'[k])
  BY <1>0, <1>4, <1>5 DEF IsStack
<1>7. IsStack' BY <1>4, <1>6 DEF IsStack, Depth
<1>. QED BY <1>4, <1>5, <1>7 DEF Depth

\* The top frame is taken off.
LEMMA LeaveShape ==
  ASSUME IsStack, Depth > 0, stack' = Below
  PROVE  /\ IsStack' /\ Depth' = Depth - 1
         /\ \A k \in 1..(Depth - 1) : stack'[k] = stack[k]
<1>0. Depth \in Nat BY StackFacts
<1>1. PICK S : Below \in Seq(S) BY StackFacts
<1>2. Len(stack') = Depth - 1 /\ \A k \in 1..(Depth - 1) : stack'[k] = stack[k]
  BY StackFacts
<1>3. IsStack' BY <1>0, <1>1, <1>2 DEF IsStack, Depth
<1>. QED BY <1>2, <1>3 DEF Depth

\* The frames below the top have added what is not the top's share.
LEMMA MutedBelow ==
  ASSUME PathsInv, mode # "halt", Depth > 0
  PROVE  /\ errTrapSuppressed = Muted(Below) + Top.mute
         /\ Muted(Below) \in Int /\ Top.mute \in Nat
         /\ \A k \in 1..(Depth - 1) : Below[k] = stack[k] /\ Below[k].mute \in Nat
<1>0. IsStack
  BY DEF PathsInv, PathsTold
<1>1. Depth \in Nat /\ Len(Below) = Depth - 1
      /\ \A k \in 1..(Depth - 1) : Below[k] = stack[k]
  BY <1>0, StackFacts
<1>2. \A k \in 1..Depth : stack[k].mute \in Nat
  BY DEF PathsInv, PathsTold, GoodFrame
<1>3. Top = stack[Depth] /\ Depth \in 1..Depth /\ Depth = Len(stack)
  BY <1>1 DEF Top, Depth
<1>4. Muted(stack) = Muted(Below) + stack[Depth].mute /\ Muted(Below) \in Int
  BY <1>1, <1>2, <1>3, MutedAppend
<1>5. errTrapSuppressed = Muted(stack)
  BY DEF PathsInv, TrapsMuted
<1>6. \A k \in 1..(Depth - 1) : Below[k].mute \in Nat
  BY <1>1, <1>2
<1>. QED BY <1>1, <1>2, <1>3, <1>4, <1>5, <1>6

\* The top frame goes on, with the share it had.
LEMMA GoKeeps ==
  ASSUME PathsInv, mode # "halt", Depth > 0, UNCHANGED result,
         NEW f, GoodFrame(f), Own(f) = Own(Top), Go(f)
  PROVE  PathsInv'
<1>0. IsStack /\ Depth \in Nat
  BY StackFacts DEF PathsInv, PathsTold
<1>1. /\ IsStack' /\ Depth' = Depth /\ stack'[Depth] = f
      /\ \A k \in 1..(Depth - 1) : stack'[k] = stack[k]
  BY <1>0, GoShape DEF Go, GoodFrame
<1>2. PathsTold'
  <2>1. \A k \in 1..Depth : GoodFrame(stack'[k])
    BY <1>0, <1>1 DEF PathsInv, PathsTold
  <2>2. \A k \in 1..(Depth - 1) : Awaits(stack'[k])
    BY <1>0, <1>1 DEF PathsInv, PathsTold
  <2>3. mode' = "run" /\ AllTold(ret') /\ error' = "none"
    BY NoneTold DEF Go
  <2>4. "none" \in Issues
    BY DEF Issues
  <2>. QED BY <1>0, <1>1, <2>1, <2>2, <2>3, <2>4 DEF PathsInv, PathsTold
<1>3. errTrapSuppressed' = Muted(stack')
  <2>1. /\ Len(Below) = Depth - 1 /\ Len(stack') = Len(Below) + 1
        /\ \A k \in 1..Len(Below) : stack'[k] = Below[k] /\ Below[k].mute \in Int
        /\ stack'[Len(stack')] = f /\ f.mute \in Int
    BY <1>0, <1>1, StackFacts, MutedBelow DEF Depth, GoodFrame
  <2>2. Muted(stack') = Muted(Below) + f.mute
    BY <1>0, <2>1, MutedAppend
  <2>3. errTrapSuppressed' = Muted(Below) + Top.mute + f.mute - Top.mute
    BY MutedBelow DEF Go
  <2>. QED BY <2>1, <2>2, <2>3, MutedBelow
<1>4. TrapsMuted'
  <2>1. \A k \in 1..Depth : Own(stack'[k]) = Own(stack[k])
    BY <1>0, <1>1 DEF Top
  <2>2. \A j \in 1..(Depth - 1) : InEffects(stack'[j]) => Own(stack'[j + 1]) = 1
    <3>1. ASSUME NEW j \in 1..(Depth - 1), InEffects(stack'[j])
          PROVE  Own(stack'[j + 1]) = 1
      <4>1. j + 1 \in 1..Depth /\ InEffects(stack[j])
        BY <1>0, <1>1, <3>1
      <4>. QED BY <2>1, <4>1 DEF PathsInv, TrapsMuted
    <3>. QED BY <3>1
  <2>3. \A j, k \in 1..(Depth - 1) :
          InEffects(stack'[j]) /\ InEffects(stack'[k]) => j = k
    BY <1>1 DEF PathsInv, TrapsMuted
  <2>. QED BY <1>1, <1>3, <2>2, <2>3 DEF TrapsMuted
<1>. QED BY <1>2, <1>4 DEF PathsInv

\* Any call leaves paths that are told and counts what it suppresses.
LEMMA CallCounts ==
  ASSUME PathsInv, mode # "halt", Depth > 0, UNCHANGED result,
         NEW f, GoodFrame(f), Awaits(f), NEW g, GoodFrame(g), Call(f, g)
  PROVE  /\ PathsTold' /\ errTrapSuppressed' = Muted(stack') /\ Depth \in Nat
         /\ Depth' = Depth + 1 /\ stack'[Depth] = f /\ stack'[Depth + 1] = g
         /\ \A k \in 1..(Depth - 1) : stack'[k] = stack[k]
<1>0. IsStack /\ Depth \in Nat
  BY StackFacts DEF PathsInv, PathsTold
<1>1. /\ IsStack' /\ Depth' = Depth + 1 /\ stack'[Depth] = f /\ stack'[Depth + 1] = g
      /\ \A k \in 1..(Depth - 1) : stack'[k] = stack[k]
  BY <1>0, CallShape DEF Call, GoodFrame
<1>2. PathsTold'
  <2>1. \A k \in 1..Depth + 1 : GoodFrame(stack'[k])
    BY <1>0, <1>1 DEF PathsInv, PathsTold
  <2>2. \A k \in 1..Depth : Awaits(stack'[k])
    BY <1>0, <1>1 DEF PathsInv, PathsTold
  <2>3. mode' = "run" /\ AllTold(ret') /\ error' = "none"
    BY NoneTold DEF Call
  <2>4. "none" \in Issues
    BY DEF Issues
  <2>. QED BY <1>0, <1>1, <2>1, <2>2, <2>3, <2>4 DEF PathsInv, PathsTold
<1>3. errTrapSuppressed' = Muted(stack')
  <2>. DEFINE q == Append(Below, f)
  <2>1. /\ Len(Below) = Depth - 1
        /\ \A k \in 1..Len(Below) : Below[k].mute \in Int
        /\ f.mute \in Int /\ g.mute \in Int
    BY <1>0, StackFacts, MutedBelow DEF GoodFrame
  <2>2. PICK S : Below \in Seq(S)
    BY <1>0, StackFacts
  <2>3. Below \in Seq(S \cup {f})
    BY <2>2
  <2>4. /\ q \in Seq(S \cup {f}) /\ Len(q) = Len(Below) + 1 /\ q[Len(q)] = f
        /\ \A k \in 1..Len(Below) : q[k] = Below[k]
    BY <1>0, <2>1, <2>3
  <2>. HIDE DEF q
  <2>5. Muted(q) = Muted(Below) + f.mute
    BY <1>0, <2>1, <2>4, MutedAppend
  <2>6. stack' = Append(q, g)
    BY DEF Call, q
  <2>7. q \in Seq(S \cup {f, g})
    BY <2>4
  <2>8. /\ Len(stack') = Len(q) + 1 /\ stack'[Len(stack')] = g /\ Len(q) = Depth
        /\ \A k \in 1..Len(q) : stack'[k] = q[k]
    BY <1>0, <2>1, <2>4, <2>6, <2>7
  <2>9. \A k \in 1..Len(q) : q[k].mute \in Int
    BY <1>0, <2>1, <2>4, <2>8
  <2>10. Muted(stack') = Muted(q) + g.mute
    BY <1>0, <2>1, <2>8, <2>9, MutedAppend
  <2>11. errTrapSuppressed' = Muted(Below) + Top.mute + f.mute - Top.mute + g.mute
    BY MutedBelow DEF Call
  <2>. QED BY <2>1, <2>5, <2>10, <2>11, MutedBelow
<1>. QED BY <1>0, <1>1, <1>2, <1>3

\* A call that is not the one of an ERR trap.
LEMMA CallKeeps ==
  ASSUME PathsInv, mode # "halt", Depth > 0, UNCHANGED result,
         NEW f, GoodFrame(f), Own(f) = Own(Top), ~InEffects(f), Awaits(f),
         NEW g, GoodFrame(g), Call(f, g)
  PROVE  PathsInv'
<1>1. /\ PathsTold' /\ errTrapSuppressed' = Muted(stack') /\ Depth \in Nat
      /\ Depth' = Depth + 1 /\ stack'[Depth] = f /\ stack'[Depth + 1] = g
      /\ \A k \in 1..(Depth - 1) : stack'[k] = stack[k]
  BY CallCounts
<1>2. TrapsMuted'
  <2>1. \A k \in 1..Depth : Own(stack'[k]) = Own(stack[k])
    BY <1>1 DEF Top
  <2>2. \A j \in 1..Depth : InEffects(stack'[j]) => j \in 1..(Depth - 1) /\ InEffects(stack[j])
    BY <1>1
  <2>3. \A j \in 1..Depth : InEffects(stack'[j]) => Own(stack'[j + 1]) = 1
    <3>1. ASSUME NEW j \in 1..Depth, InEffects(stack'[j])
          PROVE  Own(stack'[j + 1]) = 1
      <4>1. j + 1 \in 1..Depth /\ j \in 1..(Depth - 1) /\ InEffects(stack[j])
        BY <1>1, <2>2, <3>1
      <4>. QED BY <2>1, <4>1 DEF PathsInv, TrapsMuted
    <3>. QED BY <3>1
  <2>4. \A j, k \in 1..Depth :
          InEffects(stack'[j]) /\ InEffects(stack'[k]) => j = k
    BY <2>2 DEF PathsInv, TrapsMuted
  <2>5. Depth' - 1 = Depth
    BY <1>1
  <2>. QED BY <1>1, <2>3, <2>4, <2>5 DEF TrapsMuted
<1>. QED BY <1>1, <1>2 DEF PathsInv

\* The call of an ERR trap: nothing suppresses it, so no other trap runs.
LEMMA TrapKeeps ==
  ASSUME PathsInv, mode # "halt", Depth > 0, UNCHANGED result,
         errTrapSuppressed = 0,
         NEW f, GoodFrame(f), Own(f) = Own(Top), InEffects(f),
         NEW g, GoodFrame(g), Own(g) = 1, Call(f, g)
  PROVE  PathsInv'
<1>0. Awaits(f)
  BY DEF Awaits, InEffects, Children
<1>1. /\ PathsTold' /\ errTrapSuppressed' = Muted(stack') /\ Depth \in Nat
      /\ Depth' = Depth + 1 /\ stack'[Depth] = f /\ stack'[Depth + 1] = g
      /\ \A k \in 1..(Depth - 1) : stack'[k] = stack[k]
  BY <1>0, CallCounts
<1>2. \A k \in 1..Depth : stack[k].mute \in Nat /\ Own(stack[k]) \in {0, 1}
  BY DEF PathsInv, PathsTold, GoodFrame
<1>3. \A k \in 1..Depth : stack[k].mute = 0
  <2>1. Muted(stack) = 0 /\ Depth = Len(stack)
    BY DEF PathsInv, TrapsMuted, Depth
  <2>. QED BY <1>1, <1>2, <2>1, MutedNone
<1>4. \A k \in 1..Depth : Own(stack[k]) = 0
  <2>1. ASSUME NEW k \in 1..Depth
        PROVE  Own(stack[k]) = 0
    <3>. DEFINE m == IF InEffects(stack[k]) THEN MutesErrTrap(stack[k]) ELSE 0
    <3>1. m \in {0, 1}
      BY DEF MutesErrTrap
    <3>2. Own(stack[k]) = stack[k].mute - m
      BY DEF Own
    <3>. HIDE DEF m
    <3>3. stack[k].mute = 0 /\ Own(stack[k]) \in {0, 1}
      BY <1>2, <1>3
    <3>. QED BY <3>1, <3>2, <3>3
  <2>. QED BY <2>1
<1>5. \A j \in 1..(Depth - 1) : ~InEffects(stack[j])
  <2>1. ASSUME NEW j \in 1..(Depth - 1), InEffects(stack[j])
        PROVE  FALSE
    <3>1. j + 1 \in 1..Depth
      BY <1>1
    <3>. QED BY <1>4, <2>1, <3>1 DEF PathsInv, TrapsMuted
  <2>. QED BY <2>1
<1>6. \A j \in 1..Depth : InEffects(stack'[j]) => j = Depth
  BY <1>1, <1>5
<1>7. TrapsMuted'
  BY <1>1, <1>6 DEF TrapsMuted
<1>. QED BY <1>1, <1>7 DEF PathsInv

\* A call that returns or fails.
LEMMA LeaveKeeps ==
  ASSUME PathsInv, mode # "halt", Depth > 0, UNCHANGED result,
         NEW paths, AllTold(paths), NEW how, NEW e, Leave(paths, how, e),
         \/ how = "return" /\ e = "none"
         \/ how = "raise" /\ e \in Issues \ {"none"}
  PROVE  PathsInv'
<1>0. IsStack /\ Depth \in Nat
  BY StackFacts DEF PathsInv, PathsTold
<1>1. /\ IsStack' /\ Depth' = Depth - 1
      /\ \A k \in 1..(Depth - 1) : stack'[k] = stack[k]
  BY <1>0, LeaveShape DEF Leave
<1>2. PathsTold'
  <2>1. \A k \in 1..(Depth - 1) : GoodFrame(stack'[k]) /\ Awaits(stack'[k])
    BY <1>0, <1>1 DEF PathsInv, PathsTold
  <2>2. AllTold(ret')
    BY CleanedUpTold DEF Leave
  <2>3. error' \in Issues /\ (mode' = "raise" => error' # "none")
    BY DEF Leave, Issues
  <2>. QED BY <1>0, <1>1, <2>1, <2>2, <2>3 DEF PathsInv, PathsTold
<1>3. errTrapSuppressed' = Muted(stack')
  BY MutedBelow DEF Leave
<1>4. TrapsMuted'
  <2>1. \A j \in 1..(Depth - 2) : stack'[j] = stack[j] /\ stack'[j + 1] = stack[j + 1]
    BY <1>0, <1>1
  <2>2. \A j \in 1..(Depth - 2) : j \in 1..(Depth - 1)
    BY <1>0
  <2>3. Depth' - 1 = Depth - 2
    BY <1>0, <1>1
  <2>4. \A j \in 1..(Depth - 2) : InEffects(stack'[j]) => Own(stack'[j + 1]) = 1
    BY <2>1, <2>2 DEF PathsInv, TrapsMuted
  <2>5. \A j, k \in 1..(Depth - 2) : InEffects(stack'[j]) /\ InEffects(stack'[k]) => j = k
    BY <2>1, <2>2 DEF PathsInv, TrapsMuted
  <2>. QED BY <1>3, <2>3, <2>4, <2>5 DEF TrapsMuted
<1>. QED BY <1>2, <1>4 DEF PathsInv

\* Execute ends with the main frame alone on the stack.
LEMMA HaltKeeps ==
  ASSUME PathsInv, Depth > 0, NEW paths, AllTold(paths),
         NEW verdict, verdict # "unexplained", Halt(paths, verdict)
  PROVE  PathsInv'
<1>0. IsStack /\ Depth \in Nat
  BY StackFacts DEF PathsInv, PathsTold
<1>1. stack' \in Seq({Top}) /\ Len(stack') = 1 /\ stack'[1] = Top
  BY DEF Halt
<1>2. GoodFrame(Top)
  BY <1>0 DEF PathsInv, PathsTold, Top
<1>3. IsStack' /\ Depth' = 1
  BY <1>1, <1>2 DEF IsStack, Depth, GoodFrame
<1>4. ret' = paths /\ error' = "none" /\ mode' = "halt" /\ result' = verdict
  BY DEF Halt
<1>5. PathsTold'
  BY <1>1, <1>2, <1>3, <1>4 DEF PathsTold, Issues
<1>6. TrapsMuted'
  BY <1>3, <1>4 DEF TrapsMuted
<1>. QED BY <1>5, <1>6 DEF PathsInv

-------------------------------------------------------------------------------
(* The frames the actions make. *)

\* The frame on the top, and what a callee handed it.
LEMMA TopGood ==
  ASSUME PathsInv, Depth > 0
  PROVE  /\ GoodFrame(Top) /\ AllTold(ret)
         /\ mode \in {"return", "raise"} => Awaits(Top)
         /\ error \in Issues /\ (mode = "raise" => error # "none")
<1>1. Depth \in Nat
  BY StackFacts DEF PathsInv, PathsTold
<1>. QED BY <1>1 DEF PathsInv, PathsTold, Top

\* The first of the paths that wait, and the first one that is classified.
LEMMA TopPaths ==
  ASSUME PathsInv, Depth > 0
  PROVE  /\ IsFrame(Top) /\ Top.err \in Issues
         /\ Waiting(Top) => Top.todo # <<>>
         /\ Top.kind \in Based => Sound(Top.base)
         /\ AllTold(ret) /\ error \in Issues /\ (mode = "raise" => error # "none")
         /\ Top.todo # <<>> => Told(First(Top.todo))
         /\ Top.work # <<>> => Told(First(Top.work)) /\ Told(Top.work[Len(Top.work)])
         /\ AllTold(Rest(Top.todo)) /\ AllTold(Rest(Top.work)) /\ AllTold(Front1(Top.work))
         /\ AllTold(Top.todo) /\ AllTold(Top.work) /\ AllTold(Top.out) /\ AllTold(Top.done)
BY TopGood, PartTold, RestTold DEF GoodFrame

\* The share of the frame on the top.
LEMMA TopMute ==
  ASSUME PathsInv, Depth > 0
  PROVE  Top.mute \in Nat /\ Own(Top) \in {0, 1}
BY TopGood DEF GoodFrame

\* A frame that goes on with another share of errTrapSuppressed.
LEMMA OtherShare ==
  ASSUME NEW t, GoodFrame(t), NEW f, IsFrame(f), f.kind = t.kind, f.base = t.base,
         f.err \in Issues,
         AllTold(f.todo), AllTold(f.work), AllTold(f.out), AllTold(f.done),
         Waiting(f) => f.todo # <<>>,
         f.mute \in Nat, Own(f) = Own(t)
  PROVE  GoodFrame(f)
BY DEF GoodFrame

\* A list adds what its statement suppresses, and takes it back.
LEMMA EffectsShare ==
  ASSUME NEW t, t.mute \in Nat, Own(t) \in {0, 1}, NEW f
  PROVE  /\ ~InEffects(t) /\ InEffects(f) /\ f.list = t.list /\ f.idx = t.idx
            /\ f.mute = t.mute + MutesErrTrap(t) => f.mute \in Nat /\ Own(f) = Own(t)
         /\ InEffects(t) /\ ~InEffects(f) /\ f.mute = t.mute - MutesErrTrap(t) =>
              f.mute \in Nat /\ Own(f) = Own(t)
<1>. DEFINE m == MutesErrTrap(t)
<1>1. m \in {0, 1}
  BY DEF MutesErrTrap
<1>2. ASSUME ~InEffects(t), InEffects(f), f.list = t.list, f.idx = t.idx,
             f.mute = t.mute + m
      PROVE  f.mute \in Nat /\ Own(f) = Own(t)
  <2>1. MutesErrTrap(f) = m
    BY <1>2 DEF MutesErrTrap
  <2>2. Own(f) = f.mute - m /\ Own(t) = t.mute
    BY <1>2, <2>1 DEF Own
  <2>. HIDE DEF m
  <2>. QED BY <1>1, <1>2, <2>2
<1>3. ASSUME InEffects(t), ~InEffects(f), f.mute = t.mute - m
      PROVE  f.mute \in Nat /\ Own(f) = Own(t)
  <2>1. Own(t) = t.mute - m
    BY <1>3 DEF Own
  <2>. HIDE DEF m
  <2>2. f.mute \in Int /\ f.mute \in Nat
    BY <1>1, <1>3, <2>1
  <2>3. Own(f) = f.mute
    BY <1>3, <2>2 DEF Own
  <2>. QED BY <1>3, <2>1, <2>2, <2>3
<1>. QED BY <1>2, <1>3

\* A frame that goes on as f in the same call.
LEMMA SameShare ==
  ASSUME NEW t, GoodFrame(t), NEW f, IsFrame(f), f.kind = t.kind, f.mute = t.mute,
         f.base = t.base, f.err \in Issues,
         AllTold(f.todo), AllTold(f.work), AllTold(f.out), AllTold(f.done),
         f.list = t.list, f.idx = t.idx \/ ~InEffects(f), InEffects(f) <=> InEffects(t),
         Waiting(f) => f.todo # <<>>
  PROVE  GoodFrame(f) /\ Own(f) = Own(t)
<1>1. Own(f) = Own(t)
  <2>1. CASE InEffects(t)
    BY <2>1 DEF Own, MutesErrTrap
  <2>2. CASE ~InEffects(t)
    BY <2>2 DEF Own
  <2>. QED BY <2>1, <2>2
<1>. QED BY <1>1 DEF GoodFrame

\* A frame at the start of its call.
LEMMA NewGood ==
  ASSUME NEW f, IsFrame(f), f.pc \in {"start", "loop"}, f.mute \in {0, 1},
         AllTold(f.todo), f.work = <<>>, AllTold(f.out), f.done = <<>>, f.err = "none",
         f.kind \in Based => Sound(f.base), Waiting(f) => f.todo # <<>>
  PROVE  GoodFrame(f) /\ Own(f) = f.mute
<1>1. Own(f) = f.mute
  BY DEF Own, InEffects
<1>. QED BY <1>1, NoneTold DEF GoodFrame, Issues

\* The frames of calls, lists, statements, scopes, replaced commands and loops.
LEMMA FreshGood ==
  ASSUME NEW k, NEW n, NEW paths, AllTold(paths),
         k \notin Based, paths # <<>> \/ k \notin Holding \cup {"logical"} \cup Children
  PROVE  GoodFrame(Frame(k, n, paths))
<1>. DEFINE f == Frame(k, n, paths)
<1>1. /\ IsFrame(f) /\ f.kind = k /\ f.pc = "start" /\ f.mute = 0 /\ f.todo = paths
      /\ f.work = <<>> /\ f.out = <<>> /\ f.done = <<>> /\ f.err = "none"
  BY DEF Frame, IsFrame, FrameFields
<1>. HIDE DEF f
<1>2. GoodFrame(f)
  BY <1>1, NewGood, NoneTold DEF Waiting
<1>. QED BY <1>2 DEF f

\* A list of statements, and the list of an ERR trap, which suppresses the trap.
LEMMA ListGood ==
  ASSUME NEW n, NEW list, NEW paths, AllTold(paths), NEW q
  PROVE  /\ GoodFrame(ListFrame(n, list, paths, q))
         /\ GoodFrame([ListFrame(n, list, paths, q) EXCEPT !.mute = 1])
         /\ Own([ListFrame(n, list, paths, q) EXCEPT !.mute = 1]) = 1
<1>. DEFINE f == ListFrame(n, list, paths, q)
            g == [f EXCEPT !.mute = 1]
<1>1. /\ IsFrame(f) /\ f.kind = "list" /\ f.pc = "start" /\ f.mute = 0 /\ f.todo = paths
      /\ f.work = <<>> /\ f.out = <<>> /\ f.done = <<>> /\ f.err = "none"
  BY DEF ListFrame, Frame, IsFrame, FrameFields
<1>. HIDE DEF f
<1>2. /\ IsFrame(g) /\ g.kind = "list" /\ g.pc = "start" /\ g.mute = 1 /\ g.todo = paths
      /\ g.work = <<>> /\ g.out = <<>> /\ g.done = <<>> /\ g.err = "none"
  BY <1>1 DEF IsFrame, FrameFields
<1>. HIDE DEF g
<1>3. GoodFrame(f)
  BY <1>1, NewGood, NoneTold DEF Waiting, Holding, Based, Children
<1>4. GoodFrame(g) /\ Own(g) = 1
  BY <1>2, NewGood, NoneTold DEF Waiting, Holding, Based, Children
<1>. QED BY <1>3, <1>4 DEF f, g

\* A statement, which pushes its substitution frame.
LEMMA StmtGood ==
  ASSUME NEW n, NEW s, Sound(s), NEW q
  PROVE  GoodFrame(StmtFrame(n, s, q))
<1>. DEFINE f    == StmtFrame(n, s, q)
            todo == <<Completed(PushFrame(s))>>
<1>1. AllTold(todo)
  BY FramesKeep, CompletedTold, FewTold DEF Keeps
<1>2. /\ IsFrame(f) /\ f.kind = "stmt" /\ f.pc = "start" /\ f.mute = 0 /\ f.todo = todo
      /\ f.work = <<>> /\ f.out = <<>> /\ f.done = <<>> /\ f.err = "none"
  BY DEF StmtFrame, Frame, IsFrame, FrameFields
<1>. HIDE DEF f, todo
<1>3. GoodFrame(f)
  BY <1>1, <1>2, NewGood, NoneTold DEF Waiting, Holding, Based, Children
<1>. QED BY <1>3 DEF f

\* A call that keeps the state of a parent.
LEMMA ScopeGood ==
  ASSUME NEW k, NEW n, NEW s, NEW t, Sound(t), k \in Based => Sound(s), NEW l
  PROVE  /\ GoodFrame(ScopeFrame(k, n, s, t))
         /\ GoodFrame([ScopeFrame(k, n, s, t) EXCEPT !.list = l])
<1>. DEFINE f    == ScopeFrame(k, n, s, t)
            g    == [f EXCEPT !.list = l]
            todo == <<Completed(t)>>
<1>1. AllTold(todo) /\ todo # <<>>
  BY CompletedTold, FewTold
<1>2. /\ IsFrame(f) /\ f.kind = k /\ f.pc = "start" /\ f.mute = 0 /\ f.todo = todo
      /\ f.work = <<>> /\ f.out = <<>> /\ f.done = <<>> /\ f.err = "none" /\ f.base = s
  BY DEF ScopeFrame, Frame, IsFrame, FrameFields
<1>. HIDE DEF f, todo
<1>3. /\ IsFrame(g) /\ g.kind = k /\ g.pc = "start" /\ g.mute = 0 /\ g.todo = todo
      /\ g.work = <<>> /\ g.out = <<>> /\ g.done = <<>> /\ g.err = "none" /\ g.base = s
  BY <1>2 DEF IsFrame, FrameFields
<1>. HIDE DEF g
<1>4. GoodFrame(f) /\ GoodFrame(g)
  BY <1>1, <1>2, <1>3, NewGood, NoneTold
<1>. QED BY <1>4 DEF f, g

\* exec, which keeps the state it may fail back to.
LEMMA ReplaceGood ==
  ASSUME NEW n, NEW p, Told(p), NEW s, Sound(s)
  PROVE  GoodFrame([Frame("replace", n, <<p>>) EXCEPT !.base = s])
<1>. DEFINE f    == [Frame("replace", n, <<p>>) EXCEPT !.base = s]
            todo == <<p>>
<1>1. AllTold(todo) /\ todo # <<>>
  BY FewTold
<1>2. /\ IsFrame(f) /\ f.kind = "replace" /\ f.pc = "start" /\ f.mute = 0 /\ f.todo = todo
      /\ f.work = <<>> /\ f.out = <<>> /\ f.done = <<>> /\ f.err = "none" /\ f.base = s
  BY DEF Frame, IsFrame, FrameFields
<1>. HIDE DEF f, todo
<1>3. GoodFrame(f)
  BY <1>1, <1>2, NewGood, NoneTold
<1>. QED BY <1>3 DEF f

\* A while loop, which starts with its condition.
LEMMA LoopGood ==
  ASSUME NEW n, NEW p, Told(p)
  PROVE  GoodFrame([Frame("while", n, <<>>) EXCEPT !.out = <<p>>, !.pc = "loop"])
<1>. DEFINE f   == [Frame("while", n, <<>>) EXCEPT !.out = <<p>>, !.pc = "loop"]
            out == <<p>>
<1>1. AllTold(out)
  BY FewTold
<1>2. /\ IsFrame(f) /\ f.kind = "while" /\ f.pc = "loop" /\ f.mute = 0 /\ f.todo = <<>>
      /\ f.work = <<>> /\ f.out = out /\ f.done = <<>> /\ f.err = "none"
  BY DEF Frame, IsFrame, FrameFields
<1>. HIDE DEF f, out
<1>3. GoodFrame(f)
  BY <1>1, <1>2, NewGood, NoneTold DEF Waiting, Holding, Based, Children
<1>. QED BY <1>3 DEF f

\* The top frame goes on with other paths, at another place of the call.
LEMMA GoOn ==
  ASSUME PathsInv, mode # "halt", Depth > 0, UNCHANGED result, NEW f, Go(f),
         IsFrame(f), f.kind = Top.kind, f.mute = Top.mute, f.base = Top.base,
         f.err \in Issues,
         AllTold(f.todo), AllTold(f.work), AllTold(f.out), AllTold(f.done),
         f.list = Top.list, f.idx = Top.idx \/ ~InEffects(f),
         InEffects(f) <=> InEffects(Top),
         Waiting(f) => f.todo # <<>>
  PROVE  PathsInv'
<1>1. GoodFrame(f) /\ Own(f) = Own(Top)
  BY SameShare, TopGood
<1>. QED BY <1>1, GoKeeps

\* evaluateStatements and the failure effects of its statements.
LEMMA ListsKeep ==
  ASSUME PathsInv, Lists
  PROVE  PathsInv'
<1>. USE GoOn, TopPaths
     DEF Running, Returned, OnTop, Correlates, CorrelateDone, Internal, Quietly,
         IsFrame, FrameFields, InEffects, Waiting, Holding, Children
<1>1. CASE ListNext
  BY <1>1, NoneTold DEF ListNext
<1>2. CASE ListFinish
  <2>1. AllTold(Top.done \o Top.todo)
    BY <1>2, ConcatTold DEF ListFinish
  <2>. QED BY <1>2, <2>1, LeaveKeeps DEF ListFinish, Return
<1>3. CASE ListSkip
  <2>. DEFINE p == First(Top.todo)
  <2>1. Told(p) /\ Told(Terminated(p))
    BY <1>3, TerminatedTold DEF ListSkip
  <2>2. AllTold(Append(Top.done, IF IsActive(p) THEN Terminated(p) ELSE p))
    BY <1>3, <2>1, AppendTold DEF ListSkip
  <2>. QED BY <1>3, <2>2 DEF ListSkip
<1>4. CASE ListEvaluate
  <2>. DEFINE f == [Top EXCEPT !.todo = Rest(@), !.pc = "call"]
              g == StmtFrame(Top.list[Top.idx], First(Top.todo).state, 0)
  <2>1. GoodFrame(g)
    BY <1>4, StmtGood DEF ListEvaluate, Told
  <2>2. GoodFrame(f) /\ Own(f) = Own(Top) /\ ~InEffects(f) /\ Awaits(f)
    BY <1>4, SameShare, TopGood DEF ListEvaluate, Awaits
  <2>. QED BY <1>4, <2>1, <2>2, CallKeeps DEF ListEvaluate
<1>5. CASE ListEvaluated
  <2>. DEFINE f == [Top EXCEPT !.pc = "effects", !.work = ret, !.out = <<>>,
                               !.mute = @ + MutesErrTrap(Top)]
  <2>1. /\ ~InEffects(Top) /\ InEffects(f) /\ f.list = Top.list /\ f.idx = Top.idx
        /\ f.mute = Top.mute + MutesErrTrap(Top)
    BY <1>5 DEF ListEvaluated
  <2>2. f.mute \in Nat /\ Own(f) = Own(Top)
    BY <1>5, <2>1, TopMute, EffectsShare DEF ListEvaluated
  <2>3. GoodFrame(f)
    BY <1>5, <2>2, OtherShare, TopGood, NoneTold DEF ListEvaluated
  <2>. QED BY <1>5, <2>2, <2>3, GoKeeps DEF ListEvaluated
<1>6. CASE EffectsSuppressed
  <2>. DEFINE f == [Top EXCEPT !.pc = "correlate", !.mute = @ - MutesErrTrap(Top)]
  <2>1. /\ InEffects(Top) /\ ~InEffects(f) /\ f.list = Top.list /\ f.idx = Top.idx
        /\ f.mute = Top.mute - MutesErrTrap(Top)
    BY <1>6 DEF EffectsSuppressed
  <2>2. f.mute \in Nat /\ Own(f) = Own(Top)
    BY <1>6, <2>1, TopMute, EffectsShare DEF EffectsSuppressed
  <2>3. GoodFrame(f)
    BY <1>6, <2>2, OtherShare, TopGood DEF EffectsSuppressed
  <2>. QED BY <1>6, <2>2, <2>3, GoKeeps DEF EffectsSuppressed
<1>7. CASE EffectsPass
  <2>1. AllTold(Append(Top.out, First(Top.work)))
    BY <1>7, AppendTold DEF EffectsPass
  <2>. QED BY <1>7, <2>1 DEF EffectsPass
<1>8. CASE EffectsFork
  <2>1. Told(First(Top.work)) /\ First(Top.work).status = "completed"
    BY <1>8 DEF EffectsFork, IsActive
  <2>2. AllTold(Resolved(First(Top.work)) \o Rest(Top.work))
    BY <2>1, <1>8, ResolvedTold, ConcatTold DEF EffectsFork
  <2>. QED BY <1>8, <2>2 DEF EffectsFork
<1>9. CASE EffectsFailure
  <2>. DEFINE p == First(Top.work)
              f == [Top EXCEPT !.work = Rest(@)]
              g == [ListFrame(Top.node, p.state.errTrap, <<p>>, 0) EXCEPT !.mute = 1]
  <2>1. Told(p) /\ AllTold(<<p>>) /\ AllTold(Append(Top.out, AfterFailure(p)))
    BY <1>9, FewTold, EffectsTold, AppendTold DEF EffectsFailure
  <2>2. CASE TrapObserves(p.state)
    <3>1. GoodFrame(g) /\ Own(g) = 1
      BY <2>1, ListGood
    <3>2. GoodFrame(f) /\ Own(f) = Own(Top) /\ InEffects(f)
      BY <1>9, SameShare, TopGood DEF EffectsFailure
    <3>3. Call(f, g) /\ errTrapSuppressed = 0
      BY <1>9, <2>2 DEF EffectsFailure, TrapObserves
    <3>. QED BY <1>9, <3>1, <3>2, <3>3, TrapKeeps DEF EffectsFailure
  <2>3. CASE ~TrapObserves(p.state)
    BY <1>9, <2>1, <2>3 DEF EffectsFailure
  <2>. QED BY <2>2, <2>3
<1>10. CASE EffectsTrapped
  <2>1. AllTold([k \in 1..Len(ret) |-> AfterFailure(ret[k])])
    BY <1>10, MapsTold DEF EffectsTrapped
  <2>2. AllTold(Top.out \o [k \in 1..Len(ret) |-> AfterFailure(ret[k])])
    BY <1>10, <2>1, ConcatTold DEF EffectsTrapped
  <2>. QED BY <1>10, <2>2 DEF EffectsTrapped
<1>11. CASE EffectsDone
  <2>. DEFINE f == [Top EXCEPT !.pc = "correlate", !.work = Top.out, !.out = <<>>,
                               !.mute = @ - MutesErrTrap(Top)]
  <2>1. /\ InEffects(Top) /\ ~InEffects(f) /\ f.list = Top.list /\ f.idx = Top.idx
        /\ f.mute = Top.mute - MutesErrTrap(Top)
    BY <1>11 DEF EffectsDone
  <2>2. f.mute \in Nat /\ Own(f) = Own(Top)
    BY <1>11, <2>1, TopMute, EffectsShare DEF EffectsDone
  <2>3. GoodFrame(f)
    BY <1>11, <2>2, OtherShare, TopGood, NoneTold DEF EffectsDone
  <2>. QED BY <1>11, <2>2, <2>3, GoKeeps DEF EffectsDone
<1>12. CASE CorrelatePass
  <2>1. AllTold(Append(Top.out, First(Top.work)))
    BY <1>12, AppendTold DEF CorrelatePass
  <2>. QED BY <1>12, <2>1 DEF CorrelatePass
<1>13. CASE CorrelateFork
  <2>1. Told(First(Top.work)) /\ First(Top.work).status = "completed"
    BY <1>13 DEF CorrelateFork, IsCorrelated
  <2>2. AllTold(Top.out \o Resolved(First(Top.work)))
    BY <2>1, <1>13, ResolvedTold, ConcatTold DEF CorrelateFork
  <2>. QED BY <1>13, <2>2 DEF CorrelateFork
<1>14. CASE ListStatementDone
  <2>1. AllTold([k \in 1..Len(Top.out) |-> Interrupted(Top.out[k])])
    BY <1>14, MapsTold DEF ListStatementDone
  <2>2. /\ AllTold(Top.done \o [k \in 1..Len(Top.out) |-> Interrupted(Top.out[k])])
        /\ AllTold(Top.done \o Top.out)
    BY <1>14, <2>1, ConcatTold DEF ListStatementDone
  <2>3. CASE cancelled
    BY <1>14, <2>2, <2>3, LeaveKeeps DEF ListStatementDone, Raise, Issues
  <2>4. CASE ~cancelled
    BY <1>14, <2>2, <2>4, NoneTold DEF ListStatementDone
  <2>. QED BY <2>3, <2>4
<1>. QED BY <1>1, <1>2, <1>3, <1>4, <1>5, <1>6, <1>7, <1>8, <1>9, <1>10,
         <1>11, <1>12, <1>13, <1>14 DEF Lists

\* A statement that ends without another call.
LEMMA YieldKeeps ==
  ASSUME PathsInv, Running("stmt", "start"), Top.todo # <<>>, UNCHANGED result,
         NEW p, Told(p), Yield(p)
  PROVE  PathsInv'
<1>1. AllTold(Append(Top.done, p)) /\ Depth > 0
  BY AppendTold, TopPaths DEF Running, OnTop
<1>. QED BY <1>1, GoOn, TopGood, TopPaths
     DEF Running, OnTop, Yield, Popped, IsFrame, FrameFields, InEffects,
         Waiting, Holding, Children

\* A statement that is evaluated by a call.
LEMMA EvaluateKeeps ==
  ASSUME PathsInv, Running("stmt", "start"), Top.todo # <<>>, UNCHANGED result,
         NEW g, GoodFrame(g), Evaluate(g)
  PROVE  PathsInv'
<1>. DEFINE f == [Popped EXCEPT !.pc = "call"]
<1>1. Depth > 0
  BY DEF Running, OnTop
<1>2. GoodFrame(f) /\ Own(f) = Own(Top) /\ ~InEffects(f) /\ Awaits(f)
  BY <1>1, SameShare, TopGood, TopPaths
     DEF Running, OnTop, Popped, IsFrame, FrameFields, InEffects,
         Waiting, Holding, Children, Awaits
<1>. QED BY <1>1, <1>2, CallKeeps DEF Running, Evaluate

\* A statement that asks for a command substitution.
LEMMA RequestKeeps ==
  ASSUME PathsInv, Running("stmt", "start"), Top.todo # <<>>, UNCHANGED result,
         NEW site, NEW s, Sound(s), Request(site, s)
  PROVE  PathsInv'
<1>. DEFINE f == [Popped EXCEPT !.pc = "resume"]
            g == ScopeFrame("subst", site, s, SubstitutionChild(s))
<1>1. Depth > 0
  BY DEF Running, OnTop
<1>2. GoodFrame(f) /\ Own(f) = Own(Top) /\ ~InEffects(f) /\ Awaits(f)
  BY <1>1, SameShare, TopGood, TopPaths
     DEF Running, OnTop, Popped, IsFrame, FrameFields, InEffects,
         Waiting, Holding, Children, Awaits
<1>3. GoodFrame(g)
  BY ChildrenKeep, ScopeGood DEF Keeps
<1>4. Call(f, g)
  BY DEF Request
<1>. QED BY <1>1, <1>2, <1>3, <1>4, CallKeeps DEF Running

\* The path a statement is evaluated on.
LEMMA SubjectTold ==
  ASSUME PathsInv, Depth > 0, Top.todo # <<>>
  PROVE  /\ Told(Subject) /\ Sound(Subject.state) /\ AllTold(<<Subject>>)
         /\ <<Subject>> # <<>>
<1>1. Told(Subject)
  BY TopPaths DEF Subject
<1>. QED BY <1>1, FewTold DEF Told

\* evaluateStatement, and the statements that are not commands.
LEMMA StatementsKeep ==
  ASSUME PathsInv, Statements
  PROVE  PathsInv'
<1>. USE GoOn, TopPaths
     DEF Running, Returned, OnTop, Internal, Quietly,
         IsFrame, FrameFields, InEffects, Waiting, Holding, Children
<1>1. CASE StmtCancelled
  <2>1. Told(GiveUp(Subject, "cancelled"))
    BY <1>1, SubjectTold, GiveUpTold DEF StmtCancelled, Issues
  <2>2. AllTold(Append(Top.done, GiveUp(Subject, "cancelled")))
    BY <1>1, <2>1, AppendTold DEF StmtCancelled
  <2>. QED BY <1>1, <2>2, LeaveKeeps DEF StmtCancelled, Raise, Issues
<1>2. CASE StmtEvaluated
  <2>1. AllTold(Top.done \o ret)
    BY <1>2, ConcatTold DEF StmtEvaluated
  <2>. QED BY <1>2, <2>1 DEF StmtEvaluated
<1>3. CASE StmtSubstituted
  BY <1>3 DEF StmtSubstituted
<1>4. CASE StmtResume
  <2>1. CASE Top.work = <<>>
    BY <1>4, <2>1 DEF StmtResume
  <2>2. CASE Top.work # <<>>
    <3>. DEFINE p == Top.work[Len(Top.work)]
    <3>1. Told(p) /\ AllTold(<<p>>)
      BY <1>4, <2>2, FewTold DEF StmtResume
    <3>2. AllTold(<<p>> \o Top.todo) /\ AllTold(Append(Top.done, p))
      BY <1>4, <3>1, ConcatTold, AppendTold DEF StmtResume
    <3>. QED BY <1>4, <2>2, <3>2 DEF StmtResume
  <2>. QED BY <2>1, <2>2
<1>5. CASE StmtFinish
  BY <1>5, LeaveKeeps DEF StmtFinish, Return
<1>. USE DEF StmtReady
<1>6. CASE EvaluateUnsupported
  BY <1>6, SubjectTold, UnresolvedTold, YieldKeeps DEF EvaluateUnsupported
<1>7. CASE DeclareFunction
  <2>. DEFINE t == SetExit(Subject.state, "zero")
              u == [t EXCEPT !.functions[Top.node.name] = Top.node.body]
  <2>1. Told(Subject) /\ Keeps(Subject.state, t)
    BY <1>7, SubjectTold, SetExitKeeps DEF DeclareFunction
  <2>. HIDE DEF t
  <2>2. Keeps(t, u)
    BY <2>1 DEF Keeps, Sound, IsState, StateFields
  <2>3. Told([Subject EXCEPT !.state = u])
    BY <2>1, <2>2, KeepsChain, StateTold
  <2>. QED BY <1>7, <2>3, YieldKeeps DEF DeclareFunction, t
<1>8. CASE EvaluateAssignment
  <2>1. \A e : Told([Subject EXCEPT !.state = SetExit(@, e)])
    BY <1>8, SubjectTold, SetExitKeeps, StateTold DEF EvaluateAssignment
  <2>. QED BY <1>8, <2>1, YieldKeeps DEF EvaluateAssignment
<1>9. CASE EvaluateBlock
  BY <1>9, SubjectTold, ListGood, EvaluateKeeps DEF EvaluateBlock
<1>10. CASE EvaluateCompound
  <2>1. GoodFrame(Frame(FrameOf(Top.node.kind), Top.node, <<Subject>>))
    BY <1>10, SubjectTold, FreshGood DEF EvaluateCompound, FrameOf, Based
  <2>. QED BY <1>10, <2>1, EvaluateKeeps DEF EvaluateCompound
<1>11. CASE EvaluateWhile
  <2>1. Told([Subject EXCEPT !.state = PushLoop(@)])
    BY <1>11, SubjectTold, LoopTold DEF EvaluateWhile
  <2>2. GoodFrame([Frame("while", Top.node, <<>>) EXCEPT
                     !.out = <<[Subject EXCEPT !.state = PushLoop(@)]>>, !.pc = "loop"])
    BY <2>1, LoopGood
  <2>. QED BY <1>11, <2>2, EvaluateKeeps DEF EvaluateWhile
<1>12. CASE RequestForItems
  <2>1. Sound(Counted(Subject).state)
    BY <1>12, SubjectTold, LoopTold DEF RequestForItems, Told
  <2>. QED BY <1>12, <2>1, RequestKeeps DEF RequestForItems
<1>13. CASE EvaluateFor
  <2>. DEFINE p == [Counted(Subject) EXCEPT !.state = SetExit(@, "zero")]
  <2>1. AllTold(<<p>>)
    BY <1>13, SubjectTold, LoopTold, FewTold DEF EvaluateFor
  <2>2. GoodFrame(Frame("for", Top.node, <<p>>))
    BY <2>1, FreshGood DEF Based
  <2>. QED BY <1>13, <2>2, EvaluateKeeps DEF EvaluateFor
<1>14. CASE EvaluateChild
  <2>. DEFINE s == Subject.state
              g == ScopeFrame(Top.node.kind, Top.node, s,
                              IF Top.node.kind = "subshell"
                              THEN SubshellChild(s) ELSE BackgroundChild(s))
  <2>1. Sound(s) /\ Sound(SubshellChild(s)) /\ Sound(BackgroundChild(s))
    BY <1>14, SubjectTold, ChildrenKeep DEF EvaluateChild, Keeps
  <2>2. GoodFrame(g)
    BY <2>1, ScopeGood
  <2>. QED BY <1>14, <2>2, EvaluateKeeps DEF EvaluateChild
<1>15. CASE EvaluatePipeline
  BY <1>15, SubjectTold, ScopeGood, EvaluateKeeps DEF EvaluatePipeline
<1>. QED BY <1>1, <1>2, <1>3, <1>4, <1>5, <1>6, <1>7, <1>8, <1>9, <1>10,
         <1>11, <1>12, <1>13, <1>14, <1>15 DEF Statements

\* The top frame makes a call and goes on with other paths when it returns.
LEMMA CallOn ==
  ASSUME PathsInv, mode # "halt", Depth > 0, UNCHANGED result, NEW f, NEW g, Call(f, g),
         GoodFrame(g),
         IsFrame(f), f.kind = Top.kind, f.mute = Top.mute, f.base = Top.base,
         f.err \in Issues,
         AllTold(f.todo), AllTold(f.work), AllTold(f.out), AllTold(f.done),
         f.list = Top.list, ~InEffects(f), ~InEffects(Top),
         Waiting(f) => f.todo # <<>>, Awaits(f)
  PROVE  PathsInv'
<1>1. GoodFrame(f) /\ Own(f) = Own(Top)
  BY SameShare, TopGood
<1>. QED BY <1>1, CallKeeps

\* Calls, handlers and the wrappers around them.
LEMMA CommandsKeep ==
  ASSUME PathsInv, Commands
  PROVE  PathsInv'
<1>. USE DEF Quietly, Internal, CallReady, StmtReady
<1>1. CASE CallRefused
  BY <1>1, SubjectTold, RefusedTold, YieldKeeps DEF CallRefused, Running, OnTop
<1>2. CASE RequestSubstitution
  BY <1>2, SubjectTold, RequestKeeps DEF RequestSubstitution, Running, OnTop
<1>3. CASE CallFunction
  <2>1. Sound(Subject.state) /\ Sound(EnterFunction(Subject.state))
    BY <1>3, SubjectTold, ScopesKeep DEF CallFunction, Running, OnTop, Keeps
  <2>2. GoodFrame([ScopeFrame("function", Top.node, Subject.state,
                              EnterFunction(Subject.state))
                     EXCEPT !.list = Subject.state.functions[Top.node.name]])
    BY <2>1, ScopeGood
  <2>. QED BY <1>3, <2>2, EvaluateKeeps DEF CallFunction
<1>4. CASE CallControl
  <2>1. Told([Subject EXCEPT !.state = LanguageControl(@, Top.node)])
    BY <1>4, SubjectTold, ControlKeeps, StateTold DEF CallControl, Running, OnTop
  <2>. QED BY <1>4, <2>1, YieldKeeps DEF CallControl
<1>5. CASE CallBuiltin
  <2>1. Told([Subject EXCEPT !.state = ApplyBuiltin(@, Top.node)])
    BY <1>5, SubjectTold, BuiltinKeeps, StateTold DEF CallBuiltin, Running, OnTop
  <2>. QED BY <1>5, <2>1, YieldKeeps DEF CallBuiltin
<1>6. CASE CallEval
  <2>1. GoodFrame(Frame("eval", Top.node, <<Subject>>))
    BY <1>6, SubjectTold, FreshGood DEF CallEval, Running, OnTop, Based
  <2>. QED BY <1>6, <2>1, EvaluateKeeps DEF CallEval
<1>7. CASE CallSource
  <2>. DEFINE t == [Subject.state EXCEPT !.sourceDepth = @ + 1]
              p == [Subject EXCEPT !.state = t]
  <2>1. Told(Subject) /\ Keeps(Subject.state, t)
    BY <1>7, SubjectTold, ScopesKeep DEF CallSource, Running, OnTop
  <2>2. Told(p)
    BY <2>1, StateTold
  <2>3. [Subject EXCEPT !.state.sourceDepth = @ + 1] = p
    BY <2>1 DEF Told, IsPath
  <2>. HIDE DEF p
  <2>4. GoodFrame(Frame("source", Top.node, <<p>>))
    <3>1. AllTold(<<p>>) /\ <<p>> # <<>>
      BY <2>2, FewTold
    <3>. QED BY <3>1, FreshGood DEF Based
  <2>5. GoodFrame(Frame("source", Top.node, <<[Subject EXCEPT !.state.sourceDepth = @ + 1]>>))
    BY <2>3, <2>4, Zenon
  <2>. QED BY <1>7, <2>5, EvaluateKeeps DEF CallSource
<1>8. CASE CallShell
  <2>1. Sound(Subject.state) /\ Sound(FreshShell(Subject.state))
    BY <1>8, SubjectTold, ChildrenKeep DEF CallShell, Running, OnTop
  <2>2. GoodFrame(ScopeFrame("shell", Top.node, Subject.state, FreshShell(Subject.state)))
    BY <2>1, ScopeGood
  <2>. QED BY <1>8, <2>2, EvaluateKeeps DEF CallShell
<1>9. CASE CallExec
  <2>1. Told(Subject) /\ Sound(SnapshotForUnknownFailure(Subject.state))
    BY <1>9, SubjectTold, ChildrenKeep DEF CallExec, Running, OnTop
  <2>2. GoodFrame([Frame("replace", Top.node, <<Subject>>) EXCEPT
                     !.base = SnapshotForUnknownFailure(Subject.state)])
    BY <2>1, ReplaceGood
  <2>. QED BY <1>9, <2>2, EvaluateKeeps DEF CallExec
<1>10. CASE CallCommand
  <2>1. GoodFrame(Frame("invoke", Top.node, <<Subject>>))
    BY <1>10, SubjectTold, FreshGood DEF CallCommand, Running, OnTop, Based
  <2>. QED BY <1>10, <2>1, EvaluateKeeps DEF CallCommand
<1>. USE DEF Invoking
\* A handler runs on the path the command was called with.
<1>11. ASSUME Invoking
       PROVE  /\ Depth > 0 /\ mode # "halt" /\ Told(Subject) /\ Sound(Subject.state)
              /\ \A o : Told(Outcome(Subject, Invoked, o))
  <2>1. Top.todo # <<>>
    BY <1>11, TopPaths DEF Waiting, Holding
  <2>. QED BY <1>11, <2>1, SubjectTold, OutcomeTold
<1>12. CASE InvokeUnregistered
  <2>. DEFINE p == Emitted([Subject EXCEPT !.state = SetExit(@, "unknown")])
  <2>1. Told(p)
    BY <1>11, <1>12, SetExitKeeps, StateTold, RefusedTold DEF InvokeUnregistered
  <2>2. AllTold(<<p>>)
    BY <2>1, FewTold
  <2>. QED BY <1>11, <1>12, <2>2, LeaveKeeps DEF InvokeUnregistered, Return
<1>13. CASE InvokeHandler
  <2>1. PICK o : Return(<<Outcome(Subject, Invoked, o)>>)
    BY <1>13 DEF InvokeHandler
  <2>2. AllTold(<<Outcome(Subject, Invoked, o)>>)
    BY <1>11, <1>13, FewTold DEF InvokeHandler
  <2>. QED BY <1>11, <1>13, <2>1, <2>2, LeaveKeeps DEF InvokeHandler, Return
<1>14. CASE InvokeFailing
  <2>1. Told(GiveUp(Outcome(Subject, Invoked, "ok"), "handler"))
    BY <1>11, <1>14, GiveUpTold DEF InvokeFailing, Issues
  <2>2. AllTold(<<GiveUp(Outcome(Subject, Invoked, "ok"), "handler")>>)
    BY <2>1, FewTold
  <2>. QED BY <1>11, <1>14, <2>2, LeaveKeeps DEF InvokeFailing, Raise, Issues
<1>15. CASE InvokeDelegating
  <2>. DEFINE g == Frame("delegate", Delegate[Invoked],
                         <<Outcome(Subject, Invoked, "ok")>>)
  <2>1. AllTold(<<Outcome(Subject, Invoked, "ok")>>)
        /\ <<Outcome(Subject, Invoked, "ok")>> # <<>>
    BY <1>11, <1>15, FewTold DEF InvokeDelegating
  <2>2. GoodFrame(g)
    BY <2>1, FreshGood DEF Based
  <2>3. Call([Top EXCEPT !.pc = "call"], g) /\ UNCHANGED result
    BY <1>15 DEF InvokeDelegating
  <2>. HIDE DEF g
  <2>. QED BY <1>11, <1>15, <2>2, <2>3, CallOn, TopPaths
       DEF InvokeDelegating, IsFrame, FrameFields, InEffects, Waiting, Holding,
           Awaits, Children
<1>16. CASE WrapperStart
  <2>. DEFINE f == [Top EXCEPT !.pc = "call"]
              g == CASE Top.kind = "replace"  -> Frame("invoke", Top.node, Top.todo)
                     [] Top.kind = "function" -> StmtFrame(Top.list[1], Subject.state, 0)
                     [] OTHER -> ListFrame(Top.node, Top.node.body, Top.todo, 0)
  <2>1. /\ Depth > 0 /\ mode # "halt" /\ UNCHANGED result /\ Call(f, g)
        /\ Top.kind \in {"replace", "function", "eval", "source"}
    BY <1>16 DEF WrapperStart, Checking
  <2>2. Top.todo # <<>> /\ AllTold(Top.todo)
    BY <2>1, TopPaths DEF Waiting, Holding
  <2>3. Sound(Subject.state)
    BY <2>1, <2>2, SubjectTold
  <2>4. CASE Top.kind = "replace"
    <3>1. GoodFrame(Frame("invoke", Top.node, Top.todo))
      BY <2>2, FreshGood DEF Based
    <3>2. g = Frame("invoke", Top.node, Top.todo)
      BY <2>4
    <3>3. GoodFrame(g)
      BY <3>1, <3>2, Zenon
    <3>. HIDE DEF g
    <3>. QED BY <2>1, <2>2, <3>3, CallOn, TopPaths
         DEF IsFrame, FrameFields, InEffects, Waiting, Awaits, Children
  <2>5. CASE Top.kind = "function"
    <3>1. GoodFrame(StmtFrame(Top.list[1], Subject.state, 0))
      BY <2>3, StmtGood
    <3>2. g = StmtFrame(Top.list[1], Subject.state, 0)
      BY <2>5
    <3>3. GoodFrame(g)
      BY <3>1, <3>2, Zenon
    <3>. HIDE DEF g
    <3>. QED BY <2>1, <2>2, <3>3, CallOn, TopPaths
         DEF IsFrame, FrameFields, InEffects, Waiting, Awaits, Children
  <2>6. CASE Top.kind \in {"eval", "source"}
    <3>1. GoodFrame(ListFrame(Top.node, Top.node.body, Top.todo, 0))
      BY <2>2, ListGood
    <3>2. g = ListFrame(Top.node, Top.node.body, Top.todo, 0)
      BY <2>6
    <3>3. GoodFrame(g)
      BY <3>1, <3>2, Zenon
    <3>. HIDE DEF g
    <3>. QED BY <2>1, <2>2, <3>3, CallOn, TopPaths
         DEF IsFrame, FrameFields, InEffects, Waiting, Awaits, Children
  <2>. QED BY <2>1, <2>4, <2>5, <2>6
<1>17. CASE WrapperCancelled
  <2>1. Depth > 0 /\ Top.todo # <<>>
    BY <1>17, TopPaths DEF WrapperCancelled, Checking, Waiting, Holding
  <2>2. Told(GiveUp(Subject, "cancelled"))
    BY <2>1, SubjectTold, GiveUpTold DEF Issues
  <2>3. AllTold(<<GiveUp(Subject, "cancelled")>>)
    BY <2>2, FewTold
  <2>. QED BY <1>17, <2>1, <2>3, LeaveKeeps DEF WrapperCancelled, Return
<1>18. CASE WrapperReturn
  <2>. DEFINE paths == IF Top.kind = "replace"
                       THEN [k \in 1..Len(ret) |-> Replaced(Top, ret[k])] ELSE ret
  <2>1. AllTold(paths)
    BY <1>18, TopPaths, MapsBaseTold DEF WrapperReturn, Based
  <2>. QED BY <1>18, <2>1, LeaveKeeps DEF WrapperReturn, Return
<1>. QED BY <1>1, <1>2, <1>3, <1>4, <1>5, <1>6, <1>7, <1>8, <1>9, <1>10, <1>12,
         <1>13, <1>14, <1>15, <1>16, <1>17, <1>18 DEF Commands

\* A call that takes all the paths that wait, or all that were classified.
LEMMA CallWithAll ==
  ASSUME PathsInv, mode # "halt", Depth > 0, UNCHANGED result, NEW g, GoodFrame(g),
         Top.kind \notin Holding \cup {"list"}, NEW c, c \notin {"start", "effects", "traps"}
  PROVE  /\ Call([Top EXCEPT !.pc = c, !.todo = <<>>], g) => PathsInv'
         /\ Call([Top EXCEPT !.todo = <<>>, !.pc = c], g) => PathsInv'
         /\ Call([Top EXCEPT !.pc = c, !.out = <<>>], g) => PathsInv'
<1>. DEFINE f == [Top EXCEPT !.pc = c, !.todo = <<>>]
            h == [Top EXCEPT !.pc = c, !.out = <<>>]
<1>1. IsFrame(Top)
  BY TopPaths
<1>2. [Top EXCEPT !.todo = <<>>, !.pc = c] = f
  BY <1>1 DEF IsFrame, FrameFields
<1>3. /\ IsFrame(f) /\ f.pc = c /\ f.todo = <<>>
      /\ f.kind = Top.kind /\ f.mute = Top.mute /\ f.base = Top.base /\ f.err = Top.err
      /\ f.list = Top.list /\ f.work = Top.work /\ f.out = Top.out /\ f.done = Top.done
  BY <1>1 DEF IsFrame, FrameFields
<1>4. /\ IsFrame(h) /\ h.pc = c /\ h.out = <<>>
      /\ h.kind = Top.kind /\ h.mute = Top.mute /\ h.base = Top.base /\ h.err = Top.err
      /\ h.list = Top.list /\ h.work = Top.work /\ h.todo = Top.todo /\ h.done = Top.done
  BY <1>1 DEF IsFrame, FrameFields
<1>. HIDE DEF f, h
<1>5. ASSUME Call(f, g) PROVE PathsInv'
  BY <1>3, <1>5, CallOn, TopPaths, NoneTold DEF InEffects, Waiting, Awaits
<1>6. ASSUME Call(h, g) PROVE PathsInv'
  BY <1>4, <1>6, CallOn, TopPaths, NoneTold DEF InEffects, Waiting, Awaits
<1>. QED BY <1>2, <1>5, <1>6 DEF f, h

\* Negation, && and ||, and if.
LEMMA BranchesKeep ==
  ASSUME PathsInv,
         \/ NotStart \/ NotEvaluated \/ NotFinish
         \/ ConditionStart \/ ConditionEvaluated \/ BranchEnded \/ BranchResolve
         \/ BranchStopped \/ LogicalBranch \/ IfBranch \/ BranchReturned \/ BranchFinish
  PROVE  PathsInv'
<1>. USE GoOn, TopPaths
     DEF Running, Returned, OnTop, Correlates, CorrelateDone, Internal, Quietly,
         IsFrame, FrameFields, InEffects, Waiting, Holding, Children
<1>1. CASE NotStart
  <2>1. Sound(Subject.state)
    BY <1>1, SubjectTold DEF NotStart
  <2>2. GoodFrame(StmtFrame(Top.node.body[1], Subject.state, 1))
    BY <2>1, StmtGood
  <2>. QED BY <1>1, <2>2, CallOn DEF NotStart, Awaits
<1>2. CASE NotEvaluated
  BY <1>2 DEF NotEvaluated
<1>3. CASE NotFinish
  <2>1. AllTold([k \in 1..Len(Top.out) |-> Invert(Top.out[k])])
    BY <1>3, MapsTold DEF NotFinish
  <2>. QED BY <1>3, <2>1, LeaveKeeps DEF NotFinish, Return
<1>4. CASE ConditionStart
  <2>1. CASE Top.kind = "logical"
    <3>1. Sound(Subject.state)
      BY <1>4, <2>1, SubjectTold DEF ConditionStart
    <3>2. GoodFrame(StmtFrame(Top.node.cond[1], Subject.state, 1))
      BY <3>1, StmtGood
    <3>3. Call([Top EXCEPT !.pc = "call", !.todo = <<>>],
               StmtFrame(Top.node.cond[1], Subject.state, 1))
      BY <1>4, <2>1 DEF ConditionStart
    <3>. QED BY <1>4, <2>1, <3>2, <3>3, CallWithAll DEF ConditionStart
  <2>2. CASE Top.kind = "if" /\ Top.node.cond = <<>>
    <3>1. GoodFrame(ListFrame(Top.node, Top.node.body, Top.todo, 0))
      BY <1>4, ListGood DEF ConditionStart
    <3>2. Call([Top EXCEPT !.pc = "branch", !.todo = <<>>],
               ListFrame(Top.node, Top.node.body, Top.todo, 0))
      BY <1>4, <2>2 DEF ConditionStart
    <3>. QED BY <1>4, <2>2, <3>1, <3>2, CallWithAll DEF ConditionStart
  <2>3. CASE Top.kind = "if" /\ Top.node.cond # <<>>
    <3>1. GoodFrame(ListFrame(Top.node, Top.node.cond, Top.todo, 1))
      BY <1>4, ListGood DEF ConditionStart
    <3>2. Call([Top EXCEPT !.pc = "call", !.todo = <<>>],
               ListFrame(Top.node, Top.node.cond, Top.todo, 1))
      BY <1>4, <2>3 DEF ConditionStart
    <3>. QED BY <1>4, <2>3, <3>1, <3>2, CallWithAll DEF ConditionStart
  <2>. QED BY <1>4, <2>1, <2>2, <2>3 DEF ConditionStart
<1>5. CASE ConditionEvaluated
  BY <1>5 DEF ConditionEvaluated, BranchKinds
<1>. USE DEF Branching, BranchKinds, Deciding, Chosen, Choice, Popped, Subject
<1>6. CASE BranchEnded
  <2>1. AllTold(Append(Top.done, Subject))
    BY <1>6, AppendTold DEF BranchEnded
  <2>. QED BY <1>6, <2>1 DEF BranchEnded
<1>7. CASE BranchResolve
  <2>1. AllTold(Resolved(Subject))
    BY <1>7, ResolvedTold DEF BranchResolve
  <2>. QED BY <1>7, <2>1 DEF BranchResolve
<1>8. CASE BranchStopped
  <2>1. Told(Terminated(Choice))
    BY <1>8, TerminatedTold DEF BranchStopped
  <2>2. AllTold(Append(Top.done, Terminated(Choice)))
    BY <1>8, <2>1, AppendTold DEF BranchStopped
  <2>. QED BY <1>8, <2>2 DEF BranchStopped
<1>9. CASE LogicalBranch
  <2>1. Sound(Choice.state) /\ AllTold(Append(Top.done, Choice))
    BY <1>9, AppendTold DEF LogicalBranch, Told
  <2>2. GoodFrame(StmtFrame(Top.node.body[1], Choice.state, 0))
    BY <2>1, StmtGood
  <2>3. CASE RunsRight(Top.node, Choice.state)
    BY <1>9, <2>2, <2>3, CallOn DEF LogicalBranch, Awaits
  <2>4. CASE ~RunsRight(Top.node, Choice.state)
    BY <1>9, <2>1, <2>4 DEF LogicalBranch
  <2>. QED BY <2>3, <2>4
<1>10. CASE IfBranch
  <2>1. Told(Choice) /\ Sound(Choice.state)
    BY <1>10 DEF IfBranch, Told
  <2>2. CASE Succeeded(Choice.state)
    <3>1. GoodFrame(ListFrame(Top.node, Top.node.body, <<Choice>>, 0))
      BY <2>1, FewTold, ListGood
    <3>. QED BY <1>10, <2>2, <3>1, CallOn DEF IfBranch, Awaits
  <2>3. CASE ~Succeeded(Choice.state) /\ Top.node.els # <<>>
    <3>1. AllTold(<<Completed(Choice.state)>>)
      BY <2>1, CompletedTold, FewTold
    <3>2. GoodFrame(Frame("if", Top.node.els[1], <<Completed(Choice.state)>>))
      BY <3>1, FreshGood DEF Based
    <3>. QED BY <1>10, <2>3, <3>2, CallOn DEF IfBranch, Awaits
  <2>4. CASE ~Succeeded(Choice.state) /\ Top.node.els = <<>>
    <3>1. Told([Choice EXCEPT !.state = SetExit(@, "zero")])
      BY <2>1, SetExitKeeps, StateTold
    <3>2. AllTold(Append(Top.done, [Choice EXCEPT !.state = SetExit(@, "zero")]))
      BY <1>10, <3>1, AppendTold DEF IfBranch
    <3>. QED BY <1>10, <2>4, <3>2 DEF IfBranch
  <2>. QED BY <2>2, <2>3, <2>4
<1>11. CASE BranchReturned
  <2>1. AllTold(Top.done \o ret)
    BY <1>11, ConcatTold DEF BranchReturned
  <2>. QED BY <1>11, <2>1 DEF BranchReturned
<1>12. CASE BranchFinish
  BY <1>12, LeaveKeeps DEF BranchFinish, Return
<1>. QED BY <1>1, <1>2, <1>3, <1>4, <1>5, <1>6, <1>7, <1>8, <1>9, <1>10,
         <1>11, <1>12

\* while, until and for.
LEMMA LoopsKeep ==
  ASSUME PathsInv,
         \/ WhileCondition \/ WhileBranch \/ WhileBody
         \/ LoopBodyEvaluated \/ LoopCollect \/ LoopCollected
         \/ ForItem \/ ForBody \/ ForFinish
  PROVE  PathsInv'
<1>. USE GoOn, TopPaths
     DEF Running, Returned, OnTop, Internal, Quietly,
         IsFrame, FrameFields, InEffects, Waiting, Holding, Children
<1>1. CASE WhileCondition
  <2>1. CASE Top.out = <<>>
    BY <1>1, <2>1, LeaveKeeps DEF WhileCondition, Return
  <2>2. CASE Top.out # <<>>
    <3>1. GoodFrame(ListFrame(Top.node, Top.node.cond, Top.out, 1))
      BY <1>1, ListGood DEF WhileCondition
    <3>2. Call([Top EXCEPT !.pc = "call", !.out = <<>>],
               ListFrame(Top.node, Top.node.cond, Top.out, 1))
      BY <1>1, <2>2 DEF WhileCondition
    <3>. QED BY <1>1, <3>1, <3>2, CallWithAll DEF WhileCondition
  <2>. QED BY <2>1, <2>2
<1>. USE DEF Branching, BranchKinds, Deciding, Chosen, Choice, Popped, Subject
<1>2. CASE WhileBranch
  <2>. DEFINE p == [Choice EXCEPT !.state = SetExit(@, CurrentLoopExit(@))]
  <2>1. Told(Choice) /\ Told(p)
    BY <1>2, SetExitKeeps, StateTold DEF WhileBranch, Told
  <2>2. AllTold(Append(Top.out, Choice)) /\ AllTold(Append(Top.done, p))
    BY <1>2, <2>1, AppendTold DEF WhileBranch
  <2>. HIDE DEF p
  <2>3. CASE EntersBody(Top.node, Choice.state)
    BY <1>2, <2>2, <2>3 DEF WhileBranch
  <2>4. CASE ~EntersBody(Top.node, Choice.state)
    <3>1. Go([Chosen EXCEPT !.done = Append(@, p)])
      BY <1>2, <2>4 DEF WhileBranch, p
    <3>. QED BY <1>2, <2>2, <3>1 DEF WhileBranch
  <2>. QED BY <2>3, <2>4
<1>3. CASE WhileBody
  <2>1. CASE Top.out = <<>>
    BY <1>3, <2>1, LeaveKeeps DEF WhileBody, Return
  <2>2. CASE Top.out # <<>>
    <3>1. GoodFrame(ListFrame(Top.node, Top.node.body, Top.out, 0))
      BY <1>3, ListGood DEF WhileBody
    <3>2. Call([Top EXCEPT !.pc = "merge", !.out = <<>>],
               ListFrame(Top.node, Top.node.body, Top.out, 0))
      BY <1>3, <2>2 DEF WhileBody
    <3>. QED BY <1>3, <3>1, <3>2, CallWithAll DEF WhileBody
  <2>. QED BY <2>1, <2>2
<1>4. CASE LoopBodyEvaluated
  BY <1>4 DEF LoopBodyEvaluated
<1>5. CASE LoopCollect
  <2>. DEFINE p == IF Top.kind = "while" /\ Choice.status = "completed"
                   THEN [Choice EXCEPT !.state = SetLoopExit(@)] ELSE Choice
  <2>1. Told(p)
    BY <1>5, LoopTold DEF LoopCollect
  <2>2. AllTold(Append(Top.out, AfterIteration(p)))
        /\ AllTold(Append(Top.done, AfterIteration(p)))
    BY <1>5, <2>1, LoopTold, AppendTold DEF LoopCollect
  <2>3. Go(IF LoopGoesOn(p)
           THEN [Chosen EXCEPT !.out = Append(@, AfterIteration(p))]
           ELSE [Chosen EXCEPT !.done = Append(@, AfterIteration(p))])
    BY <1>5 DEF LoopCollect
  <2>. HIDE DEF p
  <2>4. CASE LoopGoesOn(p)
    BY <1>5, <2>2, <2>3, <2>4 DEF LoopCollect
  <2>5. CASE ~LoopGoesOn(p)
    BY <1>5, <2>2, <2>3, <2>5 DEF LoopCollect
  <2>. QED BY <2>4, <2>5
<1>6. CASE LoopCollected
  <2>1. CASE Top.kind = "while"
    BY <1>6, <2>1 DEF LoopCollected
  <2>2. CASE Top.kind = "for"
    BY <1>6, <2>2, NoneTold DEF LoopCollected
  <2>. QED BY <1>6, <2>1, <2>2 DEF LoopCollected
<1>7. CASE ForItem
  <2>. DEFINE p == IF Subject.status = "completed" THEN Terminated(Subject) ELSE Subject
  <2>1. Told(Subject) /\ Told(p)
    BY <1>7, TerminatedTold DEF ForItem
  <2>2. AllTold(Append(Top.out, Subject)) /\ AllTold(Append(Top.done, p))
    BY <1>7, <2>1, AppendTold DEF ForItem
  <2>3. CASE Subject.status = "completed" /\ ~stop
    BY <1>7, <2>2, <2>3 DEF ForItem
  <2>4. CASE ~(Subject.status = "completed" /\ ~stop)
    <3>1. Go([Popped EXCEPT !.done = Append(@, p)])
      BY <1>7, <2>4 DEF ForItem
    <3>. HIDE DEF p
    <3>. QED BY <1>7, <2>2, <3>1 DEF ForItem
  <2>. QED BY <2>3, <2>4
<1>8. CASE ForBody
  <2>1. CASE Top.out = <<>>
    BY <1>8, <2>1, LeaveKeeps DEF ForBody, Return
  <2>2. CASE Top.out # <<>>
    <3>1. GoodFrame(ListFrame(Top.node, Top.node.body, Top.out, 0))
      BY <1>8, ListGood DEF ForBody
    <3>2. Call([Top EXCEPT !.pc = "merge", !.out = <<>>],
               ListFrame(Top.node, Top.node.body, Top.out, 0))
      BY <1>8, <2>2 DEF ForBody
    <3>. QED BY <1>8, <3>1, <3>2, CallWithAll DEF ForBody
  <2>. QED BY <2>1, <2>2
<1>9. CASE ForFinish
  <2>1. AllTold(Top.done \o Top.todo)
    BY <1>9, ConcatTold DEF ForFinish
  <2>. QED BY <1>9, <2>1, LeaveKeeps DEF ForFinish, Return
<1>. QED BY <1>1, <1>2, <1>3, <1>4, <1>5, <1>6, <1>7, <1>8, <1>9

\* Pipelines.
LEMMA PipelinesKeep ==
  ASSUME PathsInv,
         \/ PipeLeft \/ PipeSideEvaluated \/ PipeSideResolved \/ PipeNoRight
         \/ PipeRight \/ PipeMerge \/ PipeNext \/ PipeFinish
  PROVE  PathsInv'
<1>. USE GoOn, TopPaths
     DEF Running, Returned, OnTop, Correlates, CorrelateDone, Internal, Quietly,
         IsFrame, FrameFields, InEffects, Waiting, Holding, Children, Based,
         Chosen, Choice, Popped, Subject
<1>1. CASE PipeLeft
  <2>1. GoodFrame(StmtFrame(Top.node.cond[1], Top.base, 1))
    BY <1>1, StmtGood DEF PipeLeft
  <2>. QED BY <1>1, <2>1, CallWithAll DEF PipeLeft
<1>2. CASE PipeSideEvaluated
  BY <1>2 DEF PipeSideEvaluated
<1>3. CASE PipeSideResolved
  <2>1. CASE Top.idx = 1
    BY <1>3, <2>1, NoneTold DEF PipeSideResolved
  <2>2. CASE Top.idx # 1
    BY <1>3, <2>2, NoneTold DEF PipeSideResolved
  <2>. QED BY <2>1, <2>2
<1>4. CASE PipeNoRight
  <2>1. Told(LeftAlone(Top, Subject))
    BY <1>4, PipeTold DEF PipeNoRight
  <2>2. AllTold(Append(Top.done, LeftAlone(Top, Subject)))
    BY <1>4, <2>1, AppendTold DEF PipeNoRight
  <2>. QED BY <1>4, <2>2 DEF PipeNoRight
<1>5. CASE PipeRight
  <2>1. Sound(Top.base) /\ Subject.state.issue \in Issues
    BY <1>5 DEF PipeRight, Told, Sound, IsState
  <2>2. GoodFrame(StmtFrame(Top.node.body[1], MergeChild(Top.base, Subject.state), 1))
    BY <2>1, MergeKeeps, StmtGood DEF Keeps
  <2>. DEFINE f == [Top EXCEPT !.pc = "call", !.idx = 2]
              g == StmtFrame(Top.node.body[1], MergeChild(Top.base, Subject.state), 1)
  <2>3. /\ IsFrame(f) /\ f.pc = "call" /\ f.todo = Top.todo /\ f.base = Top.base
        /\ f.kind = Top.kind /\ f.mute = Top.mute /\ f.err = Top.err /\ f.list = Top.list
        /\ f.work = Top.work /\ f.out = Top.out /\ f.done = Top.done
    BY <1>5 DEF PipeRight
  <2>4. Call(f, g)
    BY <1>5 DEF PipeRight
  <2>. HIDE DEF f, g
  <2>. QED BY <1>5, <2>2, <2>3, <2>4, CallOn DEF PipeRight, Awaits, g
<1>6. CASE PipeMerge
  <2>1. Told(Joined(Top, Subject, Choice))
    BY <1>6, PipeTold DEF PipeMerge
  <2>2. AllTold(Append(Top.done, Joined(Top, Subject, Choice)))
    BY <1>6, <2>1, AppendTold DEF PipeMerge
  <2>. QED BY <1>6, <2>2 DEF PipeMerge
<1>7. CASE PipeNext
  BY <1>7 DEF PipeNext
<1>8. CASE PipeFinish
  BY <1>8, LeaveKeeps DEF PipeFinish, Return
<1>. QED BY <1>1, <1>2, <1>3, <1>4, <1>5, <1>6, <1>7, <1>8

\* Compound commands.
LEMMA CompoundsKeep ==
  ASSUME PathsInv, Compounds
  PROVE  PathsInv'
BY BranchesKeep, LoopsKeep, PipelinesKeep DEF Compounds

\* The paths an EXIT trap hands to the child whose trap it is.
LEMMA AfterTrapTold ==
  ASSUME PathsInv, Depth > 0, mode \in {"return", "raise"},
         Top.kind \in Children, Top.pc = "traps"
  PROVE  AllTold(AfterTrap) /\ Top.work # <<>>
<1>1. Top.work # <<>>
  BY TopGood DEF Awaits
<1>2. Sound(Choice.state)
  BY <1>1, TopPaths DEF Choice, Told
<1>. DEFINE f == [base |-> Choice.state]
<1>3. Sound(f.base)
  BY <1>2
<1>4. AllTold([k \in 1..Len(ret) |-> Restored(ret[k], Choice.state)])
  BY <1>2, <1>3, TopPaths, MapsBaseTold
<1>. QED BY <1>1, <1>4 DEF AfterTrap

\* Children from their start to the merge.
LEMMA ChildProcessesKeep ==
  ASSUME PathsInv, ChildProcesses
  PROVE  PathsInv'
<1>. USE GoOn, TopPaths
     DEF Running, Returned, OnTop, Correlates, CorrelateDone, Internal, Quietly,
         IsFrame, FrameFields, InEffects, Waiting, Holding, Children,
         InChild, Chosen, Choice
<1>1. CASE ChildStart
  <2>. DEFINE g == StmtFrame(Top.node.body[1], Subject.state, 0)
              h == ListFrame(Top.node, Top.node.body, Top.todo, 0)
  <2>1. Sound(Subject.state) /\ AllTold(Top.todo)
    BY <1>1, SubjectTold DEF ChildStart
  <2>2. GoodFrame(g) /\ GoodFrame(h)
    BY <2>1, StmtGood, ListGood
  <2>3. Call([Top EXCEPT !.todo = <<>>, !.pc = "call"], g)
        \/ Call([Top EXCEPT !.todo = <<>>, !.pc = "call"], h)
    BY <1>1 DEF ChildStart
  <2>4. /\ mode # "halt" /\ Depth > 0 /\ UNCHANGED result
        /\ Top.kind \notin Holding \cup {"list"}
    BY <1>1 DEF ChildStart
  <2>. HIDE DEF g, h
  <2>. QED BY <2>2, <2>3, <2>4, CallWithAll
<1>2. CASE ChildCancelled
  <2>. DEFINE p == IF Top.kind = "subst" THEN Subject ELSE Completed(Top.base)
  <2>1. Told(p)
    BY <1>2, SubjectTold, CompletedTold DEF ChildCancelled, Based
  <2>2. Told(GiveUp(p, "cancelled"))
    BY <2>1, GiveUpTold DEF Issues
  <2>3. AllTold(<<GiveUp(p, "cancelled")>>)
    BY <2>2, FewTold
  <2>. QED BY <1>2, <2>3, LeaveKeeps DEF ChildCancelled, Return
<1>3. CASE InputSubstitution
  <2>. DEFINE absent  == SnapshotForUnknownFailure(Top.base)
              present == [Top.base EXCEPT !.fs = Append(@, "input")]
              a == Completed(SetSubstitution(present, Top.node, "zero"))
              b == Completed(SetSubstitution(absent, Top.node, "nonzero"))
              c == Refuse(Completed(present))
  <2>1. Sound(Top.base) /\ Depth > 0
    BY <1>3 DEF InputSubstitution, Based
  <2>2. Sound(absent)
    BY <2>1, ChildrenKeep
  <2>3. Sound(present)
    BY <2>1 DEF Sound, IsState, StateFields
  <2>4. Return(IF CanReserve THEN <<a, b>> ELSE <<c>>) /\ mode # "halt" /\ UNCHANGED result
    BY <1>3 DEF InputSubstitution
  <2>. HIDE DEF absent, present
  <2>5. Told(a) /\ Told(b) /\ Told(c)
    BY <2>2, <2>3, SubstitutionKeeps, CompletedTold, RefusedTold DEF Keeps
  <2>. HIDE DEF a, b, c
  <2>6. AllTold(<<a, b>>) /\ AllTold(<<c>>)
    BY <2>5, FewTold
  <2>. QED BY <2>1, <2>4, <2>6, LeaveKeeps DEF Return
<1>4. CASE ChildEvaluated
  <2>1. CASE Top.kind = "background"
    BY <1>4, <2>1 DEF ChildEvaluated
  <2>2. CASE Top.kind # "background"
    BY <1>4, <2>2 DEF ChildEvaluated
  <2>. QED BY <2>1, <2>2
<1>5. CASE BackgroundResolved
  BY <1>5, NoneTold DEF BackgroundResolved
<1>6. CASE ExitTrapSkip
  <2>1. AllTold(Append(Top.out, Choice))
    BY <1>6, AppendTold DEF ExitTrapSkip
  <2>. QED BY <1>6, <2>1 DEF ExitTrapSkip
<1>7. CASE ExitTrapRun
  <2>. DEFINE t == [Choice.state EXCEPT !.exitTrap = <<>>, !.signal = "none"]
              p == [Choice EXCEPT !.state = t]
              g == ListFrame(Top.node, Choice.state.exitTrap, <<p>>, 0)
  <2>1. Told(Choice)
    BY <1>7 DEF ExitTrapRun
  <2>2. Keeps(Choice.state, t)
    BY <2>1 DEF Told, Keeps, Sound, IsState, StateFields
  <2>3. Told(p)
    BY <2>1, <2>2, StateTold
  <2>4. [Choice EXCEPT !.state.exitTrap = <<>>, !.state.signal = "none"] = p
    BY <2>1 DEF Told, IsPath
  <2>5. Call(Top, g) /\ mode # "halt" /\ Depth > 0 /\ UNCHANGED result
        /\ Top.work # <<>> /\ Top.kind \in Children /\ Top.pc = "traps"
    BY <1>7, <2>4 DEF ExitTrapRun
  <2>. HIDE DEF t, p
  <2>6. GoodFrame(g)
    BY <2>3, FewTold, ListGood
  <2>. HIDE DEF g
  <2>. QED BY <2>5, <2>6, CallOn DEF Awaits
<1>8. CASE ExitTrapReturned
  <2>1. AllTold(AfterTrap) /\ AllTold(Top.out)
    BY <1>8, AfterTrapTold DEF ExitTrapReturned
  <2>2. AllTold(Top.out \o AfterTrap)
    BY <2>1, ConcatTold
  <2>. QED BY <1>8, <2>2 DEF ExitTrapReturned
<1>9. CASE ExitTrapsDone
  BY <1>9, NoneTold DEF ExitTrapsDone
<1>10. CASE ChildMerge
  <2>1. Told(Merged(Top, Choice))
    BY <1>10, MergedTold DEF ChildMerge, Based
  <2>2. AllTold(Append(Top.done, Merged(Top, Choice)))
    BY <1>10, <2>1, AppendTold DEF ChildMerge
  <2>. QED BY <1>10, <2>2 DEF ChildMerge
<1>11. CASE ChildFinish
  <2>. DEFINE p     == GiveUp(Completed(Top.base), Top.err)
              paths == IF Top.kind = "shell" THEN <<p>> ELSE Top.done
  <2>1. CASE Top.err = "none"
    BY <1>11, <2>1, LeaveKeeps DEF ChildFinish, Return
  <2>2. CASE Top.err # "none"
    <3>1. Sound(Top.base) /\ Top.err \in Issues \ {"none"} /\ AllTold(Top.done)
      BY <1>11, <2>2 DEF ChildFinish, Based
    <3>2. Told(p)
      BY <3>1, CompletedTold, GiveUpTold
    <3>3. AllTold(paths)
      BY <3>1, <3>2, FewTold
    <3>4. Raise(paths, Top.err) /\ mode # "halt" /\ Depth > 0 /\ UNCHANGED result
      BY <1>11, <2>2 DEF ChildFinish
    <3>. HIDE DEF paths
    <3>. QED BY <3>1, <3>3, <3>4, LeaveKeeps DEF Raise
  <2>. QED BY <2>1, <2>2
<1>. QED BY <1>1, <1>2, <1>3, <1>4, <1>5, <1>6, <1>7, <1>8, <1>9, <1>10,
         <1>11 DEF ChildProcesses

\* Calls that fail.
LEMMA UnwindingKeep ==
  ASSUME PathsInv, Unwinding
  PROVE  PathsInv'
<1>. USE GoOn, TopPaths
     DEF Internal, Quietly, Raised,
         IsFrame, FrameFields, InEffects, Waiting, Holding, Children
<1>1. CASE UnwindPaths
  <2>. DEFINE raised == IF Top.kind = "not"
                        THEN [k \in 1..Len(ret) |-> Invert(ret[k])] ELSE ret
  <2>1. AllTold(raised)
    BY <1>1, MapsTold DEF UnwindPaths
  <2>2. Raise(Top.done \o Top.out \o raised, error) /\ Depth > 0
    BY <1>1 DEF UnwindPaths
  <2>. HIDE DEF raised
  <2>3. AllTold(Top.done \o Top.out)
    BY <2>2, ConcatTold
  <2>4. AllTold(Top.done \o Top.out \o raised)
    BY <2>1, <2>3, ConcatTold
  <2>. QED BY <1>1, <2>2, <2>4, LeaveKeeps DEF UnwindPaths, Raise
<1>2. CASE UnwindCommand
  <2>1. Depth > 0 /\ Top.todo # <<>> /\ error \in Issues \ {"none"}
    BY <1>2 DEF UnwindCommand
  <2>2. Told(GiveUp(Subject, error))
    BY <2>1, SubjectTold, GiveUpTold
  <2>3. AllTold(<<GiveUp(Subject, error)>>)
    BY <2>2, FewTold
  <2>. QED BY <1>2, <2>1, <2>3, LeaveKeeps DEF UnwindCommand, Raise
<1>3. CASE UnwindPipe
  <2>. DEFINE right == [k \in 1..Len(ret) |-> Joined(Top, Subject, ret[k])]
  <2>1. AllTold(right) /\ AllTold(ret) /\ AllTold(Top.done)
    BY <1>3, MapsBaseTold DEF UnwindPipe, Based
  <2>2. Raise(IF Top.idx = 1 THEN ret ELSE Top.done \o right, error)
    BY <1>3 DEF UnwindPipe
  <2>. HIDE DEF right
  <2>3. AllTold(Top.done \o right)
    BY <2>1, ConcatTold
  <2>. QED BY <1>3, <2>1, <2>2, <2>3, LeaveKeeps DEF UnwindPipe, Raise
<1>4. CASE UnwindChild
  BY <1>4 DEF UnwindChild
<1>5. CASE UnwindTraps
  <2>. DEFINE e == IF Top.err = "none" THEN error ELSE Top.err
  <2>1. AllTold(AfterTrap) /\ AllTold(Top.out) /\ e \in Issues
    BY <1>5, AfterTrapTold DEF UnwindTraps
  <2>2. AllTold(Top.out \o AfterTrap)
    BY <2>1, ConcatTold
  <2>3. Go([Top EXCEPT !.pc = "merge", !.work = Top.out \o AfterTrap, !.out = <<>>,
                       !.err = e])
    BY <1>5 DEF UnwindTraps
  <2>. HIDE DEF e
  <2>. QED BY <1>5, <2>1, <2>2, <2>3, NoneTold DEF UnwindTraps
<1>. QED BY <1>1, <1>2, <1>3, <1>4, <1>5 DEF Unwinding

-------------------------------------------------------------------------------
(* The end of Execute, and the theorems. *)

\* If some path ended early, there is a first one.
LEMMA FirstEarly ==
  ASSUME NEW n \in Nat, NEW T \in SUBSET (1..n), T # {}
  PROVE  \E k \in T : \A j \in 1..(k - 1) : j \notin T
<1>. DEFINE S == {n - k : k \in T}
<1>1. IsFiniteSet(S) /\ S \in SUBSET Int /\ S # {}
  <2>1. S \subseteq 0..n /\ 0 \in Int /\ n \in Int
    OBVIOUS
  <2>2. IsFiniteSet(S)
    BY <2>1, FS_Interval, FS_Subset
  <2>3. PICK k \in T : TRUE
    OBVIOUS
  <2>4. n - k \in S
    BY <2>3
  <2>5. S \in SUBSET Int
    BY <2>1
  <2>. HIDE DEF S
  <2>. QED BY <2>2, <2>4, <2>5
<1>2. PICK m \in S : \A x \in S : m >= x
  BY <1>1, Greatest
<1>3. PICK k \in T : m = n - k
  BY <1>2
<1>4. ASSUME NEW j \in 1..(k - 1), j \in T
      PROVE  FALSE
  <2>1. n - j \in S
    BY <1>4
  <2>2. m >= n - j
    BY <1>2, <2>1
  <2>3. j \in Int /\ k \in Int /\ j <= k - 1
    BY <1>3, <1>4
  <2>. QED BY <1>3, <2>2, <2>3
<1>. QED BY <1>4

\* Execute always has an issue to report.
LEMMA VerdictExplained ==
  ASSUME NEW paths, AllTold(paths)
  PROVE  Verdict(paths) # "unexplained"
<1>. DEFINE T    == {k \in 1..Len(paths) : Explains(paths[k])}
            P(k) == /\ Explains(paths[k])
                    /\ \A j \in 1..(k - 1) : ~Explains(paths[j])
            i    == CHOOSE k \in 1..Len(paths) : P(k)
<1>1. CASE cancelled
  BY <1>1 DEF Verdict
<1>2. CASE ~cancelled /\ T = {}
  BY <1>2 DEF Verdict
<1>3. CASE ~cancelled /\ T # {}
  <2>1. Len(paths) \in Nat
    BY LengthTold
  <2>2. \E k \in T : \A j \in 1..(k - 1) : j \notin T
    BY <1>3, <2>1, FirstEarly
  <2>3. \E k \in 1..Len(paths) : P(k)
    BY <2>1, <2>2
  <2>4. i \in 1..Len(paths) /\ P(i)
    BY <2>3, Zenon
  <2>5. ~\A k \in 1..Len(paths) : ~Explains(paths[k])
    BY <1>3
  <2>6. Verdict(paths) = IF paths[i].state.issue = "none" THEN "unexplained"
                         ELSE paths[i].state.issue
    BY <1>3, <2>5, Zenon DEF Verdict
  <2>. HIDE DEF i
  <2>7. Told(paths[i]) /\ Explains(paths[i])
    BY <2>4 DEF AllTold
  <2>8. paths[i].state.issue \in Issues \ {"none"}
    BY <2>7 DEF Told, Explains, Statuses, Early, Sound, IsState
  <2>. QED BY <2>6, <2>8 DEF Issues
<1>. QED BY <1>1, <1>2, <1>3

\* Execute returns.
LEMMA EndKeeps ==
  ASSUME PathsInv, NotStarted \/ Finished \/ Failed
  PROVE  PathsInv'
<1>1. CASE NotStarted
  BY <1>1, HaltKeeps, NoneTold DEF NotStarted, InChild
<1>2. CASE Finished
  BY <1>2, HaltKeeps, VerdictExplained, TopPaths DEF Finished, InChild
<1>3. CASE Failed
  <2>1. Depth > 0 /\ AllTold(ret) /\ error \in Issues
    BY <1>3, TopPaths DEF Failed, Raised
  <2>2. error # "unexplained"
    BY <2>1 DEF Issues
  <2>. QED BY <1>3, <2>1, <2>2, HaltKeeps DEF Failed
<1>. QED BY <1>1, <1>2, <1>3

\* PathsInv holds of a simulation that has not started.
LEMMA InitPathsInv == Init => PathsInv
<1>. SUFFICES ASSUME Init PROVE PathsInv
  OBVIOUS
<1>1. PICK n : stack = <<Frame("main", n, <<Completed(NewState)>>)>>
  BY DEF Init
<1>. DEFINE todo == <<Completed(NewState)>>
            f    == Frame("main", n, todo)
<1>2. AllTold(todo) /\ todo # <<>>
  BY NewStateSound, CompletedTold, FewTold
<1>3. GoodFrame(f) /\ IsFrame(f) /\ f.mute = 0 /\ f.pc = "start"
  <2>1. GoodFrame(f)
    BY <1>2, FreshGood DEF Based
  <2>2. f.mute = 0 /\ f.pc = "start"
    BY DEF Frame
  <2>. QED BY <2>1, <2>2 DEF GoodFrame
<1>4. stack = <<f>>
  BY <1>1
<1>. HIDE DEF f
<1>5. stack \in Seq({f}) /\ Len(stack) = 1 /\ stack[1] = f
  BY <1>4
<1>6. Depth = 1 /\ IsStack
  BY <1>3, <1>5 DEF IsStack, Depth
<1>7. Muted(stack) = 0
  <2>. DEFINE q == <<>>
  <2>1. Len(q) = 0 /\ Muted(q) = 0
    BY SumEmpty DEF Muted
  <2>. HIDE DEF q
  <2>2. Muted(stack) = Muted(q) + stack[1].mute
    <3>1. Len(q) \in Nat /\ Len(stack) = Len(q) + 1 /\ 1..Len(q) = {}
      BY <1>5, <2>1
    <3>2. stack[Len(stack)].mute \in Int
      BY <1>3, <1>5
    <3>3. \A k \in 1..Len(q) : stack[k] = q[k] /\ q[k].mute \in Int
      BY <3>1
    <3>4. Muted(stack) = Muted(q) + stack[Len(stack)].mute
      BY <3>1, <3>2, <3>3, MutedAppend
    <3>. QED BY <1>5, <3>4
  <2>. QED BY <1>3, <1>5, <2>1, <2>2
<1>8. PathsTold
  BY <1>3, <1>5, <1>6, NoneTold DEF Init, PathsTold, Awaits, Issues
<1>9. TrapsMuted
  BY <1>6, <1>7 DEF Init, TrapsMuted
<1>. QED BY <1>8, <1>9 DEF PathsInv

\* Every step of the evaluator, and a cancellation at any time, preserves it.
LEMMA NextPathsInv == PathsInv /\ [Next]_vars => PathsInv'
<1>. SUFFICES ASSUME PathsInv, [Next]_vars PROVE PathsInv'
  OBVIOUS
<1>1. CASE Step
  BY <1>1, ListsKeep, StatementsKeep, CommandsKeep, CompoundsKeep,
     ChildProcessesKeep, UnwindingKeep, EndKeeps DEF Step
<1>2. CASE UNCHANGED <<control, result>>
  BY <1>2 DEF control, counters, PathsInv, PathsTold, TrapsMuted, IsStack, Depth
<1>3. CASE Cancel
  BY <1>2, <1>3 DEF Cancel
<1>4. CASE UNCHANGED vars
  BY <1>2, <1>4 DEF vars
<1>. QED BY <1>1, <1>3, <1>4 DEF Next, Halted

\* The inductive invariant holds in every reachable state.
THEOREM PathsInvariant == Spec => []PathsInv
BY InitPathsInv, NextPathsInv, PTL DEF Spec

\* What PathsTold says of one frame and of the result holds of all the paths
\* there are.
LEMMA ToldEverywhere == PathsInv => EndingsExplained
<1>. SUFFICES ASSUME PathsInv PROVE EndingsExplained
  OBVIOUS
<1>1. \A q : AllTold(q) => \A p \in PathsOf(q) : Told(p)
  BY DEF AllTold, PathsOf
<1>2. \A k \in 1..Depth : /\ AllTold(stack[k].todo) /\ AllTold(stack[k].work)
                          /\ AllTold(stack[k].out)  /\ AllTold(stack[k].done)
  BY DEF PathsInv, PathsTold, GoodFrame
<1>3. AllTold(ret) /\ result # "unexplained"
  BY DEF PathsInv, PathsTold
<1>4. ASSUME NEW p \in Paths
      PROVE  Told(p)
  <2>1. CASE p \in PathsOf(ret)
    BY <1>1, <1>3, <2>1
  <2>2. CASE \E k \in 1..Depth :
               p \in PathsOf(stack[k].todo) \cup PathsOf(stack[k].work) \cup
                     PathsOf(stack[k].out)  \cup PathsOf(stack[k].done)
    BY <1>1, <1>2, <2>2
  <2>. QED BY <2>1, <2>2 DEF Paths
<1>. QED BY <1>3, <1>4 DEF EndingsExplained, Told, Early

\* A path that ended early says why, and Execute never has to return its
\* "simulation ended before completion" message (Execute, context.go).
THEOREM EndingsExplainedTheorem == Spec => []EndingsExplained
BY ToldEverywhere, PathsInvariant, PTL

\* At most one call of applyKnownFailure is running the ERR trap: a failure
\* inside the trap finds it suppressed (applyKnownFailure,
\* errTrapSuppressed).
THEOREM ErrTrapNotReenteredTheorem == Spec => []ErrTrapNotReentered
<1>1. PathsInv => ErrTrapNotReentered
  <2>. SUFFICES ASSUME PathsInv,
                       NEW j \in 1..Depth, NEW k \in 1..Depth,
                       RunsErrTrap(j), RunsErrTrap(k)
                PROVE  j = k
    BY DEF ErrTrapNotReentered
  <2>1. Depth \in Nat
    BY DEF PathsInv, PathsTold, IsStack, Depth
  <2>2. j \in 1..(Depth - 1) /\ k \in 1..(Depth - 1)
        /\ InEffects(stack[j]) /\ InEffects(stack[k])
    BY <2>1 DEF RunsErrTrap, InEffects
  <2>. QED BY <2>2 DEF PathsInv, TrapsMuted
<1>. QED BY <1>1, PathsInvariant, PTL

===============================================================================
