----------------------------- MODULE Assignments -----------------------------
(***************************************************************************)
(* Who undoes an assignment, and what the paths of a list of statements    *)
(* are charged for (internal/runtime: expand.go applyAssignments,          *)
(* call_function.go, call_registered.go, control.go evaluateStatements     *)
(* and its journal, materialization.go).                                   *)
(*                                                                         *)
(* Three parts of the evaluator take assignments back: applyAssignments    *)
(* itself when one of a list fails, the temporary assignments of a call    *)
(* when the call is over, and the journal of `printf -v` when a list of    *)
(* statements runs out of memory.  They meet in the version a variable     *)
(* has.  What a statement does beyond assigning is left open: it may fork  *)
(* the path by a command whose success is not known, run a nested list, or *)
(* dispatch a command with an environment of its own.                      *)
(*                                                                         *)
(* Beside the variables each state has a ghost, truth: the variables the   *)
(* same steps give when nothing is unknown; and two counts per name, of    *)
(* the writes by commands and of those by nested temporary assignments.    *)
(***************************************************************************)
EXTENDS Variables, SequencesExt

CONSTANTS
  Name,          \* the names of variables
  InitialVars,   \* the variables a simulation starts with
  InitialTruth,  \* the same, with the unknown ones as they are
  Lists,         \* the lists of assignments that statements have
  Targets,       \* the names that commands write
  Texts,         \* the texts that builtins write
  MaxStatements, \* a bound on the statements that are started
  MaxFrames      \* a bound on nested lists and calls

\* Whether what is known of the variables agrees with their ghost.  What is
\* not known has its kind and its attributes all the same.
Shape(v) == <<v.kind, v.set, v.exported, v.readonly>>
Agrees(vs, truth) ==
  /\ DOMAIN truth.data = DOMAIN vs.data
  /\ \A n \in Name :
       /\ Shape(Lookup(truth, n)) = Shape(Lookup(vs, n))
       /\ ~Unknown(vs, n) => /\ Lookup(truth, n) = Lookup(vs, n)
                             /\ Slots(truth, n) = Slots(vs, n)

\* The names there is an entry of.
Owners(vs) == DOMAIN vs.data \cup DOMAIN vs.versions

\* A word is a text, or the value of a variable.
IsWord(w) == w.from \in Name \cup {""} /\ IsSeq(w.text)
IsAssignment(a) ==
  /\ a.name \in Name /\ a.form \in {"naked", "array", "element", "scalar"}
  /\ a.append \in BOOLEAN /\ a.index.at \in Int /\ IsWord(a.word)
  /\ IsSeq(a.elems)
  /\ \A k \in DOMAIN a.elems : a.elems[k].index \in Int /\ IsWord(a.elems[k].word)

ASSUME AssignmentsAssumption ==
  /\ EntryBytes \in Nat \ {0} /\ Maximum \in Nat
  /\ \A n \in Name : NameBytes(n) \in Nat
  /\ MaxStatements \in Nat /\ MaxFrames \in Nat
  /\ Targets \subseteq Name /\ \A text \in Texts : IsSeq(text)
  /\ \A list \in Lists : IsSeq(list) /\ \A k \in DOMAIN list : IsAssignment(list[k])
  /\ IsVars(InitialVars) /\ Owners(InitialVars) \subseteq Name
  /\ HasValues(InitialTruth) /\ Agrees(InitialVars, InitialTruth)

VARIABLES
  states,      \* the State objects there are
  frames,      \* the lists and the calls that are being evaluated
  journal,     \* ExecutionContext.variableRollbacks
  journalBytes,\* ExecutionContext.variableRollbackBytes
  phase,       \* what the innermost frame does next
  result,      \* the paths and the error that a call returns
  statements   \* how many statements were started

vars == <<states, frames, journal, journalBytes, phase, result, statements>>

None == 0  \* no exitFailure
Top  == frames[Len(frames)]
List == frames[Max({k \in DOMAIN frames : frames[k].kind = "list"})]
Self == Head(List.todo).state   \* the state that is being evaluated
Below == Front(frames)
-------------------------------------------------------------------------------
(* What is retained (materialization.go). *)

InitialBytes == InitialVars.bytes
Own(h, i)      == h[i].vars.bytes + h[i].other
Failure(h, i)  == h[i].failure
StateBytes(h, i) ==
  Own(h, i) + (IF Failure(h, i) = None THEN 0 ELSE EntryBytes + Own(h, Failure(h, i)))

SumOver(h, paths) == FoldLeft(LAMBDA n, p : n + StateBytes(h, p.state), 0, paths)
NewBudget(h, paths) == [bytes |-> SumOver(h, paths), count |-> Len(paths)]

\* retainedPathBudget.replace; it refuses when the budget lacks what it takes.
\* Mutant: the place of the path that was replaced stays counted.
Replace_KeepsPath(budget, previous, h, paths) ==
  [bytes |-> budget.bytes - previous + SumOver(h, paths),
   count |-> budget.count + Len(paths)]
Replace(budget, previous, h, paths) ==
  [bytes |-> budget.bytes - previous + SumOver(h, paths),
   count |-> budget.count - 1 + Len(paths)]
Replaceable(budget, previous) == budget.count > 0 /\ previous <= budget.bytes

Beyond(bytes) == IF bytes > InitialBytes THEN bytes - InitialBytes ELSE 0
Within(budget, aux) ==
  aux + EntryBytes * budget.count + Beyond(budget.bytes) <= Maximum

\* failPathGroups
Failed(paths) ==
  [k \in DOMAIN paths |-> [paths[k] EXCEPT
     !.status = IF @ = "completed" THEN "incomplete" ELSE @]]
-------------------------------------------------------------------------------
(* applyAssignments *)

WordText(vs, w)    == IF w.from = "" THEN w.text ELSE Text(Lookup(vs, w.from))
WordUnknown(vs, w) == w.from # "" /\ Unknown(vs, w.from)
Scalar(text) == [Zero EXCEPT !.kind = "String", !.set = TRUE, !.str = text]

\* arrayValue: elements without an index follow the one before.
ArrayValue(vs, elems) ==
  LET Step(acc, el) ==
        LET i    == IF el.index < 0 THEN acc.next ELSE el.index
            text == WordText(vs, el.word)
        IN IF ~Fits(i) THEN [acc EXCEPT !.fits = FALSE]
           ELSE [list |-> [Extend(acc.list, i) EXCEPT ![i + 1] = text],
                 present |-> acc.present \cup {i}, next |-> i + 1, fits |-> acc.fits,
                 unknown |-> acc.unknown \/ WordUnknown(vs, el.word)]
      all == FoldLeft(Step, [list |-> <<>>, present |-> {}, next |-> 0,
                             fits |-> TRUE, unknown |-> FALSE], elems)
  IN IF ~all.fits THEN Refused("limit")
     ELSE Result([Zero EXCEPT !.kind = "Indexed", !.set = TRUE, !.list = all.list],
                 Normalize(all.present, Len(all.list)), all.unknown)

\* What is added to, or put into, a value that is not known stays unknown.
\* Mutant: an array that is appended to an unknown one makes it known.
Taints_NotArrays(vs, a) == a.form # "array" /\ Unknown(vs, a.name)
Taints(vs, a) == Unknown(vs, a.name)

\* The value an assignment gives a name, before attributes.
AssignmentValue(vs, a) ==
  LET current == Lookup(vs, a.name)
      slots   == Slots(vs, a.name)
      text    == WordText(vs, a.word)
      unknown == WordUnknown(vs, a.word)
      was     == Taints(vs, a)
  IN IF a.form = "array" THEN
       LET r == ArrayValue(vs, a.elems) IN
       IF r.error # "none" \/ ~a.append THEN r
       ELSE Result(Appended(current, r.v),
                   AppendSlots(current, r.v, slots, r.slots), r.unknown \/ was)
     ELSE IF a.form = "element" THEN
       IF ~a.index.known THEN Refused("unknown")
       ELSE IF a.index.at < 0 THEN Refused("invalid")
       ELSE IF ~Fits(a.index.at) THEN Refused("limit")
       ELSE LET e == Element(current, slots, a.index.at, text, a.append) IN
            Result(e.v, e.slots, unknown \/ was)
     ELSE IF TakesScalar(current)
     THEN Result(ScalarIntoArray(current, text, a.append),
                 SetSlot(slots, Len(current.list), 0), unknown \/ was)
     ELSE IF a.append
     THEN Result(Appended(current, Scalar(text)), Dense, unknown \/ was)
     ELSE Result(Scalar(text), Dense, unknown)

AssignValue(vs, a, r, exported) ==
  [error |-> r.error,
   vs    |-> Put(vs, a.name, [r.v EXCEPT !.exported = @ \/ exported], r.unknown, r.slots)]
AssignOne(vs, a, exported) ==
  LET current == Lookup(vs, a.name) IN
  IF a.form = "naked"
  THEN [error |-> "none",
        vs |-> Put(vs, a.name, [current EXCEPT !.exported = @ \/ exported],
                   Unknown(vs, a.name), Slots(vs, a.name))]
  ELSE IF current.readonly THEN [error |-> "readonly", vs |-> vs]
  ELSE AssignValue(vs, a, AssignmentValue(vs, a), exported \/ current.exported)

\* checkVariableMaterialization and checkStateMaterializationWithNonVariableBytes
Affordable(vs, n, rest) ==
  /\ ValueBytes(Lookup(vs, n)) <= Maximum
  /\ journalBytes + EntryBytes + Beyond(rest + vs.bytes) <= Maximum

Limited(r, n, rest) ==
  IF r.error = "none" /\ ~Affordable(r.vs, n, rest) THEN [r EXCEPT !.error = "limit"] ELSE r

\* The assignments one after the other, up to the first that fails.
AssignAll(vs, list, exported, Limit(_, _)) ==
  FoldLeft(LAMBDA acc, a :
      IF acc.error # "none" THEN acc ELSE Limit(AssignOne(acc.vs, a, exported), a.name),
    [error |-> "none", vs |-> vs], list)

Names(list) == {list[k].name : k \in DOMAIN list}
Count(f, names) == [n \in Name |-> IF n \in names THEN f[n] + 1 ELSE f[n]]

\* One that fails takes those before it back.
Apply(h, i, list, exported) ==
  LET r     == AssignAll(h[i].vars, list, exported,
                 LAMBDA a, n : Limited(a, n, StateBytes(h, i) - h[i].vars.bytes))
      truth == AssignAll(h[i].truth, list, exported, LAMBDA a, n : a)
      After(a) == [error |-> a.error,
                   h |-> IF a.error # "none" THEN h
                         ELSE [h EXCEPT ![i].vars = a.vs, ![i].truth = truth.vs]]
  IN After(r)
-------------------------------------------------------------------------------
(* Saving and restoring: temporary assignments and the journal. *)

Entry(vs, n) == [v |-> Lookup(vs, n), exists |-> n \in DOMAIN vs.data,
                 unknown |-> Unknown(vs, n), slots |-> Slots(vs, n)]
PutBack(vs, n, e) ==
  IF e.exists THEN Put(vs, n, e.v, e.unknown, e.slots) ELSE Delete(vs, n)

\* One change of the variables of state i, and of their ghost.
Change(h, i, Op(_)) == [h EXCEPT ![i].vars = Op(@), ![i].truth = Op(@)]

\* savedVariable: the entry, and the version the assignment gave the name,
\* which is 0 when it is restored whatever the command did.
Save(s, names) ==
  [n \in names |-> [entry |-> Entry(s.vars, n), truth |-> Entry(s.truth, n),
                    applied |-> 0]]
Applied(saved, s) == [n \in DOMAIN saved |->
                        [saved[n] EXCEPT !.applied = Version(s.vars, n)]]

RestoreNames(vs, saved, always, current, truth) ==
  FoldSet(LAMBDA n, acc :
      IF ~always /\ saved[n].applied # 0 /\ Version(current, n) # saved[n].applied
      THEN acc ELSE PutBack(acc, n, IF truth THEN saved[n].truth ELSE saved[n].entry),
    vs, DOMAIN saved)

\* restoreSavedAssignments on one state.  Renewed counts its writes.
\* Mutant: what the command wrote itself is restored as well.
RestoreState_Always(s, saved, always) ==
  [s EXCEPT !.vars  = RestoreNames(@, saved, TRUE, s.vars, FALSE),
            !.truth = RestoreNames(@, saved, TRUE, s.vars, TRUE),
            !.renewed = Count(@, DOMAIN saved)]
RestoreState(s, saved, always) ==
  [s EXCEPT !.vars  = RestoreNames(@, saved, always, s.vars, FALSE),
            !.truth = RestoreNames(@, saved, always, s.vars, TRUE),
            !.renewed = Count(@, DOMAIN saved)]

Chain(h, paths) ==
  (UNION {{p.state, Failure(h, p.state)} : p \in Range(paths)}) \ {None}
Restore(h, paths, saved, always) ==
  [i \in DOMAIN h |-> IF i \in Chain(h, paths)
                      THEN RestoreState(h[i], saved, always) ELSE h[i]]

\* recordVariableRollback
Record(h, i, n) ==
  LET vs == h[i].vars IN
  [ state |-> i, name |-> n, entry |-> Entry(vs, n), truth |-> Entry(h[i].truth, n),
    version |-> Version(vs, n), written |-> h[i].written[n],
    bytes |-> NameEntry(n) + ValueBytes(Lookup(vs, n))
              + (IF n \in DOMAIN vs.indexed THEN SlotCost(n, vs.indexed[n]) ELSE 0) ]

\* The write that undoes is itself undone in versions, but not in revision.
WithVersion(vs, n, version) ==
  IF version # 0 THEN [vs EXCEPT !.versions[n] = version]
  ELSE [vs EXCEPT !.versions = Without(@, n), !.bytes = @ - NameEntry(n)]
\* Mutant: the versions stay those of the writes that are undone.
UndoOne_KeepsVersion(h, r) ==
  [h EXCEPT ![r.state].vars  = PutBack(@, r.name, r.entry),
            ![r.state].truth = PutBack(@, r.name, r.truth),
            ![r.state].written[r.name] = r.written]
UndoOne(h, r) ==
  [h EXCEPT ![r.state].vars  = WithVersion(PutBack(@, r.name, r.entry), r.name, r.version),
            ![r.state].truth = PutBack(@, r.name, r.truth),
            ![r.state].written[r.name] = r.written]

\* rollbackVariables: the last record first.
Rollback(h, checkpoint) ==
  FoldRight(LAMBDA r, acc : UndoOne(acc, r),
            SubSeq(journal, checkpoint + 1, Len(journal)), h)
RecordBytes(records) == FoldLeft(LAMBDA n, r : n + r.bytes, 0, records)

\* discardVariableRollbacks
Discard(checkpoint) ==
  /\ journal' = SubSeq(journal, 1, checkpoint)
  /\ journalBytes' = journalBytes
       - RecordBytes(SubSeq(journal, checkpoint + 1, Len(journal)))
KeepJournal == UNCHANGED <<journal, journalBytes>>
-------------------------------------------------------------------------------
(* Lists of statements (evaluateStatements, evaluateStatement). *)

Path(i, status) == [state |-> i, status |-> status]
NewList(h, i) ==
  [ kind |-> "list", todo |-> <<Path(i, "completed")>>, next |-> <<>>,
    budget |-> NewBudget(h, <<Path(i, "completed")>>), checkpoint |-> Len(journal),
    previous |-> 0,
    before |-> h ]  \* a ghost: the states when the statement was started
AtTop == Cardinality({k \in DOMAIN frames : frames[k].kind = "list"}) = 1

ReturnWith(paths, error) ==
  /\ phase' = "return" /\ result' = [paths |-> paths, error |-> error]

\* The innermost list is left; the outermost drops the journal.
Leave(paths, error) ==
  /\ frames' = Below
  /\ ReturnWith(paths, error)
  /\ IF AtTop THEN Discard(0) ELSE KeepJournal

Init ==
  /\ states = <<[vars |-> InitialVars, truth |-> InitialTruth, other |-> 0,
                 failure |-> None, written |-> [n \in Name |-> 0],
                 renewed |-> [n \in Name |-> 0]]>>
  /\ journal = <<>> /\ journalBytes = 0
  /\ frames = <<NewList(states, 1)>>
  /\ phase = "list" /\ result = [paths |-> <<>>, error |-> FALSE]
  /\ statements = 0

\* Paths that are not completed stay as they are.
PassPath ==
  /\ phase = "list" /\ Top.todo # <<>>
  /\ Head(Top.todo).status # "completed"
  /\ frames' = [frames EXCEPT ![Len(frames)].todo = Tail(@),
                              ![Len(frames)].next = Append(@, Head(Top.todo))]
  /\ UNCHANGED <<states, journal, journalBytes, phase, result, statements>>

StartStatement ==
  /\ phase = "list" /\ Top.todo # <<>> /\ Head(Top.todo).status = "completed"
  /\ statements' = Min({statements + 1, MaxStatements + 1})
  /\ LET path == Head(Top.todo) IN
     /\ frames' = [frames EXCEPT ![Len(frames)].previous = StateBytes(states, path.state)]
     /\ IF Within(NewBudget(states, <<path>>), journalBytes)
        THEN phase' = "statement" /\ UNCHANGED result
        ELSE ReturnWith(Failed(<<path>>), TRUE)
  /\ UNCHANGED <<states, journal, journalBytes>>

\* All paths had this statement; the list goes on with the next, or ends.
NextStatement ==
  /\ phase = "list" /\ Top.todo = <<>> /\ statements <= MaxStatements
  /\ \E p \in Range(Top.next) : p.status = "completed"
  /\ IF AtTop THEN Discard(Top.checkpoint) ELSE KeepJournal
  /\ frames' = [frames EXCEPT ![Len(frames)].todo = Top.next,
                              ![Len(frames)].next = <<>>,
                              ![Len(frames)].before = states,
                              ![Len(frames)].checkpoint =
                                 IF AtTop THEN @ ELSE Len(journal)]
  /\ UNCHANGED <<states, phase, result, statements>>

EndList ==
  /\ phase = "list" /\ Top.todo = <<>>
  /\ Leave(Top.next, FALSE)
  /\ UNCHANGED <<states, statements>>

\* The statements beyond the bound do nothing.
Busy == statements <= MaxStatements

\* x=1 y=2 (evaluateAssignmentCall); what cannot be evaluated ends the path.
AssignStatement(list) ==
  /\ phase = "statement" /\ Busy
  /\ \E r \in {Apply(states, Self, list, FALSE)} :
     /\ states' = IF r.error # "none" THEN r.h
                  ELSE [r.h EXCEPT ![Self].failure = None,
                                   ![Self].written = Count(@, Names(list))]
     /\ ReturnWith(<<Path(Self, IF r.error = "none" THEN "completed" ELSE "incomplete")>>,
                   FALSE)
  /\ UNCHANGED <<frames, journal, journalBytes, statements>>

CallFrame(saved, always, env, s) ==
  [kind |-> "call", saved |-> saved, always |-> always, env |-> env,
   written |-> s.written, renewed |-> s.renewed]

\* x=1 command (evaluateRegisteredCall, applyTemporaryAssignments); always is
\* the RestoreAssignments of eval and source.
CallStatement(list, always) ==
  /\ phase = "statement" /\ Busy /\ Len(frames) < MaxFrames
  /\ \E saved \in {Save(states[Self], Names(list))}, r \in {Apply(states, Self, list, TRUE)} :
        IF r.error # "none"
        THEN /\ states' = Restore(r.h, <<Path(Self, "completed")>>, saved, FALSE)
             /\ ReturnWith(<<Path(Self, "incomplete")>>, FALSE)
             /\ UNCHANGED frames
        ELSE /\ states' = [r.h EXCEPT ![Self].renewed = Count(@, Names(list))]
             /\ frames' = Append(frames, CallFrame(Applied(saved, r.h[Self]),
                                                   always, FALSE, states'[Self]))
             /\ phase' = "body" /\ UNCHANGED result
  /\ UNCHANGED <<journal, journalBytes, statements>>
-------------------------------------------------------------------------------
(* What a command does with the state (builtin_api.go, command_operations). *)

Completed(i) == ReturnWith(<<Path(i, "completed")>>, FALSE)

\* mutateVariables: a change that the memory limit refuses is not made.
Mutated(h, i, Op(_)) ==
  LET new == Op(h[i].vars) IN
  IF journalBytes' + EntryBytes + Beyond(StateBytes(h, i) - h[i].vars.bytes + new.bytes)
       <= Maximum
  THEN Change(h, i, Op) ELSE h

\* env dispatches no builtin (executeInvokeExternal).
Builtin == phase = "body" /\ ~Top.env

\* A command that only sets its exit status.
Nothing ==
  /\ phase \in {"body", "statement"}
  /\ states' = [states EXCEPT ![Self].failure = None]
  /\ Completed(Self)
  /\ UNCHANGED <<frames, journal, journalBytes, statements>>

\* A write by a builtin; readonly names refuse it (assignShellVariable).
WriteVariable(n, text, journaled) ==
  /\ Builtin
  /\ IF journaled
     THEN /\ journal' = Append(journal, Record(states, Self, n))
          /\ journalBytes' = journalBytes + Record(states, Self, n).bytes
     ELSE KeepJournal
  /\ LET Op(vs) == AssignShell(vs, n, Scalar(text), FALSE, Dense)
         h == IF Lookup(states[Self].vars, n).readonly THEN states
              ELSE Mutated(states, Self, Op)
     IN states' = [h EXCEPT ![Self].failure = None,
                     ![Self].written = IF h = states THEN @ ELSE Count(@, {n})]
  /\ Completed(Self)
  /\ UNCHANGED <<frames, statements>>

\* printf -v: the journal has what the name was before (printf.go:91).
Printf(n, text) == WriteVariable(n, text, TRUE)
Read(n, text)   == WriteVariable(n, text, FALSE)

Unset(n) ==
  /\ Builtin
  /\ KeepJournal
  /\ LET Op(vs) == Delete(vs, n)
         h == IF Lookup(states[Self].vars, n).readonly THEN states
              ELSE Mutated(states, Self, Op)
     IN states' = [h EXCEPT ![Self].failure = None,
                     ![Self].written = IF h = states THEN @ ELSE Count(@, {n})]
  /\ Completed(Self)
  /\ UNCHANGED <<frames, statements>>

\* cd, or exec of a command that is not known: it succeeds with one more byte
\* retained, or fails in the state before (setUnknownExitCodeWithFailure,
\* executeReplace with its clearExported).
Uncertain(clear) ==
  /\ Builtin
  /\ LET exported == {n \in DOMAIN states[Self].vars.data :
                          clear /\ Lookup(states[Self].vars, n).exported}
         Hide(vs) == FoldSet(LAMBDA n, acc :
                        Put(acc, n, [Lookup(acc, n) EXCEPT !.exported = FALSE],
                            Unknown(acc, n), Slots(acc, n)), vs, exported)
         failure == [states[Self] EXCEPT !.failure = None]
         h == Change(Append(states, failure), Self, Hide)
     IN states' = [h EXCEPT ![Self].failure = Len(h), ![Self].other = @ + 1,
                     ![Self].written = Count(@, exported)]
  /\ Completed(Self)
  /\ UNCHANGED <<frames, journal, journalBytes, statements>>

\* env x=text, env -i: the variables change for the command that env runs.
Environment(n, text, clear) ==
  /\ phase = "body" /\ Len(frames) < MaxFrames
  /\ LET s == states[Self]
         cleared == {m \in DOMAIN s.vars.data : clear /\ Lookup(s.vars, m).exported}
         Op(vs) == Put(FoldSet(LAMBDA m, acc : Delete(acc, m), vs, cleared), n,
                       [Scalar(text) EXCEPT !.exported = TRUE], FALSE, Dense)
         names == cleared \cup {n}
     IN /\ states' = [Change(states, Self, Op) EXCEPT ![Self].renewed = Count(@, names)]
        /\ frames' = Append(frames, CallFrame(Save(s, names), FALSE, TRUE, states'[Self]))
  /\ UNCHANGED <<journal, journalBytes, phase, result, statements>>

\* eval, or a handler that evaluates a script: a list on the same state.
Evaluate ==
  /\ phase = "body" /\ Len(frames) < MaxFrames
  /\ IF Within(NewBudget(states, <<Path(Self, "completed")>>), journalBytes)
     THEN /\ frames' = Append(frames, NewList(states, Self))
          /\ phase' = "list" /\ UNCHANGED result
     ELSE /\ ReturnWith(<<Path(Self, "incomplete")>>, TRUE)
          /\ UNCHANGED frames
  /\ UNCHANGED <<states, journal, journalBytes, statements>>

\* The command is over: its temporary assignments end on every path of it,
\* and on the states that its paths have if it failed.
EndCall ==
  /\ phase = "return" /\ frames # <<>> /\ Top.kind = "call"
  /\ states' = Restore(states, result.paths, Top.saved, Top.always)
  /\ frames' = Below
  /\ UNCHANGED <<journal, journalBytes, phase, result, statements>>

-------------------------------------------------------------------------------
(* The statement is over. *)

\* resolveCorrelatedExitStatuses: a path whose failure has a state of its own
\* becomes two.
Forks(p) == p.status = "completed" /\ states[p.state].failure # None
Resolved ==
  FoldLeft(LAMBDA acc, p :
      IF ~Forks(p) THEN [acc EXCEPT !.paths = Append(@, p)]
      ELSE LET n == Len(acc.h)
               s == [acc.h[p.state] EXCEPT !.failure = None]
               f == acc.h[acc.h[p.state].failure]
           IN [h |-> acc.h \o <<s, f>>,
               paths |-> acc.paths \o <<Path(n + 1, "completed"), Path(n + 2, "completed")>>],
    [h |-> states, paths |-> <<>>], result.paths)

Tried   == NewBudget(states, result.paths)
Refuses == \E p \in Range(result.paths) :
  Forks(p) /\ ~Within([bytes |-> Own(states, p.state) + Own(states, states[p.state].failure),
                       count |-> 2], journalBytes)
Spent == Replace(Top.budget, Top.previous, Resolved.h, Resolved.paths)
Paid   == Replaceable(Top.budget, Top.previous) /\ Within(Spent, journalBytes)
Ending == phase = "return" /\ frames # <<>> /\ Top.kind = "list"

\* An error of the statement, or one state that is too large, ends all lists;
\* what was journaled stays (evaluateStatementInFrameFully).
EndInError ==
  /\ Ending
  /\ \/ /\ ~Within(Tried, journalBytes)
        /\ Leave(Top.next \o Failed(result.paths), TRUE)
        /\ UNCHANGED states
     \/ /\ Within(Tried, journalBytes) /\ result.error
        /\ Leave(Top.next \o result.paths, TRUE)
        /\ UNCHANGED states
     \/ /\ Within(Tried, journalBytes) /\ ~result.error /\ Refuses
        /\ Leave(Top.next \o Failed(Resolved.paths), TRUE)
        /\ states' = Resolved.h
  /\ UNCHANGED statements

EndStatement ==
  /\ Ending /\ ~result.error /\ Within(Tried, journalBytes) /\ ~Refuses
  /\ Paid
  /\ states' = Resolved.h
  /\ frames' = [frames EXCEPT ![Len(frames)].todo = Tail(@),
                              ![Len(frames)].next = @ \o Resolved.paths,
                              ![Len(frames)].budget = Spent]
  /\ phase' = "list"
  /\ UNCHANGED <<journal, journalBytes, result, statements>>

\* All paths together are too large: the journal undoes the statement.
EndOverBudget ==
  /\ Ending /\ ~result.error /\ Within(Tried, journalBytes) /\ ~Refuses
  /\ ~Paid
  /\ states' = Rollback(Resolved.h, Top.checkpoint)
  /\ frames' = Below
  /\ ReturnWith(Failed(Top.next \o Resolved.paths) \o Failed(Tail(Top.todo)), TRUE)
  /\ Discard(IF AtTop THEN 0 ELSE Top.checkpoint)
  /\ UNCHANGED statements

Body ==
  \/ \E n \in Targets, text \in Texts :
       \/ Printf(n, text) \/ Read(n, text)
       \/ \E clear \in BOOLEAN : Environment(n, text, clear)
  \/ \E n \in Targets : Unset(n)
  \/ \E clear \in BOOLEAN : Uncertain(clear)
  \/ Evaluate \/ Nothing

Next ==
  \/ PassPath \/ StartStatement \/ NextStatement \/ EndList
  \/ \E list \in Lists :
       \/ AssignStatement(list)
       \/ \E always \in BOOLEAN : CallStatement(list, always)
  \/ Body \/ EndCall \/ EndStatement \/ EndInError \/ EndOverBudget

Spec == Init /\ [][Next]_vars
-------------------------------------------------------------------------------
(* What the parts owe each other. *)

\* The bytes of a state, counted from what it holds.
CountedOwn(i) == CountedBytes(states[i].vars) + states[i].other
CountedState(i) ==
  CountedOwn(i) + (IF states[i].failure = None THEN 0
                   ELSE EntryBytes + CountedOwn(states[i].failure))
Counted(paths) == FoldLeft(LAMBDA n, p : n + CountedState(p.state), 0, paths)

\* While a list is evaluated, what it has subtracted and added for its paths
\* is what the paths retain, counted anew from their variables: no path is
\* charged twice or not at all, whatever its statement forked, assigned,
\* restored or undid, and no statement changes what another path retains.
BudgetExact ==
  \A k \in DOMAIN frames : frames[k].kind = "list" =>
    LET f    == frames[k]
        busy == k < Len(frames) \/ phase # "list"
        idle == f.next \o (IF busy THEN Tail(f.todo) ELSE f.todo)
    IN /\ f.budget.bytes = Counted(idle) + (IF busy THEN f.previous ELSE 0)
       /\ f.budget.count = Len(idle) + (IF busy THEN 1 ELSE 0)

\* A value that is not marked as unknown is the value the same steps give
\* when nothing is unknown, with the same elements: through appending,
\* arrays, temporary assignments and what the journal undoes.
KnownIsRight ==
  \A i \in DOMAIN states : \A n \in Name \ states[i].vars.unknown :
    /\ Lookup(states[i].vars, n) = Lookup(states[i].truth, n)
    /\ Slots(states[i].vars, n) = Slots(states[i].truth, n)

Untouched(s, n, written, renewed) ==
  s.written[n] = written[n] /\ s.renewed[n] = renewed[n]

\* A call ends with every name it assigned temporarily as it was before, on
\* every path and every state a path has if it failed, unless the command
\* wrote the name itself; then it stays as the command left it.  A write the
\* journal undid is none.
TemporariesEnd ==
  [][EndCall => \A i \in Chain(states, result.paths), n \in DOMAIN Top.saved :
       LET saved     == Top.saved[n]
           lasting   == ~Top.always /\ saved.applied # 0
           untouched == Untouched(states[i], n, Top.written, Top.renewed)
           written   == /\ states[i].written[n] # Top.written[n]
                        /\ states[i].renewed[n] = Top.renewed[n]
       IN /\ ~lasting \/ untouched => Entry(states'[i].vars, n) = saved.entry
          /\ lasting /\ written => Entry(states'[i].vars, n) = Entry(states[i].vars, n)]_vars

\* When a list runs out of memory, a variable that its last statement wrote
\* only by printf -v is as it was before the statement, its version included.
PrintfUndone ==
  [][EndOverBudget =>
       \A k \in Top.checkpoint + 1 .. Len(journal) :
         LET i == journal[k].state
             n == journal[k].name
         IN i \in DOMAIN Top.before
              /\ Untouched(states'[i], n, Top.before[i].written, Top.before[i].renewed)
            => /\ Entry(states'[i].vars, n) = Entry(Top.before[i].vars, n)
               /\ Version(states'[i].vars, n) = Version(Top.before[i].vars, n)
               /\ states'[i].vars.bytes = CountedBytes(states'[i].vars)]_vars
===============================================================================
