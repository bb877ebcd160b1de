----------------------------- MODULE Redirections -----------------------------
(***************************************************************************)
(* A redirected statement (internal/runtime: redirection.go, control.go    *)
(* evaluateRedirectedStatement) on the file system of MemoryFS.            *)
(*                                                                         *)
(* The redirections are prepared from left to right, each of which may     *)
(* open a file; the statement runs with its output captured in the streams *)
(* of the state; then the capture is taken out and delivered to what the   *)
(* descriptors meant.  Where a file may be missing, the state before it is *)
(* kept, and becomes a path of its own when the statement has ended.  A    *)
(* redirection whose word has a substitution abandons the preparation,     *)
(* which starts again from the first one when the substitution has run.    *)
(*                                                                         *)
(* A statement is a sequence of redirections and a body, which is again a  *)
(* statement, in braces, or a command.  What a program does beyond is left *)
(* to the other modules.                                                   *)
(***************************************************************************)
EXTENDS Descriptors

CONSTANTS
  Programs,  \* sequences of statements
  Outputs,   \* what substitutions may give: [path, unknown]
  Steps,     \* the steps that a simulation may have left
  NoPath     \* no file

VARIABLES
  program,    \* the statements that are left, and the one that runs
  discovery,  \* ExecutionContext.discoveryDepth > 0
  self,       \* the State that is evaluated
  frames,     \* the redirected statements that are active, with their plans
  wanted,     \* the substitution that was asked for
  phase,      \* what happens next
  result,     \* the paths that a statement returns
  steps,      \* what reserveExecutionSteps may still give out
  stop, failed, \* a handler returned CommandStop, or an error
  from,       \* the state in which the statement of the program started,
  given,      \* what its substitutions gave,
  dropped     \* and whether a plan with failure states was given up

vars == <<program, discovery, self, frames, wanted, phase, result, steps, stop, failed,
          from, given, dropped>>
ghosts == <<from, given>>

FS == INSTANCE MemoryFS WITH Slot <- {}, Addr <- {1}, Free <- 0, heap <- 0, ref <- 0,
                             shared <- 0, materializedBytes <- 0

NoState == [none |-> TRUE]
-------------------------------------------------------------------------------
(* The file system of a state: [maps, bytes]. *)

Plain(p, contents, append, unknown) ==
  [path |-> p, contents |-> contents, append |-> append, unknown |-> unknown,
   createParents |-> FALSE]
Abstract(w, unknown) == [w EXCEPT !.unknown = unknown, !.createParents = TRUE]

\* What a write does: an error, or "", and the file system then.
Write(fs, w) ==
  IF w.path = Device THEN [error |-> "", fs |-> fs]
  ELSE [error |-> FS!WriteError(fs.maps, fs.bytes, w),
        fs |-> [maps |-> FS!Written(fs.maps, w), bytes |-> FS!ResultBytes(fs.maps, fs.bytes, w)]]
Exists(fs, p) == p = Device \/ p \in DOMAIN fs.maps.files
ReadFile(fs, p) ==
  IF p = Device THEN Certain(<<>>)
  ELSE [text |-> fs.maps.files[p], unknown |-> p \in fs.maps.unknownFiles]
-------------------------------------------------------------------------------
(* Preparation: an attempt at one redirection gives an error, or "", the   *)
(* state and the plan.  failureStates are snapshots.                       *)

Target(id, capture, p, append) == [id |-> id, captureFD |-> capture, file |-> p, append |-> append]
NewPlan(s) ==
  [stdin |-> s.stdin, stdinReplaced |-> FALSE, stdinFile |-> NoPath, failureStates |-> <<>>,
   stdout |-> Target(1, 1, NoPath, FALSE), stderr |-> Target(2, 2, NoPath, FALSE), nextID |-> 3]

Attempt(error, s, plan) == [error |-> error, s |-> s, plan |-> plan]
Snapshot(s) == [s EXCEPT !.exitFailure = NoState]

\* A file that is written: if only its directories are missing and the
\* statement is a candidate, both outcomes are followed.  abstract is the
\* write that makes them.
Tried(s, plan, write, abstract, doubtful) ==
  IF write.error = "" /\ ~doubtful THEN Attempt("", [s EXCEPT !.fs = write.fs], plan)
  ELSE IF ~discovery \/ (~doubtful /\ write.error # "not exist") THEN Attempt(write.error, s, plan)
  ELSE IF abstract.error # "" THEN Attempt(abstract.error, s, plan)
  ELSE Attempt("", [s EXCEPT !.fs = abstract.fs],
               [plan EXCEPT !.failureStates = Append(@, Snapshot(s))])
OpenFile(s, plan, w, unknown, doubtful) ==
  Tried(s, plan, Write(s.fs, w), Write(s.fs, Abstract(w, unknown)), doubtful)

\* < and <>
WithInput(a, p) ==
  IF a.error # "" THEN a
  ELSE [a EXCEPT !.plan.stdin = ReadFile(a.s.fs, p), !.plan.stdinReplaced = TRUE,
                 !.plan.stdinFile = p]
Input(s, plan, p, readWrite) ==
  WithInput(IF Exists(s.fs, p) THEN Attempt("", s, plan)
            ELSE IF ~readWrite /\ ~discovery THEN Attempt("not exist", s, plan)
            ELSE OpenFile(s, plan, Plain(p, <<>>, FALSE, FALSE), ~readWrite, ~readWrite), p)

\* Here-documents, here-strings and <&-.
HereText(s, plan, text) ==
  Attempt("", s, [plan EXCEPT !.stdin = Certain(text), !.stdinReplaced = TRUE,
                              !.stdinFile = NoPath])

\* Mutant: a descriptor is redirected with the ones that were copied from it.
WithTarget_Followed(plan, fds, target) ==
  LET same == {fd \in {1, 2} : \E g \in fds :
                 (IF fd = 1 THEN plan.stdout ELSE plan.stderr).id
                   = (IF g = 1 THEN plan.stdout ELSE plan.stderr).id}
  IN [plan EXCEPT !.stdout = IF 1 \in same THEN target ELSE @,
                  !.stderr = IF 2 \in same THEN target ELSE @]
WithTarget(plan, fds, target) ==
  [plan EXCEPT !.stdout = IF 1 \in fds THEN target ELSE @,
               !.stderr = IF 2 \in fds THEN target ELSE @]

\* >, >> and, with both descriptors, &> and &>>.
WriteTo(a, fds, target) ==
  IF a.error # "" THEN a
  ELSE [a EXCEPT !.plan =
          [WithTarget(@, fds, target) EXCEPT
             !.nextID = @ + 1,
             !.stdin = IF ~target.append /\ target.file = a.plan.stdinFile
                       THEN Certain(<<>>) ELSE @]]
Output(s, plan, fds, p, append) ==
  WriteTo(OpenFile(s, plan, Plain(p, <<>>, append, FALSE), FALSE, FALSE), fds,
          Target(plan.nextID, 0, p, append))

\* >&1, >&2 and >&-, which is the device.
Duplicate(s, plan, fd, other) ==
  Attempt("", s,
    CASE other = 1 -> WithTarget(plan, {fd}, plan.stdout)
      [] other = 2 -> WithTarget(plan, {fd}, plan.stderr)
      [] OTHER -> [WithTarget(plan, {fd}, Target(plan.nextID, 0, Device, FALSE))
                     EXCEPT !.nextID = @ + 1])

Prepare(s, plan, r, p) ==
  CASE r.op \in {"<", "<>"} -> Input(s, plan, p, r.op = "<>")
    [] r.op = "<<<" -> HereText(s, plan, r.text)
    [] r.op = ">&"  -> Duplicate(s, plan, r.fd, r.other)
    [] OTHER -> Output(s, plan, r.fds, p, r.op \in {">>", "&>>"})
-------------------------------------------------------------------------------
(* Delivery. *)

TakenOut(stream, prefix) ==
  [text |-> SubSeq(stream.text, Len(prefix.text) + 1, Len(stream.text)), unknown |-> stream.unknown]

\* One write of applyOutputTargets; what is captured goes to a stream of the
\* state, and an error stops the next one.
Stored(d, write) ==
  IF write.error = "" THEN [d EXCEPT !.s.fs = write.fs] ELSE [d EXCEPT !.error = write.error]
Put(d, target, value) ==
  IF d.error # "" THEN d
  ELSE IF target.file # NoPath
  THEN Stored(d, Write(d.s.fs, Plain(target.file, value.text, target.append, value.unknown)))
  ELSE IF target.captureFD = 1 THEN [d EXCEPT !.out = Added(@, value)]
  ELSE [d EXCEPT !.err = Added(@, value)]

\* Mutant: descriptors are taken for the same when their files are.
SameTarget_File(plan) == plan.stdout.file = plan.stderr.file
SameTarget(plan) == plan.stdout.id = plan.stderr.id

\* applyOutputTargets.
Apply(plan, d, out, err) ==
  IF SameTarget(plan) THEN Put(d, plan.stdout, Added(out, err))
  ELSE Put(Put(d, plan.stdout, out), plan.stderr, err)
Finished(level, path, d) ==
  LET end == [d.s EXCEPT !.stdin = IF level.plan.stdinReplaced THEN level.original.stdin ELSE @]
  IN IF d.error # ""
     THEN [state |-> [end EXCEPT !.issue = TRUE], status |-> "incomplete"]
     ELSE [path EXCEPT !.state = [end EXCEPT !.stdout = Added(@, d.out),
                                             !.stderr = Added(@, d.err)]]
Delivered(level, path) ==
  LET back == [path.state EXCEPT !.stdout = level.original.stdout, !.stderr = level.original.stderr]
  IN Finished(level, path,
       Apply(level.plan, [s |-> back, out |-> Certain(<<>>), err |-> Certain(<<>>), error |-> ""],
             TakenOut(path.state.stdout, level.original.stdout),
             TakenOut(path.state.stderr, level.original.stderr)))

\* The paths that failed to open a file are paid for when the statement has
\* ended.  Mutant: if they cannot be paid for, the others go on.
Unpaid_Kept(paths) == paths
Unpaid(paths) ==
  [i \in DOMAIN paths |->
     [state |-> [paths[i].state EXCEPT !.issue = TRUE], status |-> "incomplete"]]
Failures(plan) ==
  [i \in DOMAIN plan.failureStates |->
     [state |-> [plan.failureStates[i] EXCEPT !.exit = "false"], status |-> "completed"]]
-------------------------------------------------------------------------------
(* Steps. *)

Top   == Last(frames)
Word  == Top.redirs[Top.next]
Ready == phase = "prepare" /\ Top.next <= Len(Top.redirs)
Named == Word.op \in {"<<<", ">&"} \/ Word.subst = 0 \/ Word.subst \in DOMAIN given
Value == IF Word.op \in {"<<<", ">&"} THEN [path |-> NoPath, unknown |-> FALSE]
         ELSE IF Word.subst = 0 THEN [path |-> Word.path, unknown |-> FALSE]
         ELSE given[Word.subst]

Level(s, statement) ==
  [redirs |-> statement.redirs, body |-> statement.body, plan |-> NewPlan(s), next |-> 1,
   original |-> NoState]
WithTop(level) == Append(Front(frames), level)
Path1(s, status) == <<[state |-> s, status |-> status]>>

InitialState ==
  [fs |-> [maps |-> [files |-> <<>>, dirs |-> {<<>>}, unknownFiles |-> {}], bytes |-> 0],
   stdin |-> Certain(<<"i", "j">>), stdout |-> Certain(<<>>), stderr |-> Certain(<<>>),
   exit |-> "true", exitFailure |-> NoState, issue |-> FALSE, seen |-> <<>>]

Init ==
  /\ program \in Programs
  /\ discovery \in BOOLEAN
  /\ steps \in Steps
  /\ self = InitialState /\ from = InitialState
  /\ frames = <<Level(InitialState, Head(program))>>
  /\ phase = "prepare"
  /\ wanted = 0 /\ result = <<>> /\ given = <<>>
  /\ stop = FALSE /\ failed = FALSE /\ dropped = FALSE

\* prepareRedirections goes on to the next redirection.
Redirect ==
  /\ Ready /\ Named /\ ~Value.unknown
  /\ \E a \in {Prepare(self, Top.plan, Word, Value.path)} :
     /\ a.error = ""
     /\ self' = a.s
     /\ frames' = WithTop([Top EXCEPT !.plan = a.plan, !.next = @ + 1])
  /\ UNCHANGED <<program, discovery, wanted, phase, result, steps, stop, failed, dropped, ghosts>>

\* It is given up, and the plan with it: expansionRequested.
AskSubstitution ==
  /\ Ready /\ ~Named
  /\ wanted' = Word.subst
  /\ phase' = "substitute"
  /\ dropped' = (dropped \/ Top.plan.failureStates # <<>>)
  /\ UNCHANGED <<program, discovery, self, frames, result, steps, stop, failed, ghosts>>

\* evaluateStatementInFrameFully: the statement is evaluated again.
Substitute ==
  /\ phase = "substitute"
  /\ \E o \in Outputs : given' = [id \in DOMAIN given \cup {wanted} |->
                                    IF id = wanted THEN o ELSE given[id]]
  /\ frames' = WithTop([Top EXCEPT !.plan = NewPlan(self), !.next = 1])
  /\ wanted' = 0 /\ phase' = "prepare"
  /\ UNCHANGED <<program, discovery, self, result, steps, stop, failed, from, dropped>>

\* A redirectionFailure fails the statement; a path that is not known, or no
\* memory for the file, ends the path.
Refuse ==
  /\ Ready /\ Named
  /\ \E a \in {Prepare(self, Top.plan, Word, Value.path)} :
     /\ Value.unknown \/ a.error # ""
     /\ result' = IF Value.unknown THEN Path1([self EXCEPT !.issue = TRUE], "unresolved")
                  ELSE IF a.error = "limit"
                  THEN Path1([self EXCEPT !.issue = TRUE], "incomplete")
                  ELSE Path1([self EXCEPT !.exit = "false", !.exitFailure = NoState,
                                         !.stderr = Added(@, Certain(Message))], "completed")
  /\ dropped' = (dropped \/ Top.plan.failureStates # <<>>)
  /\ frames' = Front(frames)
  /\ phase' = "resolve"
  /\ UNCHANGED <<program, discovery, self, wanted, steps, stop, failed, ghosts>>

\* The body runs with the streams of the plan.
Enter ==
  /\ phase = "prepare" /\ Top.next > Len(Top.redirs)
  /\ LET s == [self EXCEPT !.stdin = Top.plan.stdin,
                           !.stdout.unknown = FALSE, !.stderr.unknown = FALSE]
         original == [stdin |-> self.stdin, stdout |-> self.stdout, stderr |-> self.stderr]
         level == [Top EXCEPT !.original = original]
     IN /\ self' = s
        /\ IF "redirs" \in DOMAIN Top.body
           THEN /\ frames' = Append(WithTop(level), Level(s, Top.body))
                /\ UNCHANGED phase
           ELSE /\ frames' = WithTop(level)
                /\ phase' = "body"
  /\ UNCHANGED <<program, discovery, wanted, result, steps, stop, failed, dropped, ghosts>>

Printed(s, out, err) ==
  [s EXCEPT !.stdout = Added(@, out), !.stderr = Added(@, err), !.exitFailure = NoState]

Body ==
  /\ phase = "body"
  /\ LET c == Top.body
         s == Consumed(self, c)
         both == Printed(s, c.out, c.err)
     IN IF steps = 0
        THEN /\ result' = Path1([self EXCEPT !.issue = TRUE], "incomplete")
             /\ UNCHANGED <<steps, stop, failed>>
        ELSE /\ steps' = steps - 1
             /\ stop'   = (c.ends = "stop")
             /\ failed' = (c.ends = "error")
             /\ result' =
                  CASE c.ends \in {"true", "false"} ->
                         Path1([both EXCEPT !.exit = c.ends], "completed")
                    [] c.ends = "stop"  -> Path1(both, "terminated")
                    [] c.ends = "error" -> Path1([s EXCEPT !.issue = TRUE], "incomplete")
                    [] c.ends = "fork"  -> \* its branches print and succeed
                         Path1([Printed(s, c.out, Certain(<<>>)) EXCEPT !.exit = "true"],
                               "completed")
                         \o Path1([Printed(s, Certain(<<>>), c.err) EXCEPT !.exit = "true"],
                                  "completed")
                    [] c.ends = "unsure" -> \* setUnknownExitCodeWithFailure
                         Path1([s EXCEPT !.exit = "unknown", !.exitFailure = Snapshot(self)],
                               "completed")
  /\ phase' = "return"
  /\ UNCHANGED <<program, discovery, self, frames, wanted, dropped, ghosts>>

\* The rest of evaluateRedirectedStatement.
Leave ==
  /\ phase = "return"
  /\ LET plan  == Top.plan
         paths == [i \in DOMAIN result |-> Delivered(Top, result[i])]
         n     == Len(plan.failureStates)
     IN IF n = 0 \/ failed \/ stop
        THEN result' = paths /\ UNCHANGED steps
        ELSE IF n > steps
        THEN result' = Unpaid(paths) /\ UNCHANGED steps
        ELSE result' = paths \o Failures(plan) /\ steps' = steps - n
  /\ frames' = Front(frames)
  /\ phase' = "resolve"
  /\ UNCHANGED <<program, discovery, self, wanted, stop, failed, dropped, ghosts>>

\* resolveCorrelatedExitStatuses, of the list that the statement is in.
Resolved ==
  FoldLeft(LAMBDA r, p :
      IF p.status # "completed" \/ p.state.exit # "unknown" THEN [r EXCEPT !.paths = Append(@, p)]
      ELSE IF r.steps = 0
      THEN [r EXCEPT !.paths = Append(@, [state |-> [p.state EXCEPT !.issue = TRUE],
                                          status |-> "incomplete"])]
      ELSE [steps |-> r.steps - 1,
            paths |-> r.paths
              \o Path1([p.state EXCEPT !.exit = "true", !.exitFailure = NoState], "completed")
              \o Path1([p.state.exitFailure EXCEPT !.exit = "false"], "completed")],
    [steps |-> steps, paths |-> <<>>], result)
Resolve ==
  /\ phase = "resolve"
  /\ IF failed THEN UNCHANGED <<result, steps>>
     ELSE result' = Resolved.paths /\ steps' = Resolved.steps
  /\ phase' = IF frames = <<>> THEN "done" ELSE "return"
  /\ UNCHANGED <<program, discovery, self, frames, wanted, stop, failed, dropped, ghosts>>

\* evaluateStatements goes on with one of the paths.
NextStatement ==
  /\ phase = "done" /\ Len(program) > 1 /\ ~stop /\ ~failed
  /\ \E p \in Range(result) :
       /\ p.status = "completed"
       /\ self' = p.state /\ from' = p.state
       /\ frames' = <<Level(p.state, program[2])>>
  /\ program' = Tail(program)
  /\ phase' = "prepare"
  /\ given' = <<>> /\ dropped' = FALSE /\ result' = <<>>
  /\ UNCHANGED <<discovery, wanted, steps, stop, failed>>

Next == Redirect \/ AskSubstitution \/ Substitute \/ Refuse \/ Enter \/ Body \/ Leave \/ Resolve
          \/ NextStatement
Spec == Init /\ [][Next]_vars
-------------------------------------------------------------------------------
(* Properties. *)

FileContent(fs, p) == [text |-> fs.maps.files[p], unknown |-> p \in fs.maps.unknownFiles]
Shown(s) ==
  [files |-> [p \in DOMAIN s.fs.maps.files |-> FileContent(s.fs, p)], dirs |-> s.fs.maps.dirs,
   stdin |-> s.stdin, stdout |-> s.stdout, stderr |-> s.stderr, exit |-> s.exit, seen |-> s.seen,
   notes |-> {}]

Real    == Executions(Shown(from), Head(program), discovery, given)
Paths   == {Shown(p.state) : p \in {q \in Range(result) : q.status = "completed"}}
Ended   == phase = "done"
AllDone == Ended /\ ~stop /\ ~failed /\ \A p \in Range(result) : p.status = "completed"

\* Of a message that a shell prints the paths say nothing if the file was one
\* that may be missing (control.go:564-568), and have it where descriptor 2 led
\* before the redirections of the statement (control.go:507-511): see README.md.
Silent(value) == [value EXCEPT !.text = SelectSeq(@, LAMBDA piece : piece # Message[1])]
Unsaid(w) ==
  [w EXCEPT !.stdout = Silent(@), !.stderr = Silent(@),
            !.files = [p \in DOMAIN @ |-> Silent(@[p])]]
Misplaced(w) == w.notes \cap {"redirected", "missing"} # {}
IsPathOf(path, real) ==
  LET w == [real EXCEPT !.notes = {}] IN
  path = w \/ (Misplaced(real) /\ Unsaid(path) = Unsaid(w))

(***************************************************************************)
(* A path that completes a redirected statement is an execution of it:     *)
(* each piece of output of a command is where the descriptors of a shell   *)
(* would have put it, once, what was read is what a shell would have read, *)
(* and the input of the next statement is the one before (control.go:      *)
(* 498-552, redirection.go:98-267).  So is the message about a file that   *)
(* cannot be opened, except in the cases of Misplaced, where the rest is   *)
(* compared.                                                               *)
(***************************************************************************)
PathsAreReal == Ended => \A path \in Paths : \E real \in Real : IsPathOf(path, real)

\* An append to a file in a directory that may be missing, and an opening for
\* input and output, start from a file without contents (redirection.go:
\* 267-293); that there are some is a world no path is for: see README.md.
Followed == {real \in Real : "contents" \notin real.notes}
AllFollowed == \A real \in Followed : \E path \in Paths : IsPathOf(path, real)

(***************************************************************************)
(* If all paths of a statement are completed, every execution is one of    *)
(* them, the ones in which a file could not be opened included; so when    *)
(* those could not be paid for (control.go:553-569), the others do not go  *)
(* on as if they were all.  Left out are the executions in which a file    *)
(* that is appended to in a directory that may be missing had contents,    *)
(* and a plan that was given up.                                           *)
(***************************************************************************)
RealIsFollowed == AllDone /\ ~dropped => AllFollowed

\* The same whatever happened to the plan.
NoOutcomeLost == AllDone => AllFollowed
===============================================================================
