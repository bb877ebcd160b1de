# A verification of libcommand

libcommand simulates Bash scripts without running anything: a script is parsed, its statements are
evaluated on a shell state that lives in memory, and every external command goes to a Go handler the
caller registered. What a command leaves open (its exit status, a file that may or may not exist) is
explored as several *execution paths*. This directory holds TLA+ models of the evaluator and of the
states its paths carry, the TLC configurations that check them, and proofs that TLAPS checks.

Paths below are relative to `src/internal/runtime` unless they start with `src/`.

## The system

| Component | State | Operations | Interacts with |
| --- | --- | --- | --- |
| Simulator, Builder (`src/simulator.go`, `src/builder.go`) | command map, limits | Register, Build, Simulate | creates one `ExecutionContext` per call; a built Simulator is shared by goroutines |
| Statement lists and statements (`control.go`) | the paths of a list; per statement a stack of pending paths; nesting counters, `stop` | `evaluateStatements`, `evaluateStatement`, negation, pipelines, `Execute` | calls everything below, recursively |
| Branches, loops (`branch.go`, `loop.go`) | paths of the condition, of the body; `loopDepth`, loop statuses | `if`, `&&`, `\|\|`, `case`, `[[ ]]`, `while`, `for`, `select` | lists; resolve the statuses of conditions |
| Child processes (`subprocess.go`) | a clone of the parent's state | `( )`, `&`, `$( )`, `$(<f)`, `bash -c` | lists; EXIT traps; merge fs, issue, streams into the parent |
| Failure effects (`termination.go`) | `errexitSuppressed`, `errTrapSuppressed` | errexit, ERR trap, EXIT trap | evaluates trap text as source |
| Commands (`call_*.go`, `command_*.go`, `language_control.go`, `dynamic.go`) | the invocation | functions, handlers, `break`/`return`/`exit`, Invoke, Replace, Evaluate, Source, RunShell | handlers are callbacks, called with the state of the path |
| Budget and cancellation (`limits.go`, `issue.go`) | `executedSteps`, the caller's context, one issue per path | reserve, release, check | asked before each call and fork |
| Shell state, variables (`state.go`, `variables.go`) | maps, sharing marks, byte counts, scopes, frames | clone, set, delete, save, restore | cloned at every fork and child |
| File system (`fs.go`), redirections (`redirection.go`) | files, directories, unknown files | write, append, mkdir, read | part of the state; cloned with it |
| Memory budget (`materialization.go`) | bytes per path, journals, nested shells | retain, replace, check | after every statement |
| Expansion, certainty, arithmetic, conditions (`expand.go`, `certainty.go`, `arithmetic.go`, `condition.go`) | the variables they assign; a request for a substitution | words to fields, three-valued tests, assignments | stop at a substitution, which rolls back and restarts the statement |
| Candidate index (`candidates.go`) | marked nodes, names of functions, bytes of added files | add, mark | consulted by every statement; extended by `eval`, `source`, traps |
| Tracing (`trace.go`) | event and path ids | emit | every statement and command |
| Playground (`src/playground`, `src/cmd/playground*`) | a web worker, the pending request, the awaited preview, the queue of the live flow | edit, run, pause, resume, stop; timers; ready, error, preview, trace, result | messages between page and worker; callbacks of the page |

What is hard in it. Only the playground is concurrent: a page and a worker that exchange messages,
timers, and a user who acts at any moment. Nothing runs concurrently inside one simulation, but its
paths interleave: they are evaluated one after the other by deeply recursive functions that share
counters, a budget and a stop flag, restart a statement when a substitution forks it, and must leave
every path in the scopes they found it in however it ended. The caller's context may be cancelled
between any two steps. Paths share their maps until one of them writes. Errors hand over the paths
that exist through several layers of deferred cleanup. An assignment may be taken back by three
different parts of the evaluator (the list of assignments it is in, the call it is temporary for,
the journal of `printf -v`), and a redirected statement pretends to have open files by capturing
output and delivering it later.

What makes each part correct:

* evaluator: the paths it ends with are exactly the executions of the program; scopes, counters and
  signals are balanced; ERR traps do not nest;
* uncertainty: the two outcomes of a command are told apart before anything can confuse them;
* limits: no handler call without a step, at most one after a cancellation, none after CommandStop;
  an ending is explained; `nil` means all was explored; the simulation ends;
* states: sharing is invisible, byte counts are exact;
* assignments: what is temporary ends, what is undone is undone completely, the retained bytes of a
  list are those of its paths;
* expansion: a restart repeats no effect, and nothing that depends on something unknown is passed
  off as known;
* redirections: a path is what a shell with file descriptors would have done, and none is missing
  (but for the cases under *Observed*);
* candidate index: it holds what leads to a candidate command, and nothing else;
* playground: what is drawn is of the live run and of the text in the editor, a run ends, and pause
  and stop are obeyed.

## The modules

| Module | What it is |
| --- | --- |
| `ShellPaths` | The data: shell states, paths, and the functions on them that evaluate nothing (exit statuses, forks, substitution frames, loop signals, control builtins, what a child inherits and gives back). |
| `Evaluator` | The recursive evaluator as a stack machine; next-state relation, properties. |
| `ShellSemantics` | The abstract specification: the set of concrete executions of a program, by recursion on its syntax. No paths, frames, budget or unresolved statuses. For TLC only (it is recursive). |
| `MCEvaluator` | Programs, handlers and `ExactPaths`, which compares the two. |
| `EvaluatorProofs` | The proofs about step accounting, that paths which end early have an issue, and that ERR traps do not nest. |
| `ShellStates` | The abstract specification of states: each path has maps of its own. |
| `CowState` | Copy-on-write states with sharing marks and byte counts. |
| `MCCowState` | Its TLC instance. |
| `FoldsProofs` | Lemmas on folds over sequences and finite sets, for any operator, and on sums, for the byte counts. |
| `CowStateProofs` | The proofs that `CowState` implements `ShellStates` and counts its bytes exactly. |
| `VirtualPaths` | Paths as sequences of names, and the arguments of a write. |
| `VirtualFiles` | The abstract specification of the file system: one tree per path, writes and forks that are allowed, reasons for refusing the others. |
| `MemoryFS` | The three maps, their sharing, the walk over missing directories, the limit, and the calls that change files. |
| `MCMemoryFS` | Its TLC instance. |
| `MemoryFSProofs` | The proofs about the shape of the file system, its byte counts, its answers, and that it implements `VirtualFiles`. |
| `Variables` | The variables of a state: values, unknown names, elements of sparse arrays, versions, bytes. |
| `Assignments` | Lists, calls with temporary assignments, builtins that write variables, the journal, and the retained bytes of the paths of a list. |
| `MCAssignments` | Its TLC instance. |
| `AssignmentsLemmas` | The inductive invariant of `Assignments`, and lemmas on variables, states, paths, budgets and the journal. |
| `AssignmentsProofs` | The proofs that every step keeps it, and of the four properties of `Assignments`. |
| `Numbers` | Literals and operators of shell arithmetic on integers of a fixed width. |
| `Braces` | How the fields of a brace expansion are counted before the library makes them, against what it makes. |
| `Expansion` | Words, parameters, arithmetic, tests and case patterns as functions on variables, with what is unknown about them. |
| `Substitutions` | A command that is restarted at each substitution it meets, on `Expansion`. |
| `MCExpansion` | Its TLC instance. |
| `Descriptors` | The abstract specification of redirections: a shell with open file descriptions, and its worlds where a file may be missing. |
| `Redirections` | The plan, the capture, the delivery, the failure states and the restarts, on the file system of `MemoryFS`. |
| `MCRedirections` | Its TLC instance. |
| `Candidates` | The candidate index, one step per node that is marked. |
| `MCCandidates` | Its TLC instance. |
| `CandidatesProofs` | The proof that the index is exact. |
| `WebWorkers` | The workers of the playground and the queues of messages between them and the page. |
| `Playground` | The page: one action per callback. Its configurations instantiate it directly. |
| `PlaygroundProofs` | The proofs that the pending request, its timeout and the live run agree, and about what is drawn: of the live run, of the text in the editor, and unmoved while paused. |

### Evaluator

Every frame of `stack` is one active Go call; its `kind` names the function, its `pc` the place in
it:

| kind | function | pcs |
| --- | --- | --- |
| `list` | `evaluateStatements` | `start` the loop over paths, `call` a statement runs, `effects` `applyFailureEffects`, `correlate` `resolveCorrelatedExitStatuses` |
| `stmt` | `evaluateStatement` and `...InFrameFully` | `start`, `call`, `resume` after a substitution |
| `logical`, `if`, `while`, `for`, `not`, `pipe` | the compound of that name | `call` the condition or a side, `branch`, `loop`, `merge` |
| `function`, `eval`, `source`, `replace`, `invoke`, `delegate` | calls and operations; `delegate` is a handler reached by Invoke | `start`, `call` |
| `main`, `subshell`, `background`, `subst`, `shell` | `Execute` and the children | `call` the statements, `traps`, `merge` |

`todo`, `work`, `out` and `done` are the slices of paths a function holds: not yet evaluated, being
classified, classified, and its results. `ret` carries the paths a call returns, `mode = "raise"`
its error. `quiet` and `mute` are what a frame has added to `errexitSuppressed` and
`errTrapSuppressed`, so `Leave` is the deferred decrement. `CleanUp` is the deferred work on the
returned paths. Each step of the model handles one path, or makes or returns one call.

The data is abstracted as follows. Exit statuses are zero, nonzero or unknown. The file system is
the sequence of commands that wrote to it, which tells the states of any two executions apart. A
handler has a set of outcomes (succeed, fail, unknown, CommandStop, error, cancel the context,
delegate by Invoke). A statement's words are the substitutions in them; expansion stops at the first
one the frame has no result for. Trap text and `eval` text are given as parsed lists. Streams,
variables, the memory budget and tracing are absent; each of the retained-budget checks in the
source can only end a simulation with an error, like the handler errors that are modelled.

### CowState and ShellStates

A state is a pointer (`ref`) to a cell for each of its four shared parts (functions, traps,
variables, local scopes), a mark per part and a byte count per part. `Mutate` is the
`ensure...`/`mutable...` protocol: copy if marked, then write. `Clone` marks both sides; marks are
not counts and stay when the other owner is gone. The refinement mapping follows the pointers. A
cell nobody points to is collected, so two runs that differ in garbage only are one state. A slot
holds one path; overwriting a slot is a path that ends.

### MemoryFS and VirtualFiles

A cell holds `files`, `dirs` and `unknownFiles` of one `memoryFS`; `shared` is its one mark.
`WriteError` is the sequence of checks of `writeValueMode`, `Written` and `ResultBytes` what it
stores, `WalkError` and `MissingLevels` the loop of `missingDirectories`, `Store` is `ensureMutable`
and the write after it. The callers are actions of their own: redirections (`OpenOutput`,
`OpenInputOutput`), their variants for files and directories that may be missing, which keep a
snapshot in another slot (`Discover...`), the delivery of output after a statement (`Deliver`),
process substitutions, `cd`, and `Clone`. A snapshot of a call that is then refused is dropped, and
all that stays is the mark on the file system it was taken of.

In `VirtualFiles` a path has a function from paths to nodes, and a write is one assignment to it,
allowed if the result is a tree of at most the limit. Which error a refused call returns is not part
of its steps (a refusal is a stutter) and is compared by `Answers`, for every request in every
reachable state: this includes requests no caller makes, such as a write of contents that also makes
directories. Contents are sequences of chunks of one byte each.

### Variables and Assignments

`Put` and `Delete` are `put` and `delete` of the variable overlay with their byte accounts; the
versions tell a restore whether the name was written since. In `Assignments` the stack `frames` has
the active `evaluateStatements` calls (with the paths they still have to handle and their
`retainedPathBudget`) and the active calls with temporary assignments (with what they saved). One
action is one statement begun (`StartStatement`, `PassPath`), one thing a statement can be
(`AssignStatement`, `CallStatement`, `Nothing`, `Printf`, `Read`, `Unset`, `Uncertain`,
`Environment`, `Evaluate`), or one return (`EndCall`, `EndStatement`, `EndInError`, `EndOverBudget`,
`EndList`). What the commands do beyond their assignments is a choice: succeed, fork a path off, or
leave a status that is not known together with the state the path has if it failed.

Each state carries two things the code does not have: `truth`, the variables that the same steps
give when nothing is unknown, and counts of writes per name. They are only read by the properties.

### Expansion and Substitutions

`Expansion` is functional: the functions that expand a word, evaluate an expression or a test become
operators from variables to a result with the variables afterwards, the value, whether the value is
known, the error, and the substitution asked for. The order of effects is that of the code, also
where that is not the order of the text. The library's own expansion of a parameter is
`LibraryPart`. `Substitutions` is the machine around it: `Attempt` is one evaluation of the command
on the variables as they are, `Substitute` gives a result to what was asked for: a text that is
known, or a placeholder beside what a real shell would have put there (`truth`). Commands that are
only a question about numbers, slices or braces (kinds `operator`, `text`, `slice`, `brace`) stay in
their initial state, where `NumbersExact`, `SliceInside` and `BracesCounted` look at them.

Texts are sequences of characters in base 64 digits, so that the same text can be read as a number
of any base; numbers have `Width` bits, four in the run where the code has sixty-four.

### Redirections and Descriptors

`frames` has the redirected statements that are active, from the outermost, each with its plan
(`redirectionPlan`): the targets of both descriptors, the failure states, the streams before.
`Redirect` prepares one redirection, `Refuse` is one that fails for sure, `AskSubstitution` and
`Substitute` give up the plan and start again, `Enter` installs the streams, `Body` is a command,
`Leave` delivers what was captured and adds the failure states, `Resolve` is what the list does with
an unresolved status. `Descriptors` knows nothing of plans: `Executions` opens files and copies
descriptors from left to right and writes to the open file at once, in each world there is. The
streams are compared piece by piece, with the flag that says that a piece of unknown length is in
them.

`Descriptors` is a shell throughout, where the code is not one as well: whoever cannot open a file
says so on the descriptor 2 there is by then (`Complained`), and a file that is appended to in a
directory that may be missing may have had contents (`Met`). `notes` marks the executions in which
the code is known to differ, and the properties say in which respect: `IsPathOf` compares all but the
message when it went where the statement had redirected descriptor 2 before, or when the file was one
that may be missing; `Followed` leaves out the executions with such contents. The programs concerned
are all in the run, and without any one of the three exceptions TLC finds the property violated; the
differences are described below, under *Observed*.

`MCRedirections` leaves out what `Clash` describes: two redirections that open the same file, of
which descriptor 2 truncates it (`cmd >f 2>f`, `cmd >>f 2>f`). There the delivery of descriptor 2
replaces the file, with nothing if nothing was written to it, and what descriptor 1 wrote is lost; a
shell would have written both from offset 0, or one after the other. Which of these a caller should
expect is a matter of taste.

### Candidates

`nodes` and `candidateFunctions` are the index; `todo`, `current` and `functions` are the loop
variables of `add` and the place `mark` has come to. Lists are sets, so the properties hold for
every order the code could take. `Build` adds the file Execute is given, `AddDynamic` one that is
met while it runs, which is refused when the memory limit does not allow it; `Cancel` ends the
simulation between two nodes.

### WebWorkers and Playground

Variables of `Playground` have the names of those in `app.js`; 0 stands for `null`, and
`liveRuntime` holds the id of the run for which `liveAST` and `liveRuntime` exist (they are set and
cleared together). `timeouts` are the armed timeouts of runs, `liveRevealTimer` and
`astPreviewTimer` whether these are armed. `shownRuntime` and `shownAST` are what `currentModels`
shows: how many events of which run, and the syntax of which text, with the text taken from the
message that brought it, not from what the page believes. Each action is one callback, run to its
end: functions it calls are operators (`RenderFailure`, `AdvanceLiveFlow`, `RestartWorker`...).
`AdvanceLiveFlow` draws up to any event after the first, because which events add a node depends on
the perspective.

A worker is external as far as the browser goes: it takes requests in order, streams events numbered
within their run, may fail to load, never answer, or report an uncaught error at any moment
(`OnWorkerFault`). Messages of a terminated worker may be dropped or still arrive; browsers drop
them, but the page was written to tolerate them and is checked with them. Status texts,
`recoveryMessage` and the review notice for shared code are left out. The run button is taken to be
enabled as `updateLiveControls` last set it, which every callback that changes `liveRuntime` or
`workerReady` calls at its end.

## The runs

| Run | Question | Bounds |
| --- | --- | --- |
| `paths` (`MCPaths.cfg`) | Are the paths exactly the executions? Are scopes, signals, counters and traps sound, outcomes told apart? | 591 programs; budget 40, never reached; 71k states |
| `limits` (`MCLimits.cfg`) | Budget, cancellation, CommandStop, errors, termination | 102 programs; budget 6, cancellation at every step; 34k states |
| `cow_states` (`MCCowState.cfg`) | Is sharing invisible, are byte counts exact? | 3 states, 1 name, 1 value, 4 writes; any number of clones; 167k states |
| `memory_fs` (`MCMemoryFS.cfg`) | Are files and directories a tree, with exact bytes, and each call all or nothing? | 2 file systems, 7 paths up to depth 4, 10 bytes; 2.6k states |
| `playground` (`MCPlayground.cfg`) | Does the page draw only what belongs to the live run and the text, whatever arrives when? | 2 runs, 3 workers, 2 events, 2 texts, 1 edit, 1 fault; 1.4M states |
| `playground_live` (`MCPlaygroundLive.cfg`) | Does a run end, does a preview arrive? | 1 run, 2 workers, 2 events, 2 edits; 55k states |
| `assignments` (`MCAssignments.cfg`) | Who undoes which assignment, and what are paths charged for? | 3 statements, 4 nested lists and calls, 2 names, 30 bytes; 847k states |
| `expansion` (`MCExpansion.cfg`) | Do restarts repeat anything, does a placeholder pass for a value, are numbers, slices and braces right? | commands of up to 2 words, 2 substitutions with 5 outcomes each; 4 bits; 87k states |
| `redirections` (`MCRedirections.cfg`) | Are the paths the executions of a shell with descriptors? | 2 statements, up to 3 redirections or 2 levels, 14 bytes, 1, 2, 3 or 9 steps; 174k states |
| `candidates` (`MCCandidates.cfg`) | Is exactly what leads to a candidate command in the index? | up to 4 of 16 files (3 within the memory limit), 18 bytes; 10k states |
| `stray_break` (`MCBreak.cfg`), `lost_failure` (`MCLost.cfg`) | The differences below | one program each |

Why the bounds are enough. Every construct of the model appears in `paths` with a command of each
kind in each of its positions (succeeds, fails, unknown, unregistered, and `cd`, whose failure has a
state of its own), and with each control transfer on a path that may or may not take it, nested in
loops up to depth two with counts up to three, under errexit, ERR traps, inherited ERR traps and
EXIT traps. The evaluator treats paths one at a time, so interactions need at most two paths, which
one unknown command makes; most programs have two such commands, giving up to four paths. In
`limits` the programs need three to ten steps and the budget is six, so it runs out at the first, a
middle and the last reservation of each construct. In `cow_states` a defect of sharing needs one
owner that writes, one that looks, and one more to have taken a copy before either; four writes
allow function, save, assign, restore in a row with clones at any point. Isolation and the sharing
marks are proved for any bound besides. In `memory_fs` an entry costs one byte and a byte per level:
there is room for a file three levels down, for a shorter one with a mark or with contents, and
never for the path below it, so every check of the limit fails somewhere; the device has a path
below it, and any of the paths can be tried as a file and as a directory.

In `playground` the second run is what messages and timers of the first can be mistaken for, and the
preview of the first text is what the one after the edit can be mistaken for; the second event of a
run is the first that is drawn on its own and followed by the reveal timer. `playground_live` trades
the second run for a second edit, so that a preview is overtaken twice.

In `assignments` a wrong restore needs a value before, a temporary assignment, and a write by the
command, by a nested call or by the journal between the two; an error of the retained bytes needs a
statement that forks and one after it. Thirty bytes hold three or four values on one path, or fewer
on two, so that lists run out at every kind of statement and on the first and the second of two
paths. In `expansion` two words are enough for the second to see what the first assigned and for
each to ask for its own substitution, so that a restart comes after an effect, before it and between
two; all operators are checked on all pairs of four bit numbers, which include both ends, both signs
and zero, and all literals up to three characters. In `redirections` there are two files in the root
directory (which an input may or may not find), one in a directory that may be missing, that
directory and the device; all pairs of redirections are tried with commands that print to one or
both descriptors, fork, fail, stop and end in doubt. The second statement finds the file system and
the streams as the first left them. In `candidates` a call may come before, with or after the
declaration it means, in the same file or another, and a chain of three files makes a function a
candidate only through another.

`SYMMETRY` in `MCCowState.cfg` and `MCMemoryFS.cfg` permutes the slots, which nothing tells apart:
`Init` is the same for all and `Next` quantifies over them. The refinements they check have no
liveness part.

Deadlock is not checked in the two runs of the playground, whose sessions end with their bounds, nor
where a program comes to its end or its files are used up (`assignments`, `expansion`,
`redirections`, `candidates`, `lost_failure`). In the others it is: the evaluator has a self-loop
(`Halted`) only after `Execute` returned, so a frame no action applies to would be found; `CowState`
and `MemoryFS` always allow a clone.

Fairness. `FairSpec` adds `WF_vars(Step)`: the evaluator is one sequential Go call that takes its
next step whenever it has one, and handlers are assumed to return. Nothing is assumed about
`Cancel`. `FairSpec` of `Playground` assumes that the event loop runs armed timers and delivers
messages, and that a worker finishes loading, one way or the other, and answers parse requests. It
assumes nothing of the user, and nothing of a simulation, which may hang in a handler.

What the properties say beyond their comments:

* `ExactPaths` is stated for simulations that were explored to the end without CommandStop. A final
  path with an unresolved status stands for two executions, one of each status. Programs that fall
  under *Differences* are not in the run.
* `ScopesBalanced` looks at the results of each statement before its own frame is popped.
  `stray_break` is the case in which it does not hold: a `for` loop over a substitution.
* `FailuresNotDropped` is why `setSubstitutionAlternatives` (`subprocess.go:139`) never has to fork:
  `resolveCorrelatedExitStatuses` has been there before. The fork in it, and the failure states of
  its callers, are dead code as long as this holds.
* `Answers` shows one thing a caller may not expect: a write that makes an unknown file known needs
  room for the mark it removes, so near the limit it is refused although its result would fit
  (`SizeNeeded`).
* `BudgetExact` looks at a list at any moment of its statement: what was subtracted for the path
  that is being evaluated and added for those that are done is counted anew from the variables of
  every path.
* `KnownIsRight` is checked twice: in `assignments` for values that pass through arrays, temporary
  assignments and undoing, in `expansion` for everything a word can do. Programs under *Observed*
  that break it are not in the run. A `let` that depends on an unknown output is made to fail by the
  code and claims nothing (`simulator_unknown_test.go:498-541`).
* `EffectsOnce` compares a command that was restarted with one evaluation that has all the outputs
  at hand. It says nothing of which of the two is right; that is `KnownIsRight`.
* `PathsAreReal` and `RealIsFollowed` are the two halves of the refinement of `Descriptors`; they
  are not one because a simulation that was stopped, or ran out of steps, has fewer paths and none
  that is not an execution. `RealIsFollowed` leaves out plans that were given up, for which
  `lost_failure` shows that it fails. Neither says where the message about a file that cannot be
  opened is, in the cases of `Misplaced`; there they compare the files, streams, input and status
  without messages. That a path has the message where a shell has it is claimed for failures that are
  certain, in statements that have not redirected descriptor 2 before.
* `PrintfUndone` looks at the states the journal has recorded. Copies forked after a `printf -v`
  wrote keep what it wrote (see *Observed*).
* `NoCallAfterStop` holds for programs whose statements have at most one pending path, as those of
  `limits` have; `Terminates` for programs whose loops reserve a step in each round. *Observed* has
  what happens in the others.
* `CallsPaid` and `OneLateCall` count the commands the program calls. Handlers reached by Invoke run
  without a step and without a look at the context (`delegate` frames).

## What is proved

`EvaluatorProofs` (from `EvaluatorAssumption`: the budget is a natural number, outcomes are sets of
known outcomes; nothing is assumed of the programs but that they are nodes):

* `CallsPaidTheorem`, `OneLateCallTheorem`: for every program, every handler and every budget.
  Neither property is inductive. What is: a *pending* frame is an `invoke` frame, or the `replace`
  frame of an exec, that has been pushed and has not started its handler; its step is paid.
  `CallsInv` says that at most the top frame is pending, that `calls` plus it is at most
  `executedSteps`, and that the calls after the cancellation plus it are at most one. The lemmas
  sort the actions by what they do to that account: almost all leave it alone (`ListsPlain`,
  `CompoundsPlain`, ...); a reservation pushes a pending frame only while the context is live; a
  handler start turns it into a call.

The second part of `EvaluatorProofs` (nothing is assumed of the programs, so this holds also of trees
the parser cannot make):

* `EndingsExplainedTheorem`, `ErrTrapNotReenteredTheorem`: a path that ended early has its issue, and
  `Execute` its reason, and a failure inside an ERR trap does not start the trap again. Both need to
  know what is on the whole stack. `PathsTold` says that of every path on the stack and on its way
  to a caller (`Told`: its state and the state its failure leads to are states, with an issue if it
  ended early), of the parents' states the children merge into, of the error that travels, and that a
  frame which will give up or restore a path still has it (`Waiting`, `Awaits`). `TrapsMuted` says
  that `errTrapSuppressed` is the sum of what the frames have added; that the list of a running ERR
  trap has added one; and so that a second trap finds the sum positive. What a list adds for a
  subshell statement comes and goes while the list waits, so the invariant counts a frame's own
  share (`Own`) apart.
* Every action is a `Go`, `Call`, `Leave` or `Halt`. `GoKeeps`, `CallKeeps`, `TrapKeeps`,
  `LeaveKeeps` and `HaltKeeps` show for each of these that the invariant is kept if the frames and
  paths it is given are sound; `ListsKeep`, ..., `UnwindingKeep` show that those of the actions are,
  from lemmas about the functions of `ShellPaths` (`Keeps`: a state changes and keeps its issue).
* The frame shapes that `InputSubstitution`, `ChildStart` and `ChildCancelled` are for are told
  apart in their guards, since only a substitution can be a `$(<file)`.

`FoldsProofs` (no assumptions): the folds of the community modules are recursive functions on subsets.
That such a function exists, and which step it takes for which element, is shown without induction
over data: a set for which it fails would have a smallest subset for which it fails
(`SmallestSubset`, from the well-foundedness of strict inclusion on a finite set). `FoldStep` is a
constant operator, so that a module which folds an operator of its own gets `SetFold`, `LeftFold` and
`RightFold` as facts about it by instantiating the module: the result is the last of a chain of
values, each made of the one before. The byte counts are sums over finite sets, which are at the end:
a sum does not depend on the order in which the elements are taken. `SumRemove`, `SumAdd`, `SumOne`,
`SumPart` and the like are what the other modules cite.

`CowStateProofs` (from `CowAssumption`; any slots, values, cells, write bound, any finite set of
names):

* `SharingMarked` and `Isolation`: `Spec => []SharedMarked` and `Spec => Ideal!Spec`. The invariant
  is `CowInv`: every state points to cells, and a cell two states point to is marked in both.
  `WriteLemma` does the work: under `CowInv` a write that copies the marked parts changes what its
  own state sees, changes nothing any other state sees, and keeps the invariant. Each operation is
  then one case of `StepLemma`.
* `BytesExactTheorem`: the counts a state carries from write to write are those of a count from
  scratch. By `Isolation` what a state sees changes as in a state of its own, so it is enough to show
  for each operation that it is charged what it changes (`SetFunctionCharged`, ..., `PopCharged`,
  `ChildCharged`). The two with work to do are those of local scopes: saving a variable is charged
  only the first time in a scope (`SaveCharged`), and leaving a scope refunds the scope and charges
  for every variable put back, in any order (`PopCharged`, on `RestoreBytes`).

`AssignmentsLemmas` and `AssignmentsProofs` (from `AssignmentsAssumption`: the variables a simulation
starts with are well formed, have names of `Name` and agree with their ghost; lists consist of
assignments; sizes and bounds are natural numbers, an entry costs something; `Name`, `Lists`, `Texts`
and the bounds on statements and frames are any, also infinite sets):

* `InvTheorem`: `Spec => []IInv`. None of the four properties is inductive, since each compares the
  present with something that was seen many steps ago, by another call. `IInv` has
  * `IsHeap`, `IsJournal`, `IsStack`: the states, records and frames are well formed. Of a state this
    says that its bytes are those of its variables and that it agrees with its ghost;
  * `Owned`: whose state is whose. The paths that lists hold and the ones that are evaluated or handed
    back have no state in common, and only those that were just made have still a second state, for
    their failure. Without this nothing could be said of a list while an inner one runs;
  * `Budgets`: the paths of a list that nobody is at work on, plus what was subtracted for the one
    that is, are what its budget counts;
  * `Checkpoints`, `RecordsApart`: an inner list undoes later records than an outer one, and none of a
    state the outer one holds;
  * `Seen`: how a state is related to what was seen of it. A list has seen its states when it started
    its statement (`SinceStatement`), a call when it assigned temporarily (`StateSinceCall`). A name
    which was written no more often since, and not put back by others, has the same entry and the same
    version; in a call, the version of a name is the one its assignment gave it if and only if it was
    not written since. The same is said of what the journal holds (`RecordSinceStatement`,
    `RecordSinceCall`), so that it stays true when records are undone, and only for the calls and
    records that can still meet (`Live`, `Undoable`).
* The proofs about the operators come first. A write, an unset and the putting back of a name change
  this name alone and are charged what they change (`PutSets`, `PutVars`, ...); what
  `applyAssignments`, the restore of a call and the journal do to a state is a chain of such writes
  (`Assigning`, `Restoring`, `Undoing`, instances of `FoldsProofs`), along which relations of the
  states before and after are kept. `SumIsTotal` and the lemmas on `Total` give the bytes of paths.
* A step changes the top of the stack and the states of the paths it takes from there. `ShiftOwned`,
  `ShiftBudgets`, `ShiftJournal`, `ShiftStatement` and `ShiftCall` show once that then the frames below
  keep what `IInv` says of them (`ShiftInv`); `PutInv`, `MoveInv`, `WorkInv` and `PopInv` are its
  forms for a frame that is replaced, handed on, worked in and left; and each action is one of these
  (`PassPathInv`, ..., `EndOverBudgetInv`, put together in `NextInv`).
* `KnownIsRightTheorem`: a name that is not marked as unknown has the value and the elements of its
  ghost (`Agrees`, in `IsHeap`). `BudgetExactTheorem`: from `Budgets` and `Owned`, the count of a list
  is what its paths retain, counted anew. `TemporariesEndTheorem`: at `EndCall` the comparison of
  versions in `restoreSavedAssignments` tells exactly which names the command wrote
  (`WrittenSince`). `PrintfUndoneTheorem`: at `EndOverBudget` a name that was written by `printf -v`
  alone has its entry, its version and its bytes back (`RollbackSeen`), on the states that the
  journal recorded.

`MemoryFSProofs` (from `PathAssumption`: there are finitely many paths, closed under prefixes, and
sizes are natural numbers; and `MemoryFSAssumption`):

* `TreeShapeTheorem` and `FilesStayTheorem`: `TreeShape` is inductive together with `Memory`, that
  file systems with the same cell are marked. `MissingLemma` is the loop invariant of
  `missingDirectories`: what it has collected is closed under parents, up to a directory.
  `WriteKeeps` and `DirectoriesKeep` are about one call on one file system, `StoreLemma` about what
  the others see of it. These two do not depend on the byte counts.
* `BytesExactTheorem`: the bytes counted call by call are the size of the tree. The invariant is
  `BudgetInv`: the maps are well formed, the marks are set, each count is the size of its tree and
  within the limit. `WrittenTree` and `GrowTree` say which tree a call leaves, `WrittenSize` and
  `GrowSize` how much larger it is than the one before. The estimate that is made before anything is
  stored is where a mistake would hide: it has to count a directory that is made on the way once, and
  to take off what the file had before.
* `AnswersTheorem`: a refused call has the reason it returns, an allowed one is carried out.
  `WalkRefused` and `WalkAllowed` compare the walk over missing directories, which stops at the
  first one that does not fit, with the size of the whole result; `WriteDenied` and `WriteDone` do
  it for the checks of a write, in the order of the code.
* `ImplementsTheorem`: `Spec => Implements`, each step is a write or a fork of one tree that
  `VirtualFiles` allows, or leaves every tree alone. `Outcome` sorts the steps by what becomes of each
  file system; `TreesNext` maps them.

`CowStateProofs` and `MemoryFSProofs` take finite sets of names and paths. A behaviour that violates a safety property does so in a
finite prefix, in which only finitely many names and paths (with their prefixes) occur, so nothing
is lost by it.

`PlaygroundProofs` (from `MaxRunsAssumption`, `SourcesAssumption`: the bounds are natural numbers,
not limited):

* `RunAndFlowTheorem`: `RunAndFlowAgree` is inductive together with the shape of the messages on
  their way (a result is never null) and with the count of replaced workers. `NextWorkersTyped` is
  about the queues, `NextAgrees` about the page, one case per callback; `AdvanceKeepsOrEnds` and
  `RenderClears` say what the drawing functions may do to a run.
* `EventsAreOwnTheorem`, `FreshTheorem`, `DisplayTheorem`: what is drawn belongs to the live run and
  comes in the order its worker made it; syntax that is shown as current is that of the text in the
  editor; nothing moves on the screen while paused. A message does not say which worker posted it, so
  the invariant `DInv` has to say why a late one does no harm: ids of runs and previews are never ahead
  of the counters of the page (`NoneAhead`), so a new run meets nothing of its own; only one worker
  has ever heard of the live run, and the events drawn, queued, on their way and still to be made are one
  stream without gaps (`OwnRun`); a syntax answer with the last preview's id is of the text of that
  preview (`PreviewsOwn`), which is the text in the editor unless an edit is waiting (`Fresh`).

`CandidatesProofs` (from `CandidatesAssumption`: the node around a node is in the same file, files
are sets of nodes; any number of files, functions and commands):

* `CandidatesTheorem`: the index is exact whenever statements are evaluated. `CandidatesExact` says
  nothing between two steps of `add`, so the invariant says where what is missing waits: in the node
  `mark` has come to, in the candidates left, or in the calls of a name in `functions` (`Complete`);
  that all that is marked or waits belongs to every closed pair of sets (`Sound`); and that nothing
  waits when `add` has returned (`Resting`). `MarkInvariant` is the one with work to do: a node that
  is marked passes its debt on to the node around it.

Only model-checked:

* `Terminates`, `RunEnds`, `PreviewArrives`: liveness under fairness, which the prover cannot do.
* `ExactPaths`: `ShellSemantics`, the reference it compares with, is recursive.
* `KnownIsRight` in `expansion`, `EffectsOnce`, `NumbersExact`, `SliceInside`, `PathsAreReal`,
  `RealIsFollowed`: they are about `Expansion`, which is recursive on the syntax, or compare with
  worlds that are.
* `BracesCounted`: the fields a word makes, and their count, are recursive on the word.
* `NoCallAfterStop`, `ScopesBalanced`, `SignalsScoped`, `NilMeansExplored`: not true of every
  program, see *Differences* below.
* `FailuresNotDropped`, `OutcomesToldApart`: not true of every program either. After a handler error
  the EXIT trap of a child runs on the sibling paths as they are, whether or not their two outcomes
  have been told apart; and a left side of `&&` that is refused its step goes on unresolved. They
  hold in the runs, and would need hypotheses about the program.

## Differences between the code and what it says

Each is shown by a run that finds the property violated.

* `stray_break`: `evaluateFor` counts the loop before the expansion of its items may restart the
  statement; a later `break` outside any loop is then obeyed and the rest of the script skipped.
* `lost_failure`: in `cmd <missing >>"$(name)"` the failure state of the first redirection is in a
  plan that is given up when the second asks for its substitution (`control.go:502`); on the restart
  the file exists as an unknown one, and no path has the failure. The same happens when a later
  redirection fails for sure.

Observed while modelling, without a run of their own. The programs concerned are left out of the
runs whose properties they would break, except where the redirections say otherwise.

*Control.* The right side of `&&` and `||` does not look at the signal of its left side, so `exec a
&& a` and `exit 0 && a` go on. When the step that would tell the two outcomes of a left
side apart is refused, the unresolved status counts as 0 there, and the right side of `&&` runs on a
path that starts as completed: with `MaxExecutionSteps = 1`, `Program(<<Two("and", C("u"),
Fun(C("a")))>>)` (`u && fn() { a; }`) violates `NilMeansExplored`, since `Execute` returns nil
although the limit was reached and the failure of `u` was never followed. The property holds in
`limits`, whose right sides are calls. The paths that are pending in the stack of a statement when another
one returns CommandStop are still worked off, with calls of handlers, although `src/README.md:383`
promises that all of them terminate. EXIT traps of completed
sibling paths run handlers after a handler error. A loop of function declarations (`while fn() { a;
}; do fn() { a; }; done`) reserves no step and is not ended by the limit. A condition that exits
(`while exit 1`, `if exit 1`) has its status overwritten; `! exit 1` inverts the status of the exit;
`! true` and a failing `a && b` at list level trigger errexit and the ERR trap, unlike Bash; an
EXIT trap set before `exec` runs after the replaced command; pipeline sides keep the EXIT trap of
their parent.

*Assignments.* After `x=1 env x=2 cmd` or `x=1 env -i cmd`, `x` stays 1: putting back the
environment of `env` counts as a write, so the restore of `x=1` is skipped (`call_function.go:53`);
`popLocalScope` renews versions in the same way. The journal of `printf -v` undoes what it recorded
on the state that was written (`control.go:301-317`); copies that were forked from it later in the
statement keep the write. When `printf -v` is refused by the memory limit it
becomes exit status 1 (`printf.go:92-94`). `((x++))` drops the export attribute of `x`.

*Expansion.* Placeholders are handed over as known values in `cmd "${y:=$u}" "$y"`, `cmd $((n=u))
$n`, `${!x}` with `x` unknown, `[[ $u && -n ${x:=1} ]]`, `(( $(echo u) ))` with `u` unknown, `y=$((u
&& n++))` and `((u++))`, where effects are checked after they happened (`arithmetic.go:781-789`);
`src/README.md:238` promises otherwise. `[[ $((n++)) == $(cmd) ]]` and case patterns with such a
word increment `n` twice when the substitution restarts them (`branch.go:98`, `278-310`).
`BASH_REMATCH` is written again on a restart. Which alternatives of a word are needed is decided
before its earlier parts assign anything (`maskInactiveParameterWords`), and `$((...))` is evaluated
before a `${x:=...}` to its left. An invalid regular expression gives unknown rather than a failure
when the left side is unknown. References to array elements are resolved once, and are stale in
`x='a[i]'; ((x, i++, x))`.

*Redirections.* When steps are lacking for failure states, the paths that had completed get the
refused ones' status too. After `cd x <f` the failure state keeps the redirected input, since only
the directory is put back; likewise the flags of stdout and stderr. In `{ ... writes f ... ; } >f`
the output of the body replaces what it wrote itself. The truncation in `{ cat >f; } <f` is not seen
through the open input. A group with `2>&1` delivers all of stdout before stderr. Two redirections to
one file are described above.

Three more are in the programs of `redirections`, whose properties except just these:

* The message about a file that cannot be opened is always printed on the stderr from before the
  statement (`control.go:507-511`). In `cmd 2>g <missing` a shell writes it to `g`, in `cmd 2>&1
  <missing` to stdout, and in `cmd 2>&- <missing` nowhere.
* The path on which a file that may be missing is missing has no message (`control.go:564-568`); a
  shell prints one there too.
* An append to a file in a directory that may be missing, and `<>` on one, start from known empty
  contents (`redirection.go:267-293`); if the directory is there, the file may have contents.

*Tracing.* Alternatives that are cloned without `assignSuccessorPaths` share a path id.

*Playground.* `renderFailure` empties the AST view and schedules no preview, and `runSimulation` has
withdrawn the one that was due, so after a run with a handler that does not compile, or with a field
out of range, the AST is not shown until the text is edited. An error event of a worker makes the
playground unavailable, since `failWorker` does not replace it.

## Not modelled, and why

* Of expansion: splitting by IFS, tilde, globs, `${a[@]}` and `${!a[@]}` as lists, associative
  arrays, process substitution, array elements read inside `$(( ))`, `$(( ))` within `$(( ))`, and a
  `let` of a word that is itself expanded. Each is a transformation of texts, or repeats a case that
  is there with another container.
* Of tests and case: file tests, patterns beyond `*`, several case items with fall-through.
* Of redirections: `$(<file)` that cannot be read, unsupported descriptors, coprocesses. A command
  that prints to both descriptors prints stdout first: a handler returns two texts and no order.
* Of the memory budget: bytes of nested shells and of captured streams, estimates for globs and
  here-documents.
* Most builtins, and `printf` and `read` apart from what they assign, are computations on texts,
  with no state between two steps.
* Tracing and the command registry have state worth checking and are planned.
* The parser is an external library; the command line tool and the playground server only read and
  print. The playground's graphs and layout (`model.js`) are computations on a trace.

## Plan

Done: `ShellPaths`, `Evaluator`, `ShellSemantics`, `ShellStates`, `CowState`, `VirtualFiles`,
`MemoryFS`, `WebWorkers`, `Playground`, `Variables`, `Assignments`, `Numbers`, `Braces`,
`Expansion`, `Substitutions`, `Descriptors`, `Redirections`, `Candidates`, their runs, and the
proofs above.

Next, in this order:

1. Proofs: `FailuresNotDropped` and `OutcomesToldApart` under the hypotheses about programs that they
   need, on the invariant of `EvaluatorProofs`.
2. `case`, `select`, C-style `for` and tests as frames of `Evaluator`.
3. `Registry`: the snapshot a Builder hands to a Simulator; `Trace`: started and finished events,
   path ids.
4. Process substitutions, composed with `Evaluator`; the retained bytes of nested shells.

