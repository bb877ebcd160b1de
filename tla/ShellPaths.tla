------------------------------ MODULE ShellPaths ------------------------------
(***************************************************************************)
(* The execution paths of one simulation: the shell State a path carries,  *)
(* the pathResult that pairs a state with its status, and the operations   *)
(* on them that do not evaluate anything (internal/runtime: state.go, the  *)
(* helpers of control.go, loop.go, termination.go, subprocess.go and       *)
(* language_control.go).                                                   *)
(*                                                                         *)
(* States are values here.  State.clone shares maps between a state and    *)
(* its copy; that the sharing is never visible is what CowState.tla is     *)
(* about.  Variables, streams and the working directory are data that the  *)
(* control flow modelled here does not read, and are left out.             *)
(***************************************************************************)
EXTENDS Integers, Sequences

CONSTANTS
  Node,      \* the syntax nodes (statements and command substitutions)
  Command,   \* the names of registered and unregistered external commands
  Function,  \* the names of shell functions
  NoState    \* the nil *State

(***************************************************************************)
(* A syntax node.  cond, body and els are its statement lists, args the    *)
(* command substitutions of its words, num its numeric argument: the loop  *)
(* count of break and continue (1 by default), the item count of a for     *)
(* loop, the status of exit and return (Unset when it has none).           *)
(***************************************************************************)
Kinds ==
  { "call", "assign", "fdef", "block", "and", "or", "not", "if", "while",
    "until", "for", "subshell", "background", "pipe", "subst", "input",
    "unsupported" }

Controls == {"break", "continue", "return", "exit"}
Builtins ==
  { "eval", "source", "shell", "exec", "cd", "set -e", "set -E",
    "set -o pipefail", "shopt inherit_errexit", "trap ERR", "trap EXIT" }
Unset == 2

NodeFields ==
  [ kind : Kinds,
    name : Command \cup Function \cup Controls \cup Builtins,
    cmd  : Command,
    num  : Nat,
    args : Seq(Node),
    cond : Seq(Node),
    body : Seq(Node),
    els  : Seq(Node) ]

\* A statement whose command is a subshell, negated or not.
IsSubshell(n) ==
  \/ n.kind = "subshell"
  \/ n.kind \in {"not", "background"} /\ n.body[1].kind = "subshell"

ASSUME NodeAssumption == Node \subseteq NodeFields

(***************************************************************************)
(* Exit statuses are abstracted to zero, nonzero and the unresolved status *)
(* of a command nothing is known about.                                    *)
(***************************************************************************)
Exit     == {"zero", "nonzero", "unknown"}
Signals  == {"none", "break", "continue", "return", "exit"}
Statuses == {"completed", "terminated", "incomplete", "unresolved"}
Issues   == {"none", "budget", "cancelled", "handler", "unresolved"}

\* One frame of command substitution results: the substitutions already
\* evaluated for the statement and the status of the last of them.
SubstitutionFrame == [seen : SUBSET Node, last : Exit \cup {"absent"}]

(***************************************************************************)
(* The state of a path.  fs stands for the virtual file system: the        *)
(* sequence of commands that wrote to it.  An absent trap or function is   *)
(* the empty list.                                                         *)
(***************************************************************************)
StateWith(Failure) ==
  [ fs                : Seq(Command \cup {"cd", "input"}),
    exit              : Exit,
    exitFailure       : Failure,
    signal            : Signals,
    signalDepth       : Int,
    loopDepth         : Int,
    loopExits         : Seq(Exit),
    funcDepth         : Int,
    sourceDepth       : Int,
    errexit           : BOOLEAN,
    inheritErrexit    : BOOLEAN,
    errTrace          : BOOLEAN,
    pipefail          : BOOLEAN,
    errTrap           : Seq(Node),
    exitTrap          : Seq(Node),
    exitTrapInherited : BOOLEAN,
    functions         : [Function -> Seq(Node)],
    frames            : Seq(SubstitutionFrame),
    issue             : Issues ]

Snapshot == StateWith({NoState})
State    == StateWith(Snapshot \cup {NoState})
Path     == [status : Statuses, state : State]

NewState ==
  [ fs |-> <<>>, exit |-> "zero", exitFailure |-> NoState,
    signal |-> "none", signalDepth |-> 0,
    loopDepth |-> 0, loopExits |-> <<>>, funcDepth |-> 0, sourceDepth |-> 0,
    errexit |-> FALSE, inheritErrexit |-> FALSE, errTrace |-> FALSE,
    pipefail |-> FALSE, errTrap |-> <<>>, exitTrap |-> <<>>,
    exitTrapInherited |-> FALSE, functions |-> [f \in Function |-> <<>>],
    frames |-> <<>>, issue |-> "none" ]

Completed(s) == [status |-> "completed", state |-> s]
IsActive(p)  == p.status = "completed" /\ p.state.signal = "none"

-------------------------------------------------------------------------------
(* Exit statuses and issues. *)

SetExit(s, e) == [s EXCEPT !.exit = e, !.exitFailure = NoState]

\* snapshotForUnknownFailure: the state to go on from if the command fails.
SnapshotForUnknownFailure(s) == [s EXCEPT !.exitFailure = NoState]

SetUnknownExitWithFailure(s, failure) ==
  [s EXCEPT !.exit = "unknown", !.exitFailure = failure]

\* Only the first issue of a path is kept.
SetIssue(s, i) == IF s.issue = "none" THEN [s EXCEPT !.issue = i] ELSE s
MergeIssue(parent, child) ==
  IF child.issue = "none" THEN parent ELSE [parent EXCEPT !.issue = child.issue]

GiveUp(p, i) ==
  [status |-> "incomplete", state |-> SetIssue(p.state, i)]
Unresolved(p) ==
  [status |-> "unresolved", state |-> SetIssue(p.state, "unresolved")]
Terminated(p) == [p EXCEPT !.status = "terminated"]

\* The two successors of a path whose unresolved status is observed: a
\* failure goes on from the snapshot the command left, if it left one.
\* Mutant: the failure keeps the effects of the success.
FailureState_Same(s) == s
FailureState(s) == IF s.exitFailure = NoState THEN s ELSE s.exitFailure
Fork(p) ==
  << [p EXCEPT !.state = SetExit(@, "zero")],
     [p EXCEPT !.state = SetExit(FailureState(@), "nonzero")] >>

\* The representative value of an unresolved status is 0.
Succeeded(s) == s.exit # "nonzero"

Invert(p) ==
  IF p.status # "completed" \/ p.state.exit = "unknown" THEN p
  ELSE [p EXCEPT !.state.exit = IF @ = "zero" THEN "nonzero" ELSE "zero",
                 !.state.exitFailure = NoState]

-------------------------------------------------------------------------------
(* Substitution frames. *)

Front1(q) == SubSeq(q, 1, Len(q) - 1)

PushFrame(s) ==
  [s EXCEPT !.frames = Append(@, [seen |-> {}, last |-> "absent"])]
PopOwnFrame(s) == [s EXCEPT !.frames = IF @ = <<>> THEN @ ELSE Front1(@)]

\* popSubstitutionFrameTree: the pending failure snapshot loses the frame too.
PopFrame(s) ==
  LET t == PopOwnFrame(s)
  IN  IF s.exitFailure = NoState THEN t
      ELSE [t EXCEPT !.exitFailure = PopOwnFrame(@)]

SetSubstitution(s, site, e) ==
  IF s.frames = <<>> THEN s
  ELSE [s EXCEPT !.frames[Len(s.frames)] =
                    [seen |-> @.seen \cup {site}, last |-> e]]

SeenSites(s) ==
  IF s.frames = <<>> THEN {} ELSE s.frames[Len(s.frames)].seen
LastSubstitutionExit(s) ==
  IF s.frames = <<>> THEN "absent" ELSE s.frames[Len(s.frames)].last

\* The command substitutions of node n that are still to be evaluated; the
\* expansion asks for the first of them.
Unexpanded(s, n) == {k \in 1..Len(n.args) : n.args[k] \notin SeenSites(s)}
FirstUnexpanded(s, n) ==
  n.args[CHOOSE k \in Unexpanded(s, n) :
           \A j \in Unexpanded(s, n) : k <= j]

-------------------------------------------------------------------------------
(* Loops, functions and the control builtins. *)

PushLoop(s) ==
  [s EXCEPT !.loopDepth = @ + 1, !.loopExits = Append(@, "zero")]
PopLoop(s) ==
  [s EXCEPT !.loopDepth = @ - 1, !.loopExits = Front1(@)]
SetLoopExit(s) ==
  [s EXCEPT !.loopExits[Len(s.loopExits)] = s.exit]
CurrentLoopExit(s) ==
  IF s.loopExits = <<>> THEN "unknown" ELSE s.loopExits[Len(s.loopExits)]

\* collectLoopContinuation: whether the loop runs its path again, and the
\* path as the loop leaves it.
OwnSignal(s)     == s.signal \in {"break", "continue"} /\ s.signalDepth <= 1
LoopGoesOn(p)    ==
  /\ p.status = "completed"
  /\ \/ p.state.signal = "none"
     \/ p.state.signal = "continue" /\ OwnSignal(p.state)
\* Mutant: break 2 stays break 2 in the enclosing loop.
AfterIteration_Whole(p) ==
  IF p.status = "completed" /\ p.state.signal \in {"break", "continue"} /\ OwnSignal(p.state)
  THEN [p EXCEPT !.state.signal = "none", !.state.signalDepth = 0] ELSE p
AfterIteration(p) ==
  IF p.status # "completed" \/ p.state.signal \notin {"break", "continue"} THEN p
  ELSE IF OwnSignal(p.state)
       THEN [p EXCEPT !.state.signal = "none", !.state.signalDepth = 0]
       ELSE [p EXCEPT !.state.signalDepth = @ - 1]

NumericStatus(s, num) ==
  CASE num = 0     -> "zero"
    [] num = Unset -> s.exit
    [] OTHER       -> "nonzero"

\* executeLanguageControl, for arguments that are well formed.
LanguageControl(s, n) ==
  CASE n.name \in {"break", "continue"} ->
         IF s.loopDepth = 0 \/ n.num = 0 THEN SetExit(s, "nonzero")
         ELSE [SetExit(s, "zero") EXCEPT
                 !.signal = n.name,
                 !.signalDepth = IF n.num < s.loopDepth THEN n.num
                                                        ELSE s.loopDepth]
    [] n.name = "return" ->
         IF s.funcDepth = 0 /\ s.sourceDepth = 0 THEN SetExit(s, "nonzero")
         ELSE [SetExit(s, NumericStatus(s, n.num)) EXCEPT !.signal = "return"]
    [] OTHER ->
         [SetExit(s, NumericStatus(s, n.num)) EXCEPT !.signal = "exit"]

\* The set, shopt and trap builtins, and cd to a directory that may be
\* missing: it makes the directory and keeps the state without it.
ApplyBuiltin(s, n) ==
  CASE n.name = "set -e"                -> [SetExit(s, "zero") EXCEPT !.errexit = TRUE]
    [] n.name = "set -E"                -> [SetExit(s, "zero") EXCEPT !.errTrace = TRUE]
    [] n.name = "set -o pipefail"       -> [SetExit(s, "zero") EXCEPT !.pipefail = TRUE]
    [] n.name = "shopt inherit_errexit" -> [SetExit(s, "zero") EXCEPT !.inheritErrexit = TRUE]
    [] n.name = "trap ERR"              -> [SetExit(s, "zero") EXCEPT !.errTrap = n.body]
    [] n.name = "trap EXIT"             -> [SetExit(s, "zero") EXCEPT
                                              !.exitTrap = n.body,
                                              !.exitTrapInherited = FALSE]
    [] OTHER ->
         SetUnknownExitWithFailure([s EXCEPT !.fs = Append(@, "cd")],
                                   SnapshotForUnknownFailure(s))

EnterFunction(s) ==
  [s EXCEPT !.funcDepth = @ + 1,
            !.errTrap   = IF s.errTrace THEN @ ELSE <<>>]
ClearReturn(s) == [s EXCEPT !.signal = IF @ = "return" THEN "none" ELSE @]

\* The state s in which a function called in state caller ended.
LeaveFunction(s, caller) ==
  [ClearReturn(s) EXCEPT
     !.funcDepth = @ - 1,
     !.errTrap   = IF caller.errTrace THEN @ ELSE caller.errTrap]
LeaveSource(s) == [ClearReturn(s) EXCEPT !.sourceDepth = @ - 1]

-------------------------------------------------------------------------------
(* Child processes. *)

\* clearInheritedExitTrap and the option and trap resets of each child.
BackgroundChild(s) ==
  [s EXCEPT !.exitTrapInherited = @ \/ s.exitTrap # <<>>]
SubshellChild(s) ==
  [BackgroundChild(s) EXCEPT !.errTrap = IF s.errTrace THEN @ ELSE <<>>]
SubstitutionChild(s) ==
  [SubshellChild(s) EXCEPT !.errexit = @ /\ s.inheritErrexit]

\* newShellChild: a fresh shell that inherits the file system.
FreshShell(s) == [NewState EXCEPT !.fs = s.fs]

\* What a parent takes over from a child: the issue and the file system.
\* Mutant: the issue of the child is lost.
MergeChild_Quiet(parent, child) == [parent EXCEPT !.fs = child.fs]
MergeChild(parent, child) ==
  [MergeIssue(parent, child) EXCEPT !.fs = child.fs]
===============================================================================
