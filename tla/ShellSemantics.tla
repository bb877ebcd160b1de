---------------------------- MODULE ShellSemantics ----------------------------
(***************************************************************************)
(* What the evaluator promises: the shell programs it covers run to the    *)
(* set of all their concrete executions.  A command of unknown outcome     *)
(* succeeds in one execution and fails in another, at once, wherever it    *)
(* stands.  Nothing here knows about paths, frames, budgets or unresolved  *)
(* statuses: the definitions say what each construct of the language does  *)
(* to a shell, by recursion on the syntax.  Children (background commands  *)
(* and pipeline sides included) run to their end before their parent goes  *)
(* on, the order the simulator documents.                                  *)
(***************************************************************************)
EXTENDS ShellPaths

CONSTANT Outcomes   \* what a command may do; {} if nothing is known of it

(***************************************************************************)
(* A shell: the writes it has done, its status, the control transfer under *)
(* way, and what the set, shopt, trap builtins and function definitions    *)
(* have changed.  sub is the status of the last command substitution.      *)
(***************************************************************************)
Shell0 ==
  [ log |-> <<>>, exit |-> "zero", sub |-> "zero", sig |-> "none", levels |-> 0,
    loops |-> 0, scopes |-> 0, opts |-> {}, err |-> <<>>, bye |-> <<>>,
    funs |-> [f \in Function |-> <<>>] ]

\* A context: quiet in a tested command, muted inside an ERR trap.
Plain    == [quiet |-> FALSE, muted |-> FALSE]
Quiet(x) == [x EXCEPT !.quiet = TRUE]
Muted(x) == [x EXCEPT !.muted = TRUE]

Zero(s)    == [s EXCEPT !.exit = "zero"]
Nonzero(s) == [s EXCEPT !.exit = "nonzero"]
Does(s, w) == [s EXCEPT !.log = Append(@, w)]
Going(s)   == s.sig = "none"

\* The child of a shell: no EXIT trap of its parent's, and an ERR trap only
\* under set -E; a substitution also drops errexit unless it is inherited.
ChildOf(s) ==
  [s EXCEPT !.bye = <<>>, !.err = IF "errtrace" \in s.opts THEN @ ELSE <<>>]
SubstOf(s) ==
  [ChildOf(s) EXCEPT
     !.opts = IF "inherit" \in s.opts THEN @ ELSE @ \ {"errexit"}]

\* What a loop passes on of a break or continue that leaves it.
LeaveLoop(s) ==
  IF s.sig \notin {"break", "continue"} THEN s
  ELSE IF s.levels > 1 THEN [s EXCEPT !.levels = @ - 1]
       ELSE [s EXCEPT !.sig = "none", !.levels = 0]
EndsLoop(s) == ~Going(s) /\ ~(s.sig = "continue" /\ s.levels <= 1)

External(c, s) ==
  IF Outcomes[c] = {} THEN {Zero(s), Nonzero(s)}
  ELSE UNION {CASE o = "fail"    -> {Nonzero(Does(s, c))}
                [] o = "unknown" -> {Zero(Does(s, c)), Nonzero(Does(s, c))}
                [] OTHER         -> {Zero(Does(s, c))} : o \in Outcomes[c]}

Transfer(n, s) ==
  CASE n.name \in {"break", "continue"} ->
         IF s.loops = 0 \/ n.num = 0 THEN Nonzero(s)
         ELSE [Zero(s) EXCEPT !.sig = n.name,
                              !.levels = IF n.num < s.loops THEN n.num ELSE s.loops]
    [] n.name = "return" /\ s.scopes = 0 -> Nonzero(s)
    [] OTHER -> [s EXCEPT !.sig = n.name,
                          !.exit = CASE n.num = 0     -> "zero"
                                     [] n.num = Unset -> s.exit
                                     [] OTHER         -> "nonzero"]

Option(n) == CASE n.name = "set -e"          -> "errexit"
               [] n.name = "set -E"          -> "errtrace"
               [] n.name = "set -o pipefail" -> "pipefail"
               [] OTHER                      -> "inherit"

RECURSIVE Runs(_, _, _), ListRuns(_, _, _), SubRuns(_, _, _), ChildRuns(_, _, _),
          WhileRuns(_, _, _, _), ForRuns(_, _, _, _)

\* A failing command of a list runs the ERR trap, then ends the shell
\* under set -e.  A subshell has run its own trap.
Judged(n, t, x) ==
  IF x.quiet \/ ~Going(t) \/ t.exit = "zero" THEN {t}
  ELSE {IF Going(r) THEN [Nonzero(r) EXCEPT
                            !.sig = IF "errexit" \in r.opts THEN "exit" ELSE @]
                    ELSE r :
        r \in IF t.err = <<>> \/ x.muted \/ IsSubshell(n) THEN {t}
              ELSE ListRuns(t.err, t, Muted(x))}

ListRuns(list, s, x) ==
  IF list = <<>> \/ ~Going(s) THEN {s}
  ELSE UNION {ListRuns(Tail(list), t, x) :
              t \in UNION {Judged(list[1], r, x) : r \in Runs(list[1], s, x)}}

\* A child shell runs its list and then its EXIT trap.
ChildRuns(list, s, x) ==
  UNION {IF t.bye = <<>> THEN {t}
         ELSE {IF Going(r) THEN [r EXCEPT !.exit = t.exit] ELSE r :
               r \in ListRuns(t.bye, [t EXCEPT !.bye = <<>>, !.sig = "none"], x)} :
         t \in ListRuns(list, s, x)}

\* The command substitutions of a command, from left to right.
SubRuns(subs, s, x) ==
  IF subs = <<>> THEN {s}
  ELSE UNION {SubRuns(Tail(subs), t, x) :
              t \in IF subs[1].kind = "input"
                    THEN { [Does(s, "input") EXCEPT !.sub = "zero"],
                           [s EXCEPT !.sub = "nonzero"] }
                    ELSE {[s EXCEPT !.log = c.log, !.sub = c.exit] :
                          c \in ChildRuns(subs[1].body, SubstOf(s), x)}}

WhileRuns(n, s, last, x) ==
  UNION {IF ~Going(t) THEN {LeaveLoop(t)}
         ELSE IF (t.exit = "zero") # (n.kind = "while") THEN {[t EXCEPT !.exit = last]}
         ELSE UNION {IF EndsLoop(b) THEN {LeaveLoop(b)}
                     ELSE WhileRuns(n, LeaveLoop(b), b.exit, x) :
                     b \in ListRuns(n.body, t, x)} :
         t \in ListRuns(n.cond, s, Quiet(x))}

ForRuns(n, k, s, x) ==
  IF k = 0 THEN {s}
  ELSE UNION {IF EndsLoop(b) THEN {LeaveLoop(b)} ELSE ForRuns(n, k - 1, LeaveLoop(b), x) :
              b \in ListRuns(n.body, s, x)}

InLoop(S) == {[t EXCEPT !.loops = @ - 1] : t \in S}

\* A function call or a sourced file: a return ends it.
Scoped(S) ==
  {[t EXCEPT !.scopes = @ - 1, !.sig = IF @ = "return" THEN "none" ELSE @] : t \in S}
InScope(s) == [s EXCEPT !.scopes = @ + 1]

\* A function runs without the ERR trap of its caller, except under set -E.
FunctionRuns(body, s, x) ==
  IF "errtrace" \in s.opts THEN Scoped(Runs(body, InScope(s), x))
  ELSE {[t EXCEPT !.err = s.err] :
        t \in Scoped(Runs(body, [InScope(s) EXCEPT !.err = <<>>], x))}

CommandRuns(n, s, x) ==
  CASE n.name \in Function /\ s.funs[n.name] # <<>> ->
         FunctionRuns(s.funs[n.name][1], s, x)
    [] n.name \in Controls  -> {Transfer(n, s)}
    [] n.name = "eval"      -> ListRuns(n.body, s, x)
    [] n.name = "source"    -> Scoped(ListRuns(n.body, InScope(s), x))
    [] n.name = "shell"     -> {[s EXCEPT !.log = c.log, !.exit = c.exit] :
                                c \in ChildRuns(n.body, [Shell0 EXCEPT !.log = s.log], x)}
    [] n.name = "exec"      -> {[t EXCEPT !.sig = "exit"] : t \in
                                {t \in External(n.cmd, s) :
                                   Outcomes[n.cmd] # {} \/ t.exit = "zero"}} \cup
                               (IF Outcomes[n.cmd] = {} THEN {Nonzero(s)} ELSE {})
    [] n.name = "cd"        -> {Zero(Does(s, "cd")), Nonzero(s)}
    [] n.name = "trap ERR"  -> {[Zero(s) EXCEPT !.err = n.body]}
    [] n.name = "trap EXIT" -> {[Zero(s) EXCEPT !.bye = n.body]}
    [] n.name \in Builtins  -> {[Zero(s) EXCEPT !.opts = @ \cup {Option(n)}]}
    [] OTHER                -> External(n.name, s)

Runs(n, s, x) ==
  CASE n.kind = "call" -> UNION {CommandRuns(n, t, x) : t \in SubRuns(n.args, s, x)}
    [] n.kind = "assign" ->
         {[t EXCEPT !.exit = IF n.args = <<>> THEN "zero" ELSE t.sub] :
          t \in SubRuns(n.args, s, x)}
    [] n.kind = "fdef"  -> {[Zero(s) EXCEPT !.funs[n.name] = n.body]}
    [] n.kind = "block" -> ListRuns(n.body, s, x)
    [] n.kind \in {"and", "or"} ->
         UNION {IF Going(t) /\ (t.exit = "zero") = (n.kind = "and")
                THEN Runs(n.body[1], t, x) ELSE {t} :
                t \in Runs(n.cond[1], s, Quiet(x))}
    [] n.kind = "not" ->
         {IF ~Going(t) THEN t
          ELSE IF t.exit = "zero" THEN Nonzero(t) ELSE Zero(t) :
          t \in Runs(n.body[1], s, Quiet(x))}
    [] n.kind = "if" ->
         IF n.cond = <<>> THEN ListRuns(n.body, s, x)
         ELSE UNION {IF ~Going(t) THEN {t}
                     ELSE IF t.exit = "zero" THEN ListRuns(n.body, t, x)
                     ELSE IF n.els = <<>> THEN {Zero(t)} ELSE Runs(n.els[1], t, x) :
                     t \in ListRuns(n.cond, s, Quiet(x))}
    [] n.kind \in {"while", "until"} ->
         InLoop(WhileRuns(n, [s EXCEPT !.loops = @ + 1], "zero", x))
    [] n.kind = "for" ->
         UNION {InLoop(ForRuns(n, n.num, [Zero(t) EXCEPT !.loops = @ + 1], x)) :
                t \in SubRuns(n.args, s, x)}
    [] n.kind = "subshell" ->
         {[s EXCEPT !.log = c.log, !.exit = c.exit] :
          c \in ChildRuns(n.body, ChildOf(s), x)}
    [] n.kind = "background" ->
         {Zero([s EXCEPT !.log = c.log]) :
          c \in UNION {ChildRuns(<<>>, t, x) :
                       t \in Runs(n.body[1], [s EXCEPT !.bye = <<>>], x)}}
    [] n.kind = "pipe" ->
         UNION {{[s EXCEPT !.log = r.log,
                           !.exit = IF "pipefail" \in s.opts /\ r.exit = "zero"
                                    THEN t.exit ELSE r.exit] :
                 r \in Runs(n.body[1], [s EXCEPT !.log = t.log], Quiet(x))} :
                t \in Runs(n.cond[1], s, Quiet(x))}

\* The writes and the status of every execution of a program.
Executions(program) ==
  {<<s.log, s.exit>> : s \in ChildRuns(program.body, Shell0, Plain)}
===============================================================================
