---------------------------- MODULE Substitutions ----------------------------
(***************************************************************************)
(* A command that stops at each command substitution it meets              *)
(* (internal/runtime: control.go, expand.go, state.go).                    *)
(*                                                                         *)
(* evaluateStatementInFrameFully evaluates the command; when it asks for a *)
(* substitution, that is evaluated, its result is kept in the frame of the *)
(* statement, and the command is evaluated again from the beginning with   *)
(* the variables it left.  A result may be unknown: then the text is a     *)
(* placeholder, and what a real shell would have put there is beside it.   *)
(***************************************************************************)
EXTENDS Expansion, Braces

CONSTANTS
  Commands,  \* the commands, each with the variables it starts from and what
             \* those variables would be in a shell that knows them
  Outputs    \* what a substitution may give: [text, unknown, truth]

ASSUME SubstitutionsAssumption ==
  \A o \in Outputs : ~o.unknown => o.text = o.truth

VARIABLES
  command,  \* what is evaluated when the statement is tried again
  vars,     \* s.vars
  outputs,  \* the substitutions of the frame that have been evaluated
  wanted,   \* the substitution that was asked for
  outcome,  \* what the last attempt came to
  start     \* what it started from, to compare with

stateVars == <<command, vars, outputs, wanted, outcome, start>>

Ready == "ready"

Init ==
  /\ start \in Commands
  /\ command = start.command
  /\ vars = start.vars
  /\ outputs = <<>>
  /\ wanted = {}
  /\ outcome = Outcome(Ready, "none", start.vars)

\* Once the subject of a case is known, only the patterns are tried again.
Again(out, vs, c) ==
  IF c.kind # "case" THEN c
  ELSE LET r == SubjectOf(out, vs, c) IN
       IF r.err # Ok THEN c ELSE [kind |-> "item", subject |-> r.v, patterns |-> c.patterns]

\* One evaluation of the command; what it assigned stays in the state.
Attempt ==
  /\ command.kind \notin {"operator", "text", "slice", "brace"}
  /\ outcome.status \in {Ready, "request"} /\ wanted = {}
  /\ \E r \in {Run(outputs, vars, command)} :
     /\ outcome' = r
     /\ vars'    = r.vars
     /\ wanted'  = r.wanted
     /\ command' = Again(outputs, vars, command)
  /\ UNCHANGED <<outputs, start>>

\* evaluateSubstitutionPaths: the child shell leaves the variables alone.
Substitute ==
  /\ \E id \in wanted, o \in Outputs : outputs' = With(outputs, id, o)
  /\ wanted' = {}
  /\ UNCHANGED <<command, vars, outcome, start>>

Next == Attempt \/ Substitute
Spec == Init /\ [][Next]_stateVars
-------------------------------------------------------------------------------
Finished == outcome.status \notin {Ready, "request"}

(***************************************************************************)
(* Each substitution is evaluated at most once and a command that had to   *)
(* wait for any number of them comes to what one evaluation with all of    *)
(* them at hand comes to: its assignments happened once (expand.go:127-135 *)
(* takes back what a word assigned, arithmetic.go:20-57 an expression).    *)
(***************************************************************************)
Shown(o) == <<o.status, o.exit, o.fields, o.vars.data, o.vars.unknown, o.vars.indexed>>
EffectsOnce ==
  Finished => Shown(outcome) = Shown(Run(outputs, start.vars, start.command))

\* The same command in a shell that knows what the placeholders stand for.
Knowing == [id \in DOMAIN outputs |->
              [text |-> outputs[id].truth, unknown |-> FALSE, truth |-> outputs[id].truth]]
Truly   == Run(Knowing, start.truth, start.command)

(***************************************************************************)
(* What is not marked as unknown is what a shell that knows every output   *)
(* would have: every argument, the exit status, every variable             *)
(* (README.md:238, certainty.go).  A let that depends on an unknown output *)
(* is made to fail, and says nothing (let.go:47-50).                       *)
(***************************************************************************)
Agrees(truly) ==
  truly.status = "completed" =>
    /\ \A i \in DOMAIN outcome.fields :
         outcome.fields[i].known => outcome.fields[i] = truly.fields[i]
    /\ outcome.exit \in {"unknown", truly.exit}
    /\ \A n \in DOMAIN vars.data \ vars.unknown : vars.data[n] = Lookup(truly.vars, n)
KnownIsRight ==
  Finished /\ outcome.status = "completed" /\ outcome.exit # "refused" => Agrees(Truly)

(***************************************************************************)
(* The arithmetic of numbers of Width bits: an operator gives the residue  *)
(* of the mathematical one or the two operators bound each other, a number *)
(* that is written is read again as itself, and no name is a number.       *)
(***************************************************************************)
NumbersExact ==
  /\ command.kind = "operator" => OperatorExact(command.sign, command.a, command.b)
  /\ command.kind = "operator" => RoundTrip(command.a)
  /\ command.kind = "text" => NamesAreNotNumbers(command.text)

(***************************************************************************)
(* The two ends of a slice that is not refused lie within the text and in  *)
(* this order: text[start:end] would panic otherwise (expand.go:819).      *)
(***************************************************************************)
SliceInside ==
  command.kind = "slice" =>
    LET r == Slice(command.count, command.offset, command.length) IN
    r.ok => 0 <= r.start /\ r.start <= r.end /\ r.end <= command.count

(***************************************************************************)
(* The fields of a brace expansion are counted without making them: what   *)
(* is accepted is what the library makes, in number and in bytes, and its  *)
(* counting loop ends; what is refused is too large (materialization.go:   *)
(* 728-944).                                                               *)
(***************************************************************************)
BracesCounted ==
  command.kind = "brace" => BraceExact(command.word, command.maximum, command.entry)
===============================================================================
