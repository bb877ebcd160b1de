----------------------------- MODULE ShellStates -----------------------------
(***************************************************************************)
(* What the copies of a shell State promise (internal/runtime: state.go,   *)
(* variables.go): every path has functions, traps, variables and saved     *)
(* local variables of its own, and an operation on one path changes        *)
(* nothing of any other.  CowState.tla is the implementation, in which the *)
(* paths share their maps until one of them writes.                        *)
(***************************************************************************)
EXTENDS Integers, Sequences

CONSTANTS
  Slot,      \* the places a path's state is kept in
  Name,      \* names of variables, functions and traps
  Value,     \* values, function bodies and trap commands
  Exported,  \* the names of exported variables
  Absent,    \* what a map has for a name without an entry
  Unsaved    \* what a local scope has for a name it did not save

VARIABLE values  \* the state of each path

Map   == [Name -> Value \cup {Absent}]
Scope == [Name -> Value \cup {Absent, Unsaved}]
Empty == [n \in Name |-> Absent]

\* written: the names that were ever assigned or unset (variables.versions).
Part == {"functions", "traps", "variables", "scopes"}
StateValue ==
  [ functions : Map, traps : Map,
    variables : [data : Map, written : SUBSET Name],
    scopes    : Seq(Scope) ]

New == [ functions |-> Empty, traps |-> Empty,
         variables |-> [data |-> Empty, written |-> {}], scopes |-> <<>> ]

-------------------------------------------------------------------------------
(* The operations, as functions of the state they are applied to. *)

SetFunction(v, n, x) == [v EXCEPT !.functions[n] = x]
DeleteFunction(v, n) == [v EXCEPT !.functions[n] = Absent]
SetTrap(v, n, x)     == [v EXCEPT !.traps[n] = x]
DeleteTrap(v, n)     == [v EXCEPT !.traps[n] = Absent]

\* variables.put, and variables.delete when x is Absent.
Assign(v, n, x) ==
  [v EXCEPT !.variables = [data    |-> [@.data EXCEPT ![n] = x],
                           written |-> @.written \cup {n}]]

PushScope(v) == [v EXCEPT !.scopes = Append(@, [n \in Name |-> Unsaved])]

Innermost(v) == v.scopes[Len(v.scopes)]
Saved(v)     == {n \in Name : Innermost(v)[n] # Unsaved}

\* saveLocal: the first save of a name in a scope is the one that counts.
SaveLocal(v, n) ==
  IF v.scopes = <<>> \/ n \in Saved(v) THEN v
  ELSE [v EXCEPT !.scopes = [@ EXCEPT ![Len(@)][n] = v.variables.data[n]]]

\* popLocalScope: the saved variables get back what they had.
PopScope(v) ==
  [v EXCEPT
     !.variables =
       IF Saved(v) = {} THEN @
       ELSE [data    |-> [n \in Name |-> IF n \in Saved(v) THEN Innermost(v)[n]
                                                           ELSE @.data[n]],
             written |-> @.written \cup Saved(v)],
     !.scopes = SubSeq(@, 1, Len(@) - 1)]

\* newShellChild: a new shell with the exported variables.
Child(v) ==
  [ functions |-> Empty, traps |-> Empty,
    variables |-> [data    |-> [n \in Name |-> IF n \in Exported
                                              THEN v.variables.data[n]
                                              ELSE Absent],
                   written |-> {}],
    scopes    |-> <<>> ]

-------------------------------------------------------------------------------
Init == values = [s \in Slot |-> New]

Becomes(s, v) == values' = [values EXCEPT ![s] = v]

Next ==
  \E s \in Slot :
    \/ \E n \in Name, x \in Value :
         \/ Becomes(s, SetFunction(values[s], n, x))
         \/ Becomes(s, SetTrap(values[s], n, x))
    \/ \E n \in Name :
         \/ Becomes(s, DeleteFunction(values[s], n))
         \/ Becomes(s, DeleteTrap(values[s], n))
         \/ \E x \in Value \cup {Absent} : Becomes(s, Assign(values[s], n, x))
         \/ Becomes(s, SaveLocal(values[s], n))
    \/ Becomes(s, PushScope(values[s]))
    \/ values[s].scopes # <<>> /\ Becomes(s, PopScope(values[s]))
    \/ \E t \in Slot \ {s} : Becomes(t, values[s]) \/ Becomes(t, Child(values[s]))

Spec == Init /\ [][Next]_values
===============================================================================
