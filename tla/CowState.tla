------------------------------- MODULE CowState -------------------------------
(***************************************************************************)
(* Copy-on-write states (internal/runtime: state.go, variables.go).        *)
(* State.clone copies pointers and marks each map as shared in both        *)
(* states; the ensure... and mutable... methods replace a map by a copy of *)
(* it before the first write.  The marks are not reference counts: they    *)
(* stay when the other owners are gone.  Beside each map a state keeps the *)
(* number of bytes the memory budget is charged for it.                    *)
(*                                                                         *)
(* Modelled are the four parts that are shared this way; the virtual file  *)
(* system is a fifth, of the same form.                                    *)
(***************************************************************************)
EXTENDS Integers, Sequences, FiniteSets, Functions

CONSTANTS
  Slot, Name, Value, Exported, Absent, Unsaved,   \* see ShellStates
  Addr,        \* the cells that maps are kept in
  Free,        \* the content of a cell that no state points to
  EntryBytes,  \* materialize.EntryBytes
  Size,        \* the length of a name or a value
  MaxWrites    \* a bound on the writes that are considered

VARIABLES
  heap,    \* the content of the cells, for each part of a state
  ref,     \* the cell in which a state has a part
  shared,  \* functionsShared, trapsShared, variables.shared, localScopesShared
  bytes,   \* functionsBytes, trapsBytes, materializedBytes, localScopesBytes
  writes   \* how many writes there were

vars == <<heap, ref, shared, bytes, writes>>

\* The states as their owners see them, through the pointers.
Seen(h, r, s) == 
  [ functions |-> h["functions"][r[s]["functions"]],
    traps     |-> h["traps"][r[s]["traps"]],
    variables |-> h["variables"][r[s]["variables"]],
    scopes    |-> h["scopes"][r[s]["scopes"]] ]
Of(s) == Seen(heap, ref, s)

Ideal == INSTANCE ShellStates WITH values <- [s \in Slot |-> Of(s)]

ASSUME CowAssumption ==
  /\ Addr \subseteq Nat /\ 1 \in Addr
  /\ EntryBytes \in Nat /\ Size \in [Name \cup Value -> Nat]
  /\ MaxWrites \in Nat
  /\ Absent \notin Value /\ Unsaved \notin Value \cup {Absent}
  /\ Exported \subseteq Name /\ IsFiniteSet(Name)

Part == Ideal!Part
-------------------------------------------------------------------------------
(***************************************************************************)
(* Cells.  The parts of s in P get the contents v[p]: in the cells they    *)
(* have, or in new ones for the parts in Q.  A new cell is the least that  *)
(* no other state points to; one that no state points to is collected.     *)
(***************************************************************************)
Used(r, p)   == {r[s][p] : s \in Slot}
Others(s, p) == {ref[t][p] : t \in Slot \ {s}}
LeastFree(s, p, a) ==
  /\ a \in Addr \ Others(s, p)
  /\ \A b \in Addr \ Others(s, p) : a <= b

Collected(h, r) ==
  [p \in Part |-> [a \in Addr |-> IF a \in Used(r, p) THEN h[p][a] ELSE Free]]

Write(s, P, Q, v) ==
  /\ writes < MaxWrites /\ writes' = writes + 1
  /\ \E new \in [Q -> Addr] :
      /\ \A p \in Q : LeastFree(s, p, new[p])
      /\ ref' = [ref EXCEPT ![s] = [p \in Part |-> IF p \in Q THEN new[p] ELSE @[p]]]
      /\ shared' = [shared EXCEPT ![s] = [p \in Part |-> p \notin P /\ @[p]]]
      /\ heap' = Collected([p \in Part |-> IF p \in P
                                           THEN [heap[p] EXCEPT ![ref'[s][p]] = v[p]]
                                           ELSE heap[p]],
                           ref')

\* Mutant: a map that is marked as shared is written in place.
Mutate_InPlace(s, P, v) == Write(s, P, {}, v)

\* The ensure... and mutable... methods, and the write they are called for.
Mutate(s, P, v) == Write(s, P, {p \in P : shared[s][p]}, v)

Charge(s, p, amount) == bytes' = [bytes EXCEPT ![s][p] = @ + amount]

-------------------------------------------------------------------------------
(* The operations. *)

\* Mutant: only the copy is marked.
Clone_CopyMarked(s, t) ==
  /\ s # t
  /\ ref' = [ref EXCEPT ![t] = ref[s]]
  /\ shared' = [shared EXCEPT ![t] = [p \in Part |-> TRUE]]
  /\ heap' = Collected(heap, ref')
  /\ bytes' = [bytes EXCEPT ![t] = bytes[s]]
  /\ UNCHANGED writes

\* t becomes a copy of s.
Clone(s, t) ==
  /\ s # t
  /\ ref' = [ref EXCEPT ![t] = ref[s]]
  /\ shared' = [shared EXCEPT ![s] = [p \in Part |-> TRUE],
                              ![t] = [p \in Part |-> TRUE]]
  /\ heap' = Collected(heap, ref')
  /\ bytes' = [bytes EXCEPT ![t] = bytes[s]]
  /\ UNCHANGED writes

Entry(n)       == EntryBytes + Size[n]
SizeOf(x)      == IF x \in Value THEN Size[x] ELSE 0
EntryOf(n, x)  == IF x = Absent THEN 0 ELSE Entry(n) + SizeOf(x)
Total(S, f(_)) == SumFunctionOnSet([n \in S |-> f(n)], S)

NewShellChild(s, t) ==
  LET v == Ideal!Child(Of(s))
  IN  /\ s # t
      /\ Write(t, Part, Part, v)
      /\ bytes' = [bytes EXCEPT ![t] =
                     [p \in Part |->
                        IF p = "variables"
                        THEN Total(Name, LAMBDA n : EntryOf(n, v.variables.data[n]))
                        ELSE 0]]

SetFunction(s, n, x) ==
  /\ Mutate(s, {"functions"}, Ideal!SetFunction(Of(s), n, x))
  /\ Charge(s, "functions", IF Of(s).functions[n] = Absent THEN Entry(n) ELSE 0)

DeleteFunction(s, n) ==
  /\ Of(s).functions[n] # Absent
  /\ Mutate(s, {"functions"}, Ideal!DeleteFunction(Of(s), n))
  /\ Charge(s, "functions", - Entry(n))

\* Mutant: the command that is replaced stays charged.
SetTrap_Recharged(s, n, x) ==
  /\ Mutate(s, {"traps"}, Ideal!SetTrap(Of(s), n, x))
  /\ Charge(s, "traps", (IF Of(s).traps[n] = Absent THEN Entry(n) ELSE 0) + Size[x])

SetTrap(s, n, x) ==
  /\ Mutate(s, {"traps"}, Ideal!SetTrap(Of(s), n, x))
  /\ Charge(s, "traps", (IF Of(s).traps[n] = Absent THEN Entry(n)
                         ELSE - SizeOf(Of(s).traps[n])) + Size[x])

DeleteTrap(s, n) ==
  /\ Of(s).traps[n] # Absent
  /\ Mutate(s, {"traps"}, Ideal!DeleteTrap(Of(s), n))
  /\ Charge(s, "traps", - EntryOf(n, Of(s).traps[n]))

\* What variables.put and variables.delete charge: the entry, and the version
\* of a name that is written for the first time.
Reassigned(v, n, x) ==
  EntryOf(n, x) - EntryOf(n, v.variables.data[n])
  + (IF n \in v.variables.written THEN 0 ELSE Entry(n))

Assign(s, n, x) ==
  /\ Mutate(s, {"variables"}, Ideal!Assign(Of(s), n, x))
  /\ Charge(s, "variables", Reassigned(Of(s), n, x))

PushLocalScope(s) ==
  /\ Mutate(s, {"scopes"}, Ideal!PushScope(Of(s)))
  /\ Charge(s, "scopes", EntryBytes)

\* The scopes are made mutable even if the name is already saved.
SaveLocal(s, n) ==
  /\ Of(s).scopes # <<>>
  /\ Mutate(s, {"scopes"}, Ideal!SaveLocal(Of(s), n))
  /\ Charge(s, "scopes", IF n \in Ideal!Saved(Of(s)) THEN 0
                         ELSE Entry(n) + SizeOf(Of(s).variables.data[n]))

\* The variables are written only if there is something to restore.
PopLocalScope(s) ==
  LET v == Of(s)
      S == Ideal!Saved(v)
  IN  /\ v.scopes # <<>>
      /\ Mutate(s, {"scopes"} \cup (IF S = {} THEN {} ELSE {"variables"}),
                Ideal!PopScope(v))
      /\ bytes' = [bytes EXCEPT
           ![s]["scopes"] =
             @ - EntryBytes
               - Total(S, LAMBDA n : Entry(n) + SizeOf(Ideal!Innermost(v)[n])),
           ![s]["variables"] =
             @ + Total(S, LAMBDA n : Reassigned(v, n, Ideal!Innermost(v)[n]))]

-------------------------------------------------------------------------------
\* A new state, and clones of it in all the other slots.
Init ==
  /\ ref = [s \in Slot |-> [p \in Part |-> 1]]
  /\ heap = Collected([p \in Part |-> [a \in Addr |-> Ideal!New[p]]], ref)
  /\ shared = [s \in Slot |-> [p \in Part |-> TRUE]]
  /\ bytes = [s \in Slot |-> [p \in Part |-> 0]]
  /\ writes = 0

Next ==
  \E s \in Slot :
    \/ \E t \in Slot : Clone(s, t)
    \/ \E t \in Slot : NewShellChild(s, t)
    \/ \E n \in Name, x \in Value : SetFunction(s, n, x)
    \/ \E n \in Name : DeleteFunction(s, n)
    \/ \E n \in Name, x \in Value : SetTrap(s, n, x)
    \/ \E n \in Name : DeleteTrap(s, n)
    \/ \E n \in Name, x \in Value \cup {Absent} : Assign(s, n, x)
    \/ PushLocalScope(s)
    \/ \E n \in Name : SaveLocal(s, n)
    \/ PopLocalScope(s)

Spec == Init /\ [][Next]_vars
-------------------------------------------------------------------------------
(* Properties. *)

\* The sharing cannot be observed: through its own pointers every path sees
\* what it would see if all the maps were copied by State.clone.
Isolated == Ideal!Spec

\* A map that two states point to is marked as shared in both of them, so
\* neither writes it in place.
SharedMarked ==
  \A s, t \in Slot : \A p \in Part :
    s # t /\ ref[s][p] = ref[t][p] => shared[s][p] /\ shared[t][p]

\* The bytes a state is charged for are those of what it holds; they never
\* drift away from it, whatever was copied, restored or shared on the way.
ScopeBytes(scope) ==
  EntryBytes + Total({n \in Name : scope[n] # Unsaved},
                     LAMBDA n : Entry(n) + SizeOf(scope[n]))
BytesOf(v) ==
  [ functions |-> Total({n \in Name : v.functions[n] # Absent}, Entry),
    traps     |-> Total(Name, LAMBDA n : EntryOf(n, v.traps[n])),
    variables |-> Total(Name, LAMBDA n : EntryOf(n, v.variables.data[n]))
                  + Total(v.variables.written, Entry),
    scopes    |-> Total(1..Len(v.scopes), LAMBDA k : ScopeBytes(v.scopes[k])) ]
BytesExact == \A s \in Slot : \A p \in Part : bytes[s][p] = BytesOf(Of(s))[p]
===============================================================================
