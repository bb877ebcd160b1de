---------------------------- MODULE CowStateProofs ----------------------------
(***************************************************************************)
(* That states which share their maps until they write them behave as      *)
(* states with maps of their own.  The invariant that carries the proof is *)
(* SharedMarked: a map that can be reached from two states is marked as    *)
(* shared in both, so that the one which writes it moves to a copy first.  *)
(*                                                                         *)
(* The second part is about the byte counts.  What the states see changes  *)
(* as in states that share nothing (StepLemma), so it is enough to prove   *)
(* of each of their operations that it is charged what it changes          *)
(* (Charged and the lemmas about it).                                      *)
(***************************************************************************)
EXTENDS CowState, FoldsProofs, SequenceTheorems, TLAPS

USE DEF Part, Ideal!Part

\* The shape of the memory and of the states.
Shape ==
  /\ heap = [p \in Part |-> [a \in Addr |-> heap[p][a]]]
  /\ ref \in [Slot -> [Part -> Addr]]
  /\ shared \in [Slot -> [Part -> BOOLEAN]]

CowInv == Shape /\ SharedMarked

\* What s has after a write of the parts P of v.
Overwritten(s, P, v) ==
  [ functions |-> IF "functions" \in P THEN v.functions ELSE Of(s).functions,
    traps     |-> IF "traps" \in P THEN v.traps ELSE Of(s).traps,
    variables |-> IF "variables" \in P THEN v.variables ELSE Of(s).variables,
    scopes    |-> IF "scopes" \in P THEN v.scopes ELSE Of(s).scopes ]

\* A write that moves every shared part to a new cell leaves the memory in
\* order and is not seen by any other state.
LEMMA WriteLemma ==
  ASSUME CowInv, NEW s \in Slot, NEW P \in SUBSET Part, NEW Q \in SUBSET P, NEW v,
         \A p \in P \ Q : ~shared[s][p],
         Write(s, P, Q, v)
  PROVE  /\ CowInv'
         /\ Of(s)' = Overwritten(s, P, v)
         /\ \A t \in Slot \ {s} : Of(t)' = Of(t)
<1> DEFINE H == [p \in Part |-> IF p \in P THEN [heap[p] EXCEPT ![ref'[s][p]] = v[p]]
                                           ELSE heap[p]]
<1>1. PICK new \in [Q -> Addr] :
        /\ \A p \in Q : LeastFree(s, p, new[p])
        /\ ref' = [ref EXCEPT ![s] = [p \in Part |-> IF p \in Q THEN new[p] ELSE @[p]]]
        /\ shared' = [shared EXCEPT ![s] = [p \in Part |-> p \notin P /\ @[p]]]
        /\ heap' = Collected(H, ref')
  BY DEF Write
<1>2. /\ ref' \in [Slot -> [Part -> Addr]]
      /\ \A p \in Q : ref'[s][p] = new[p]
      /\ \A p \in Part \ Q : ref'[s][p] = ref[s][p]
      /\ \A t \in Slot \ {s} : ref'[t] = ref[t]
  BY <1>1 DEF CowInv, Shape
<1>3. /\ shared' \in [Slot -> [Part -> BOOLEAN]]
      /\ \A p \in Part \ P : shared'[s][p] = shared[s][p]
      /\ \A t \in Slot \ {s} : shared'[t] = shared[t]
  <2>1. [p \in Part |-> p \notin P /\ shared[s][p]] \in [Part -> BOOLEAN]
    BY DEF CowInv, Shape
  <2> QED BY <1>1, <2>1 DEF CowInv, Shape
<1>4. heap' = [p \in Part |-> [a \in Addr |-> heap'[p][a]]]
  BY <1>1 DEF Collected
<1>5. \A t \in Slot, p \in Part : heap'[p][ref'[t][p]] = H[p][ref'[t][p]]
  BY <1>1, <1>2 DEF Collected, Used
\* No other state points to a cell that is written.
<1>6. \A t \in Slot \ {s}, p \in P : ref'[s][p] # ref[t][p]
  <2> TAKE t \in Slot \ {s}, p \in P
  <2>1. CASE p \in Q
    BY <1>1, <1>2, <2>1 DEF LeastFree, Others
  <2>2. CASE p \notin Q
    <3>1. /\ p \in Part /\ ~shared[s][p]
          /\ ref'[s][p] = ref[s][p]
      BY <1>2, <2>2
    <3>2. ref[s][p] # ref[t][p]
      BY <3>1 DEF CowInv, SharedMarked
    <3> QED BY <3>1, <3>2
  <2> QED BY <2>1, <2>2
<1>7. \A t \in Slot \ {s}, p \in Part : heap'[p][ref'[t][p]] = heap[p][ref[t][p]]
  <2> TAKE t \in Slot \ {s}, p \in Part
  <2>1. heap'[p][ref'[t][p]] = H[p][ref[t][p]]
    BY <1>2, <1>5
  <2>2. H[p][ref[t][p]] = heap[p][ref[t][p]]
    <3>1. CASE p \in P
      <4>1. /\ heap[p] = [a \in Addr |-> heap[p][a]]
            /\ ref[t][p] \in Addr /\ ref'[s][p] \in Addr /\ ref'[s][p] # ref[t][p]
        BY <1>2, <1>6, <3>1 DEF CowInv, Shape
      <4> QED BY <3>1, <4>1
    <3>2. CASE p \notin P
      BY <3>2
    <3> QED BY <3>1, <3>2
  <2> QED BY <2>1, <2>2
<1>8. \A p \in P : heap'[p][ref'[s][p]] = v[p]
  <2> TAKE p \in P
  <2>1. /\ heap[p] = [a \in Addr |-> heap[p][a]]
        /\ ref'[s][p] \in Addr
    BY <1>2 DEF CowInv, Shape
  <2>2. H[p] = [heap[p] EXCEPT ![ref'[s][p]] = v[p]]
    OBVIOUS
  <2>3. H[p][ref'[s][p]] = v[p]
    BY <2>1, <2>2
  <2> QED BY <1>5, <2>3
<1>9. \A p \in Part \ P : heap'[p][ref'[s][p]] = heap[p][ref[s][p]]
  BY <1>2, <1>5
<1>10. Of(s)' = Overwritten(s, P, v)
  BY <1>8, <1>9 DEF Of, Seen, Overwritten
<1>11. \A t \in Slot \ {s} : Of(t)' = Of(t)
  BY <1>7 DEF Of, Seen
<1>12. SharedMarked'
  BY <1>2, <1>3, <1>6 DEF CowInv, SharedMarked
<1> QED BY <1>2, <1>3, <1>4, <1>10, <1>11, <1>12 DEF CowInv, Shape

-------------------------------------------------------------------------------
(* The states as the paths see them. *)

Values == [s \in Slot |-> Of(s)]

\* One slot changes and the others do not.
LEMMA BecomesLemma ==
  ASSUME NEW s \in Slot, NEW v,
         Of(s)' = v, \A t \in Slot \ {s} : Of(t)' = Of(t)
  PROVE  Ideal!Becomes(s, v)
<1>1. [t \in Slot |-> Of(t)]' = [[t \in Slot |-> Of(t)] EXCEPT ![s] = v]
  OBVIOUS
<1> QED BY <1>1 DEF Ideal!Becomes

\* A state that is changed through the ensure... methods changes alone.
LEMMA MutateLemma ==
  ASSUME CowInv, NEW s \in Slot, NEW P \in SUBSET Part, NEW v,
         Mutate(s, P, v), v = Overwritten(s, P, v)
  PROVE  CowInv' /\ Ideal!Becomes(s, v)
<1> DEFINE Q == {p \in P : shared[s][p]}
<1>1. Q \in SUBSET P /\ Write(s, P, Q, v)
  BY DEF Mutate
<1>2. \A p \in P \ Q : ~shared[s][p]
  OBVIOUS
<1> HIDE DEF Q
<1>3. /\ CowInv'
      /\ Of(s)' = Overwritten(s, P, v)
      /\ \A t \in Slot \ {s} : Of(t)' = Of(t)
  BY <1>1, <1>2, WriteLemma
<1> QED BY <1>3, BecomesLemma

\* State.clone copies what is seen, and marks every map on both sides.
LEMMA CloneLemma ==
  ASSUME CowInv, NEW s \in Slot, NEW t \in Slot, Clone(s, t)
  PROVE  CowInv' /\ s # t /\ Ideal!Becomes(t, Of(s))
<1>1. /\ s # t
      /\ ref' \in [Slot -> [Part -> Addr]]
      /\ ref'[t] = ref[s]
      /\ \A u \in Slot \ {t} : ref'[u] = ref[u]
  BY DEF Clone, CowInv, Shape
<1>2. /\ shared' \in [Slot -> [Part -> BOOLEAN]]
      /\ \A p \in Part : shared'[s][p] /\ shared'[t][p]
      /\ \A u \in Slot \ {s, t} : shared'[u] = shared[u]
  BY DEF Clone, CowInv, Shape
<1>3. heap' = Collected(heap, ref')
  BY DEF Clone
<1>4. heap' = [p \in Part |-> [a \in Addr |-> heap'[p][a]]]
  BY <1>3 DEF Collected
<1>5. \A u \in Slot, p \in Part : heap'[p][ref'[u][p]] = heap[p][ref'[u][p]]
  BY <1>1, <1>3 DEF Collected, Used
<1>6. /\ Of(t)' = Of(s)
      /\ \A u \in Slot \ {t} : Of(u)' = Of(u)
  BY <1>1, <1>5 DEF Of, Seen
<1>7. SharedMarked'
  <2> SUFFICES ASSUME NEW u \in Slot, NEW w \in Slot, NEW p \in Part,
                      u # w, ref'[u][p] = ref'[w][p]
               PROVE  shared'[u][p]
    BY DEF SharedMarked
  <2>1. CASE u \in {s, t}
    BY <1>2, <2>1
  <2>2. CASE u \notin {s, t}
    <3>1. ref'[u] = ref[u] /\ shared'[u] = shared[u]
      BY <1>1, <1>2, <2>2
    <3>2. \E z \in Slot \ {u} : ref'[w] = ref[z]
      BY <1>1, <2>2
    <3> QED BY <3>1, <3>2 DEF CowInv, SharedMarked
  <2> QED BY <2>1, <2>2
<1>8. Ideal!Becomes(t, Of(s))
  BY <1>6, BecomesLemma
<1> QED BY <1>1, <1>2, <1>4, <1>7, <1>8 DEF CowInv, Shape

\* newShellChild starts from maps of its own.
LEMMA ChildLemma ==
  ASSUME CowInv, NEW s \in Slot, NEW t \in Slot, NewShellChild(s, t)
  PROVE  CowInv' /\ s # t /\ Ideal!Becomes(t, Ideal!Child(Of(s)))
<1> DEFINE v == Ideal!Child(Of(s))
<1>1. s # t /\ Write(t, Part, Part, v)
  BY DEF NewShellChild
<1>2. v = Overwritten(t, Part, v)
  BY DEF Overwritten, Ideal!Child, Ideal!New
<1> HIDE DEF v
<1>3. /\ CowInv'
      /\ Of(t)' = Overwritten(t, Part, v)
      /\ \A u \in Slot \ {t} : Of(u)' = Of(u)
  <2>1. Part \in SUBSET Part /\ \A p \in Part \ Part : ~shared[t][p]
    OBVIOUS
  <2> QED BY <1>1, <2>1, WriteLemma
<1>4. Ideal!Becomes(t, v)
  BY <1>2, <1>3, BecomesLemma
<1> QED BY <1>1, <1>3, <1>4 DEF v

-------------------------------------------------------------------------------

\* The first state, which every slot shares with its mark.
LEMMA InitLemma == Init => CowInv /\ Ideal!Init
<1> SUFFICES ASSUME Init PROVE CowInv /\ Ideal!Init
  OBVIOUS
<1>1. /\ ref \in [Slot -> [Part -> Addr]]
      /\ \A s \in Slot, p \in Part : ref[s][p] = 1
  BY CowAssumption DEF Init
<1>2. /\ shared \in [Slot -> [Part -> BOOLEAN]]
      /\ \A s \in Slot, p \in Part : shared[s][p]
  BY DEF Init
<1>3. heap = [p \in Part |-> [a \in Addr |-> heap[p][a]]]
  BY DEF Init, Collected
<1>4. \A s \in Slot, p \in Part : heap[p][ref[s][p]] = Ideal!New[p]
  BY <1>1, CowAssumption DEF Init, Collected, Used
<1>5. \A s \in Slot : Of(s) = Ideal!New
  BY <1>4 DEF Of, Seen, Ideal!New
<1>6. CowInv
  BY <1>1, <1>2, <1>3 DEF CowInv, Shape, SharedMarked
<1>7. [s \in Slot |-> Of(s)] = [s \in Slot |-> Ideal!New]
  BY <1>5
<1> QED BY <1>6, <1>7 DEF Ideal!Init

-------------------------------------------------------------------------------
(* Every operation is what it is on the states the paths see. *)

\* A function is defined, or removed.
LEMMA SetFunctionLemma ==
  ASSUME CowInv, NEW s \in Slot, NEW n \in Name, NEW x \in Value, SetFunction(s, n, x)
  PROVE  CowInv' /\ Ideal!Becomes(s, Ideal!SetFunction(Of(s), n, x))
<1> DEFINE v == Ideal!SetFunction(Of(s), n, x)
<1>1. Mutate(s, {"functions"}, v)
  BY DEF SetFunction
<1>2. v = Overwritten(s, {"functions"}, v)
  BY DEF Ideal!SetFunction, Overwritten, Of, Seen
<1>3. CowInv' /\ Ideal!Becomes(s, v)
  BY <1>1, <1>2, MutateLemma
<1> QED BY <1>3

\* unset -f removes a function.
LEMMA DeleteFunctionLemma ==
  ASSUME CowInv, NEW s \in Slot, NEW n \in Name, DeleteFunction(s, n)
  PROVE  CowInv' /\ Ideal!Becomes(s, Ideal!DeleteFunction(Of(s), n))
<1> DEFINE v == Ideal!DeleteFunction(Of(s), n)
<1>1. Mutate(s, {"functions"}, v)
  BY DEF DeleteFunction
<1>2. v = Overwritten(s, {"functions"}, v)
  BY DEF Ideal!DeleteFunction, Overwritten, Of, Seen
<1>3. CowInv' /\ Ideal!Becomes(s, v)
  BY <1>1, <1>2, MutateLemma
<1> QED BY <1>3

\* A trap is set, or removed.
LEMMA SetTrapLemma ==
  ASSUME CowInv, NEW s \in Slot, NEW n \in Name, NEW x \in Value, SetTrap(s, n, x)
  PROVE  CowInv' /\ Ideal!Becomes(s, Ideal!SetTrap(Of(s), n, x))
<1> DEFINE v == Ideal!SetTrap(Of(s), n, x)
<1>1. Mutate(s, {"traps"}, v)
  BY DEF SetTrap
<1>2. v = Overwritten(s, {"traps"}, v)
  BY DEF Ideal!SetTrap, Overwritten, Of, Seen
<1>3. CowInv' /\ Ideal!Becomes(s, v)
  BY <1>1, <1>2, MutateLemma
<1> QED BY <1>3

\* A trap that is reset is removed.
LEMMA DeleteTrapLemma ==
  ASSUME CowInv, NEW s \in Slot, NEW n \in Name, DeleteTrap(s, n)
  PROVE  CowInv' /\ Ideal!Becomes(s, Ideal!DeleteTrap(Of(s), n))
<1> DEFINE v == Ideal!DeleteTrap(Of(s), n)
<1>1. Mutate(s, {"traps"}, v)
  BY DEF DeleteTrap
<1>2. v = Overwritten(s, {"traps"}, v)
  BY DEF Ideal!DeleteTrap, Overwritten, Of, Seen
<1>3. CowInv' /\ Ideal!Becomes(s, v)
  BY <1>1, <1>2, MutateLemma
<1> QED BY <1>3

\* A variable is assigned, or removed.
LEMMA AssignLemma ==
  ASSUME CowInv, NEW s \in Slot, NEW n \in Name, NEW x \in Value \cup {Absent}, Assign(s, n, x)
  PROVE  CowInv' /\ Ideal!Becomes(s, Ideal!Assign(Of(s), n, x))
<1> DEFINE v == Ideal!Assign(Of(s), n, x)
<1>1. Mutate(s, {"variables"}, v)
  BY DEF Assign
<1>2. v = Overwritten(s, {"variables"}, v)
  <2>1. \E r : v = [Of(s) EXCEPT !.variables = r]
    BY DEF Ideal!Assign
  <2> QED BY <2>1 DEF Overwritten, Of, Seen
<1>3. CowInv' /\ Ideal!Becomes(s, v)
  BY <1>1, <1>2, MutateLemma
<1> QED BY <1>3

\* A function is entered: a scope is pushed.
LEMMA PushLemma ==
  ASSUME CowInv, NEW s \in Slot, PushLocalScope(s)
  PROVE  CowInv' /\ Ideal!Becomes(s, Ideal!PushScope(Of(s)))
<1> DEFINE v == Ideal!PushScope(Of(s))
<1>1. Mutate(s, {"scopes"}, v)
  BY DEF PushLocalScope
<1>2. v = Overwritten(s, {"scopes"}, v)
  <2>1. \E q : v = [Of(s) EXCEPT !.scopes = q]
    BY DEF Ideal!PushScope
  <2> QED BY <2>1 DEF Overwritten, Of, Seen
<1>3. CowInv' /\ Ideal!Becomes(s, v)
  BY <1>1, <1>2, MutateLemma
<1> QED BY <1>3

\* local keeps what the variable was in the innermost scope.
LEMMA SaveLemma ==
  ASSUME CowInv, NEW s \in Slot, NEW n \in Name, SaveLocal(s, n)
  PROVE  CowInv' /\ Ideal!Becomes(s, Ideal!SaveLocal(Of(s), n))
<1> DEFINE v == Ideal!SaveLocal(Of(s), n)
<1>1. Mutate(s, {"scopes"}, v)
  BY DEF SaveLocal
<1>2. v = Overwritten(s, {"scopes"}, v)
  <2>1. v = Of(s) \/ \E q : v = [Of(s) EXCEPT !.scopes = q]
    BY DEF Ideal!SaveLocal
  <2> QED BY <2>1 DEF Overwritten, Of, Seen
<1>3. CowInv' /\ Ideal!Becomes(s, v)
  BY <1>1, <1>2, MutateLemma
<1> QED BY <1>3

\* A function is left: the scope is popped, its variables are restored.
LEMMA PopLemma ==
  ASSUME CowInv, NEW s \in Slot, PopLocalScope(s)
  PROVE  Of(s).scopes # <<>> /\ CowInv' /\ Ideal!Becomes(s, Ideal!PopScope(Of(s)))
<1> DEFINE v == Ideal!PopScope(Of(s))
           S == Ideal!Saved(Of(s))
           P == {"scopes"} \cup (IF S = {} THEN {} ELSE {"variables"})
<1>1. Of(s).scopes # <<>> /\ Mutate(s, P, v)
  BY DEF PopLocalScope
<1>2. v = Overwritten(s, P, v)
  <2>1. CASE S = {}
    <3>1. \E q : v = [Of(s) EXCEPT !.variables = @, !.scopes = q]
      BY <2>1 DEF Ideal!PopScope
    <3> QED BY <2>1, <3>1 DEF Overwritten, Of, Seen
  <2>2. CASE S # {}
    <3>1. \E r, q : v = [Of(s) EXCEPT !.variables = r, !.scopes = q]
      BY <2>2 DEF Ideal!PopScope
    <3> QED BY <2>2, <3>1 DEF Overwritten, Of, Seen
  <2> QED BY <2>1, <2>2
<1>3. CowInv' /\ Ideal!Becomes(s, v)
  BY <1>1, <1>2, MutateLemma
<1> QED BY <1>1, <1>3

-------------------------------------------------------------------------------
(* Every step is a step of the states the paths see. *)

\* Every step keeps the invariant and is a step, or a stutter, of states that
\* share nothing.
LEMMA StepLemma ==
  ASSUME CowInv, [Next]_vars
  PROVE  CowInv' /\ [Ideal!Next]_Values
<1>1. CASE UNCHANGED vars
  BY <1>1 DEF vars, CowInv, Shape, SharedMarked, Values, Of, Seen
<1>2. ASSUME Next PROVE CowInv' /\ Ideal!Next
  <2>1. PICK s \in Slot :
          \/ \E t \in Slot : Clone(s, t)
          \/ \E t \in Slot : NewShellChild(s, t)
          \/ \E n \in Name, x \in Value : SetFunction(s, n, x)
          \/ \E n \in Name : DeleteFunction(s, n)
          \/ \E n \in Name, x \in Value : SetTrap(s, n, x)
          \/ \E n \in Name : DeleteTrap(s, n)
          \/ \E n \in Name, x \in Value \cup {Absent} : Assign(s, n, x)
          \/ PushLocalScope(s)
          \/ \E n \in Name : SaveLocal(s, n)
          \/ PopLocalScope(s)
    BY <1>2 DEF Next
  <2>2. [u \in Slot |-> Of(u)][s] = Of(s)
    OBVIOUS
  <2>3. ASSUME NEW t \in Slot, Clone(s, t) PROVE CowInv' /\ Ideal!Next
    BY <2>2, <2>3, CloneLemma DEF Ideal!Next
  <2>4. ASSUME NEW t \in Slot, NewShellChild(s, t) PROVE CowInv' /\ Ideal!Next
    BY <2>2, <2>4, ChildLemma DEF Ideal!Next
  <2>5. ASSUME NEW n \in Name, NEW x \in Value, SetFunction(s, n, x)
        PROVE  CowInv' /\ Ideal!Next
    BY <2>2, <2>5, SetFunctionLemma DEF Ideal!Next
  <2>6. ASSUME NEW n \in Name, DeleteFunction(s, n) PROVE CowInv' /\ Ideal!Next
    BY <2>2, <2>6, DeleteFunctionLemma DEF Ideal!Next
  <2>7. ASSUME NEW n \in Name, NEW x \in Value, SetTrap(s, n, x)
        PROVE  CowInv' /\ Ideal!Next
    BY <2>2, <2>7, SetTrapLemma DEF Ideal!Next
  <2>8. ASSUME NEW n \in Name, DeleteTrap(s, n) PROVE CowInv' /\ Ideal!Next
    BY <2>2, <2>8, DeleteTrapLemma DEF Ideal!Next
  <2>9. ASSUME NEW n \in Name, NEW x \in Value \cup {Absent}, Assign(s, n, x)
        PROVE  CowInv' /\ Ideal!Next
    BY <2>2, <2>9, AssignLemma DEF Ideal!Next
  <2>10. ASSUME PushLocalScope(s) PROVE CowInv' /\ Ideal!Next
    BY <2>2, <2>10, PushLemma DEF Ideal!Next
  <2>11. ASSUME NEW n \in Name, SaveLocal(s, n) PROVE CowInv' /\ Ideal!Next
    BY <2>2, <2>11, SaveLemma DEF Ideal!Next
  <2>12. ASSUME PopLocalScope(s) PROVE CowInv' /\ Ideal!Next
    BY <2>2, <2>12, PopLemma DEF Ideal!Next
  <2> QED
    BY <2>1, <2>3, <2>4, <2>5, <2>6, <2>7, <2>8, <2>9, <2>10, <2>11, <2>12
<1> QED BY <1>1, <1>2 DEF Values

\* The maps that two paths share are always marked as shared in both
\* (State.clone and the ensure... methods).
THEOREM SharingMarked == Spec => []SharedMarked
<1>1. Init => CowInv
  BY InitLemma
<1>2. CowInv /\ [Next]_vars => CowInv'
  BY StepLemma
<1>3. CowInv => SharedMarked
  BY DEF CowInv
<1> QED BY <1>1, <1>2, <1>3, PTL DEF Spec

\* Copy-on-write states implement states that share nothing: no path ever
\* sees what another one wrote (State.clone).
THEOREM Isolation == Spec => Isolated
<1>1. Init => CowInv /\ Ideal!Init
  BY InitLemma
<1>2. CowInv /\ [Next]_vars => CowInv'
  BY StepLemma
<1>3. CowInv /\ [Next]_vars => [Ideal!Next]_[s \in Slot |-> Of(s)]
  BY StepLemma DEF Values
<1> QED BY <1>1, <1>2, <1>3, PTL DEF Spec, Isolated, Ideal!Spec
-------------------------------------------------------------------------------
(* The bytes a state is charged for, as sums over the names. *)

Sum(f) == SumFunctionOnSet(f, Name)

FunctionCost(m)    == [n \in Name |-> IF m[n] = Absent THEN 0 ELSE Entry(n)]
ValueCost(m)       == [n \in Name |-> EntryOf(n, m[n])]
WrittenCost(S)     == [n \in Name |-> IF n \in S THEN Entry(n) ELSE 0]
ScopeCost(scope)   == [n \in Name |-> IF scope[n] = Unsaved THEN 0
                                      ELSE Entry(n) + SizeOf(scope[n])]
ScopesCost(scopes) == [k \in 1..Len(scopes) |-> EntryBytes + Sum(ScopeCost(scopes[k]))]

\* What an entry costs is a number.
LEMMA CostTypes ==
  /\ \A n \in Name : Entry(n) \in Int
  /\ \A x : SizeOf(x) \in Int
  /\ \A n \in Name : \A x : EntryOf(n, x) \in Int
  BY CowAssumption DEF Entry, SizeOf, EntryOf

\* So are the sums over the names.
LEMMA SumInt ==
  ASSUME NEW f, \A n \in Name : f[n] \in Int
  PROVE  Sum(f) \in Int
  BY CowAssumption, SumType DEF Sum

\* What BytesExact counts are these sums.
LEMMA FunctionBytes ==
  ASSUME NEW m
  PROVE  Total({n \in Name : m[n] # Absent}, Entry) = Sum(FunctionCost(m))
<1> DEFINE T == {n \in Name : m[n] # Absent}
           f == [n \in T |-> Entry(n)]
           h == FunctionCost(m)
<1>1. /\ T \in SUBSET Name
      /\ \A n \in T : f[n] \in Int
      /\ \A n \in Name : h[n] = IF n \in T THEN f[n] ELSE 0
  BY CostTypes DEF FunctionCost
<1>2. Total(T, Entry) = SumFunctionOnSet(f, T)
  BY DEF Total
<1> HIDE DEF T, f, h
<1>3. SumFunctionOnSet(h, Name) = SumFunctionOnSet(f, T)
  BY <1>1, CowAssumption, SumWithin
<1> QED BY <1>2, <1>3 DEF Sum, T, h

\* The bytes of a map of values are the sum over all names.
LEMMA ValueBytes ==
  ASSUME NEW m
  PROVE  Total(Name, LAMBDA n : EntryOf(n, m[n])) = Sum(ValueCost(m))
  BY DEF Total, Sum, ValueCost

\* So are those of the names that were written.
LEMMA WrittenBytes ==
  ASSUME NEW S \in SUBSET Name
  PROVE  Total(S, Entry) = Sum(WrittenCost(S))
<1> DEFINE f == [n \in S |-> Entry(n)]
           h == WrittenCost(S)
<1>1. /\ \A n \in S : f[n] \in Int
      /\ \A n \in Name : h[n] = IF n \in S THEN f[n] ELSE 0
  BY CostTypes DEF WrittenCost
<1>2. Total(S, Entry) = SumFunctionOnSet(f, S)
  BY DEF Total
<1> HIDE DEF f, h
<1>3. SumFunctionOnSet(h, Name) = SumFunctionOnSet(f, S)
  BY <1>1, CowAssumption, SumWithin
<1> QED BY <1>2, <1>3 DEF Sum, h

\* So are those of a scope.
LEMMA ScopeBytesLemma ==
  ASSUME NEW scope
  PROVE  /\ Total({n \in Name : scope[n] # Unsaved}, LAMBDA n : Entry(n) + SizeOf(scope[n]))
              = Sum(ScopeCost(scope))
         /\ ScopeBytes(scope) = EntryBytes + Sum(ScopeCost(scope))
         /\ Sum(ScopeCost(scope)) \in Int
<1> DEFINE T == {n \in Name : scope[n] # Unsaved}
           f == [n \in T |-> Entry(n) + SizeOf(scope[n])]
           h == ScopeCost(scope)
<1>1. /\ T \in SUBSET Name
      /\ \A n \in T : f[n] \in Int
      /\ \A n \in Name : h[n] = IF n \in T THEN f[n] ELSE 0
      /\ \A n \in Name : h[n] \in Int
  BY CostTypes DEF ScopeCost
<1>2. Total(T, LAMBDA n : Entry(n) + SizeOf(scope[n])) = SumFunctionOnSet(f, T)
  BY DEF Total
<1>3. ScopeBytes(scope) = EntryBytes + SumFunctionOnSet(f, T)
  BY DEF Total, ScopeBytes
<1> HIDE DEF T, f, h
<1>4. SumFunctionOnSet(h, Name) = SumFunctionOnSet(f, T)
  BY <1>1, CowAssumption, SumWithin
<1>5. Sum(h) \in Int
  BY <1>1, SumInt
<1> QED BY <1>2, <1>3, <1>4, <1>5 DEF Sum, T, h

\* So are those of a state.
LEMMA BytesLemma ==
  ASSUME NEW v \in Ideal!StateValue
  PROVE  /\ BytesOf(v)["functions"] = Sum(FunctionCost(v.functions))
         /\ BytesOf(v)["traps"] = Sum(ValueCost(v.traps))
         /\ BytesOf(v)["variables"] = Sum(ValueCost(v.variables.data))
                                      + Sum(WrittenCost(v.variables.written))
         /\ BytesOf(v)["scopes"] =
              SumFunctionOnSet(ScopesCost(v.scopes), 1..Len(v.scopes))
<1>1. BytesOf(v)["functions"] = Sum(FunctionCost(v.functions))
  BY FunctionBytes DEF BytesOf
<1>2. BytesOf(v)["traps"] = Sum(ValueCost(v.traps))
  BY ValueBytes DEF BytesOf
<1>3. v.variables.written \in SUBSET Name
  BY DEF Ideal!StateValue
<1>4. BytesOf(v)["variables"] = Sum(ValueCost(v.variables.data))
                                + Sum(WrittenCost(v.variables.written))
  BY <1>3, ValueBytes, WrittenBytes DEF BytesOf
<1>5. BytesOf(v)["scopes"] =
        SumFunctionOnSet([k \in 1..Len(v.scopes) |-> ScopeBytes(v.scopes[k])],
                         1..Len(v.scopes))
  BY DEF BytesOf, Total
<1>6. [k \in 1..Len(v.scopes) |-> ScopeBytes(v.scopes[k])] = ScopesCost(v.scopes)
  BY ScopeBytesLemma DEF ScopesCost
<1> QED BY <1>1, <1>2, <1>4, <1>5, <1>6

-------------------------------------------------------------------------------
(* What a change of a map changes in the sum. *)

\* A change of one entry.
LEMMA OneEntry ==
  ASSUME NEW f, NEW h, NEW n \in Name,
         \A k \in Name : f[k] \in Int /\ h[k] \in Int,
         \A k \in Name \ {n} : h[k] = f[k]
  PROVE  Sum(h) = Sum(f) + (h[n] - f[n])
  BY CowAssumption, SumOne DEF Sum

\* A change of one function changes the sum by its entry.
LEMMA FunctionChange ==
  ASSUME NEW m \in Ideal!Map, NEW n \in Name, NEW x
  PROVE  Sum(FunctionCost([m EXCEPT ![n] = x]))
           = Sum(FunctionCost(m)) + ((IF x = Absent THEN 0 ELSE Entry(n))
                                     - (IF m[n] = Absent THEN 0 ELSE Entry(n)))
<1> DEFINE f == FunctionCost(m)
           h == FunctionCost([m EXCEPT ![n] = x])
<1>1. /\ \A k \in Name : f[k] \in Int /\ h[k] \in Int
      /\ \A k \in Name \ {n} : h[k] = f[k]
      /\ h[n] = IF x = Absent THEN 0 ELSE Entry(n)
      /\ f[n] = IF m[n] = Absent THEN 0 ELSE Entry(n)
  BY CostTypes DEF FunctionCost, Ideal!Map
<1> HIDE DEF f, h
<1>2. Sum(h) = Sum(f) + (h[n] - f[n])
  BY <1>1, OneEntry
<1> QED BY <1>1, <1>2 DEF f, h

\* A change of one value changes the sum by the two entries.
LEMMA ValueChange ==
  ASSUME NEW m \in Ideal!Map, NEW n \in Name, NEW x
  PROVE  Sum(ValueCost([m EXCEPT ![n] = x]))
           = Sum(ValueCost(m)) + (EntryOf(n, x) - EntryOf(n, m[n]))
<1> DEFINE f == ValueCost(m)
           h == ValueCost([m EXCEPT ![n] = x])
<1>1. /\ \A k \in Name : f[k] \in Int /\ h[k] \in Int
      /\ \A k \in Name \ {n} : h[k] = f[k]
      /\ h[n] = EntryOf(n, x)
      /\ f[n] = EntryOf(n, m[n])
  BY CostTypes DEF ValueCost, Ideal!Map
<1> HIDE DEF f, h
<1>2. Sum(h) = Sum(f) + (h[n] - f[n])
  BY <1>1, OneEntry
<1> QED BY <1>1, <1>2 DEF f, h

\* A name that is written for the first time adds its entry.
LEMMA WrittenChange ==
  ASSUME NEW S \in SUBSET Name, NEW n \in Name
  PROVE  Sum(WrittenCost(S \cup {n}))
           = Sum(WrittenCost(S)) + (IF n \in S THEN 0 ELSE Entry(n))
<1> DEFINE f == WrittenCost(S)
           h == WrittenCost(S \cup {n})
<1>1. /\ \A k \in Name : f[k] \in Int /\ h[k] \in Int
      /\ \A k \in Name \ {n} : h[k] = f[k]
      /\ h[n] - f[n] = IF n \in S THEN 0 ELSE Entry(n)
  BY CostTypes DEF WrittenCost
<1> HIDE DEF f, h
<1>2. Sum(h) = Sum(f) + (h[n] - f[n])
  BY <1>1, OneEntry
<1> QED BY <1>1, <1>2 DEF f, h

\* A variable that is saved in a scope adds its entry and its value.
LEMMA ScopeChange ==
  ASSUME NEW scope \in Ideal!Scope, NEW n \in Name, scope[n] = Unsaved,
         NEW x, x # Unsaved
  PROVE  Sum(ScopeCost([scope EXCEPT ![n] = x]))
           = Sum(ScopeCost(scope)) + (Entry(n) + SizeOf(x))
<1> DEFINE f == ScopeCost(scope)
           h == ScopeCost([scope EXCEPT ![n] = x])
<1>1. /\ \A k \in Name : f[k] \in Int /\ h[k] \in Int
      /\ \A k \in Name \ {n} : h[k] = f[k]
      /\ h[n] - f[n] = Entry(n) + SizeOf(x)
  BY CostTypes DEF ScopeCost, Ideal!Scope
<1> HIDE DEF f, h
<1>2. Sum(h) = Sum(f) + (h[n] - f[n])
  BY <1>1, OneEntry
<1> QED BY <1>1, <1>2 DEF f, h

\* What a state is charged when the names in S get back the values in m.
Change(S, written, data, m) ==
  [n \in Name |-> IF n \in S
                  THEN EntryOf(n, m[n]) - EntryOf(n, data[n])
                       + (IF n \in written THEN 0 ELSE Entry(n))
                  ELSE 0]

\* A scope that is restored changes the two sums by what its names change.
LEMMA RestoreChange ==
  ASSUME NEW S \in SUBSET Name, NEW written \in SUBSET Name, NEW data, NEW m
  PROVE  Sum(ValueCost([n \in Name |-> IF n \in S THEN m[n] ELSE data[n]]))
           + Sum(WrittenCost(written \cup S))
         = Sum(ValueCost(data)) + Sum(WrittenCost(written))
           + Sum(Change(S, written, data, m))
<1> DEFINE f  == ValueCost(data)
           w  == WrittenCost(written)
           c  == Change(S, written, data, m)
           f2 == ValueCost([n \in Name |-> IF n \in S THEN m[n] ELSE data[n]])
           w2 == WrittenCost(written \cup S)
           g  == [n \in Name |-> f[n] + w[n]]
           g2 == [n \in Name |-> f2[n] + w2[n]]
<1>1. /\ \A n \in Name : f[n] \in Int /\ w[n] \in Int /\ c[n] \in Int
      /\ \A n \in Name : f2[n] \in Int /\ w2[n] \in Int
      /\ \A n \in Name : f2[n] + w2[n] = f[n] + w[n] + c[n]
  BY CostTypes DEF ValueCost, WrittenCost, Change
<1> HIDE DEF f, w, c, f2, w2
<1>2. /\ \A n \in Name : g[n] \in Int /\ g[n] = f[n] + w[n]
      /\ \A n \in Name : g2[n] \in Int /\ g2[n] = f2[n] + w2[n]
      /\ \A n \in Name : g2[n] = g[n] + c[n]
  BY <1>1
<1> HIDE DEF g, g2
<1>3. Sum(g) = Sum(f) + Sum(w)
  BY <1>1, <1>2, CowAssumption, SumAdd DEF Sum
<1>4. Sum(g2) = Sum(f2) + Sum(w2)
  BY <1>1, <1>2, CowAssumption, SumAdd DEF Sum
<1>5. Sum(g2) = Sum(g) + Sum(c)
  BY <1>1, <1>2, CowAssumption, SumAdd DEF Sum
<1> QED BY <1>3, <1>4, <1>5 DEF f, w, c, f2, w2

\* What PopLocalScope charges for the variables is this sum.
LEMMA RestoreBytes ==
  ASSUME NEW v, NEW S \in SUBSET Name, NEW m
  PROVE  Total(S, LAMBDA n : Reassigned(v, n, m[n]))
           = Sum(Change(S, v.variables.written, v.variables.data, m))
<1> DEFINE f == [n \in S |-> Reassigned(v, n, m[n])]
           h == Change(S, v.variables.written, v.variables.data, m)
<1>1. /\ \A n \in S : f[n] \in Int
      /\ \A n \in Name : h[n] = IF n \in S THEN f[n] ELSE 0
  BY CostTypes DEF Change, Reassigned
<1>2. Total(S, LAMBDA n : Reassigned(v, n, m[n])) = SumFunctionOnSet(f, S)
  BY DEF Total
<1> HIDE DEF f, h
<1>3. SumFunctionOnSet(h, Name) = SumFunctionOnSet(f, S)
  BY <1>1, CowAssumption, SumWithin
<1> QED BY <1>2, <1>3 DEF Sum, h

\* The scopes.
Scopes(q) == SumFunctionOnSet(ScopesCost(q), 1..Len(q))

\* What the scopes cost is a number for each.
LEMMA ScopesTypes ==
  ASSUME NEW q, Len(q) \in Nat
  PROVE  /\ IsFiniteSet(1..Len(q))
         /\ \A k \in 1..Len(q) : ScopesCost(q)[k] = EntryBytes + Sum(ScopeCost(q[k]))
         /\ \A k \in 1..Len(q) : ScopesCost(q)[k] \in Int
         /\ \A k \in 1..Len(q) : Sum(ScopeCost(q[k])) \in Int
<1>1. IsFiniteSet(1..Len(q))
  BY FS_Interval
<1>2. \A scope : Sum(ScopeCost(scope)) \in Int
  BY ScopeBytesLemma
<1> QED BY <1>1, <1>2, CowAssumption DEF ScopesCost

\* A sequence without its last element.
LEMMA FrontLemma ==
  ASSUME NEW T, NEW q \in Seq(T), q # <<>>
  PROVE  /\ SubSeq(q, 1, Len(q) - 1) \in Seq(T)
         /\ Len(SubSeq(q, 1, Len(q) - 1)) = Len(q) - 1
         /\ \A k \in 1..(Len(q) - 1) : SubSeq(q, 1, Len(q) - 1)[k] = q[k]
         /\ Len(q) \in Nat /\ Len(q) # 0
<1> DEFINE n == Len(q) - 1
<1>1. Len(q) \in Nat /\ Len(q) # 0 /\ \A k \in 1..Len(q) : q[k] \in T
  OBVIOUS
<1>2. n \in Nat /\ \A k \in 1..n : q[k] \in T
  BY <1>1
<1> HIDE DEF n
<1>3. /\ SubSeq(q, 1, n) \in Seq(T)
      /\ Len(SubSeq(q, 1, n)) = IF 1 <= n THEN n - 1 + 1 ELSE 0
      /\ \A k \in 1..(n - 1 + 1) : SubSeq(q, 1, n)[k] = q[1 + k - 1]
  BY <1>2, SubSeqProperties
<1>4. n - 1 + 1 = n /\ \A k \in 1..n : 1 + k - 1 = k
  BY <1>2
<1>5. /\ Len(SubSeq(q, 1, n)) = n
      /\ \A k \in 1..n : SubSeq(q, 1, n)[k] = q[k]
  BY <1>2, <1>3, <1>4
<1> QED BY <1>1, <1>3, <1>5 DEF n

\* All the scopes but the innermost one.
LEMMA ScopesFront ==
  ASSUME NEW q \in Seq(Ideal!Scope), q # <<>>
  PROVE  Scopes(q) = Scopes(SubSeq(q, 1, Len(q) - 1))
                     + (EntryBytes + Sum(ScopeCost(q[Len(q)])))
<1> DEFINE l     == Len(q)
           front == SubSeq(q, 1, Len(q) - 1)
           f     == ScopesCost(q)
           h     == ScopesCost(front)
<1>1. l \in Nat /\ l # 0
  BY FrontLemma
<1>2. /\ Len(front) = l - 1
      /\ \A k \in 1..(l - 1) : front[k] = q[k]
  BY FrontLemma
<1> HIDE DEF front, l
<1>3. /\ IsFiniteSet(1..l) /\ l \in 1..l
      /\ \A k \in 1..l : f[k] \in Int
      /\ f[l] = EntryBytes + Sum(ScopeCost(q[l]))
  BY <1>1, ScopesTypes DEF l
<1>4. IsFiniteSet(1..(l - 1)) /\ \A k \in 1..(l - 1) : h[k] = f[k]
  <2>1. \A k \in 1..(l - 1) : k \in 1..l
    BY <1>1
  <2>2. \A k \in 1..(l - 1) : h[k] = EntryBytes + Sum(ScopeCost(q[k]))
    BY <1>1, <1>2, ScopesTypes
  <2>3. \A k \in 1..l : f[k] = EntryBytes + Sum(ScopeCost(q[k]))
    BY <1>1, ScopesTypes DEF l
  <2> QED BY <1>1, <2>1, <2>2, <2>3, FS_Interval
<1> HIDE DEF f, h
<1>5. SumFunctionOnSet(f, 1..l) = f[l] + SumFunctionOnSet(f, (1..l) \ {l})
  BY <1>3, SumRemove
<1>6. (1..l) \ {l} = 1..(l - 1)
  BY <1>1
<1>7. SumFunctionOnSet(h, 1..(l - 1)) = SumFunctionOnSet(f, 1..(l - 1))
  BY <1>4, SumSame
<1>8. SumFunctionOnSet(f, 1..(l - 1)) \in Int
  <2>1. \A k \in 1..(l - 1) : f[k] \in Int
    BY <1>1, <1>3
  <2> QED BY <1>4, <2>1, SumType
<1>9. Scopes(q) = SumFunctionOnSet(f, 1..l)
      /\ Scopes(front) = SumFunctionOnSet(h, 1..(l - 1))
  BY <1>2 DEF Scopes, f, h, l
<1>10. f[l] \in Int /\ f[l] = EntryBytes + Sum(ScopeCost(q[l]))
  BY <1>3
<1>11. Scopes(q) = f[l] + Scopes(front) /\ Scopes(front) \in Int
  BY <1>5, <1>6, <1>7, <1>8, <1>9, Zenon
<1>12. Scopes(q) = Scopes(front) + f[l]
  BY <1>10, <1>11
<1> QED BY <1>10, <1>12 DEF front, l

\* A scope that is pushed adds its cost.
LEMMA ScopesAppend ==
  ASSUME NEW q \in Seq(Ideal!Scope), NEW scope \in Ideal!Scope
  PROVE  Scopes(Append(q, scope)) = Scopes(q) + (EntryBytes + Sum(ScopeCost(scope)))
<1> DEFINE r == Append(q, scope)
<1>1. /\ r \in Seq(Ideal!Scope) /\ r # <<>>
      /\ Len(q) \in Nat /\ Len(r) = Len(q) + 1
      /\ \A k \in 1..Len(q) : r[k] = q[k]
      /\ r[Len(r)] = scope
  BY AppendProperties, LenProperties
<1> HIDE DEF r
<1>2. SubSeq(r, 1, Len(r) - 1) = q
  <2> DEFINE front == SubSeq(r, 1, Len(r) - 1)
  <2>1. /\ front \in Seq(Ideal!Scope) /\ Len(front) = Len(r) - 1
        /\ \A k \in 1..(Len(r) - 1) : front[k] = r[k]
    BY <1>1, FrontLemma
  <2> HIDE DEF front
  <2>2. Len(front) = Len(q) /\ \A k \in 1..Len(front) : front[k] = q[k]
    BY <1>1, <2>1
  <2>3. front = q
    BY <2>1, <2>2, SeqEqual
  <2> QED BY <2>3 DEF front
<1>3. Scopes(r) = Scopes(q) + (EntryBytes + Sum(ScopeCost(scope)))
  BY <1>1, <1>2, ScopesFront
<1> QED BY <1>3 DEF r

\* A change of the innermost scope.
LEMMA ScopesLast ==
  ASSUME NEW q \in Seq(Ideal!Scope), q # <<>>, NEW scope \in Ideal!Scope
  PROVE  Scopes([q EXCEPT ![Len(q)] = scope])
           = Scopes(q) + (Sum(ScopeCost(scope)) - Sum(ScopeCost(q[Len(q)])))
<1> DEFINE r == [q EXCEPT ![Len(q)] = scope]
           a == SubSeq(q, 1, Len(q) - 1)
           b == SubSeq(r, 1, Len(r) - 1)
<1>1. /\ Len(q) \in Nat /\ Len(q) # 0 /\ Len(q) \in 1..Len(q)
  BY FrontLemma
<1>2. /\ r \in Seq(Ideal!Scope) /\ Len(r) = Len(q)
      /\ \A k \in 1..Len(q) : r[k] = IF k = Len(q) THEN scope ELSE q[k]
  BY <1>1, ExceptSeq
<1>3. r # <<>>
  BY <1>1, <1>2, EmptySeq
<1> HIDE DEF r
<1>4. /\ a \in Seq(Ideal!Scope) /\ Len(a) = Len(q) - 1
      /\ \A k \in 1..(Len(q) - 1) : a[k] = q[k]
  BY FrontLemma
<1>5. /\ b \in Seq(Ideal!Scope) /\ Len(b) = Len(r) - 1
      /\ \A k \in 1..(Len(r) - 1) : b[k] = r[k]
  BY <1>2, <1>3, FrontLemma
<1>6. Scopes(q) = Scopes(a) + (EntryBytes + Sum(ScopeCost(q[Len(q)])))
  BY ScopesFront
<1>7. Scopes(r) = Scopes(b) + (EntryBytes + Sum(ScopeCost(r[Len(r)])))
  BY <1>2, <1>3, ScopesFront
<1> HIDE DEF a, b
<1>8. a = b
  <2>1. Len(a) = Len(b) /\ \A k \in 1..Len(a) : a[k] = b[k]
    BY <1>1, <1>2, <1>4, <1>5
  <2> QED BY <1>4, <1>5, <2>1, SeqEqual
<1>9. r[Len(r)] = scope
  BY <1>1, <1>2
<1>10. /\ Scopes(a) \in Int /\ EntryBytes \in Int
       /\ Sum(ScopeCost(scope)) \in Int /\ Sum(ScopeCost(q[Len(q)])) \in Int
  <2>1. Len(a) \in Nat
    BY <1>4, LenProperties
  <2>2. Scopes(a) \in Int
    BY <2>1, ScopesTypes, SumType DEF Scopes
  <2>3. \A x : Sum(ScopeCost(x)) \in Int
    BY ScopeBytesLemma
  <2> QED BY <2>2, <2>3, CowAssumption
<1>11. Scopes(r) = Scopes(q) + (Sum(ScopeCost(scope)) - Sum(ScopeCost(q[Len(q)])))
  <2>1. Scopes(r) = Scopes(a) + (EntryBytes + Sum(ScopeCost(scope)))
    BY <1>7, <1>8, <1>9, Zenon
  <2> QED BY <1>6, <1>10, <2>1
<1> QED BY <1>11 DEF r

-------------------------------------------------------------------------------
(* The charge of a state: b has for each part what v holds. *)

Charged(b, v) ==
  /\ b \in [Part -> Int] /\ v \in Ideal!StateValue
  /\ b["functions"] = Sum(FunctionCost(v.functions))
  /\ b["traps"] = Sum(ValueCost(v.traps))
  /\ b["variables"] = Sum(ValueCost(v.variables.data))
                      + Sum(WrittenCost(v.variables.written))
  /\ b["scopes"] = Scopes(v.scopes)

\* What is charged is what BytesExact counts.
LEMMA ChargedExact ==
  ASSUME NEW b, NEW v, Charged(b, v)
  PROVE  \A p \in Part : b[p] = BytesOf(v)[p]
  BY BytesLemma DEF Charged, Scopes

\* Empty maps cost nothing.
LEMMA EmptyCost ==
  /\ Sum(FunctionCost(Ideal!Empty)) = 0 /\ Sum(ValueCost(Ideal!Empty)) = 0
  /\ Sum(WrittenCost({})) = 0 /\ Scopes(<<>>) = 0
<1>1. Sum(FunctionCost(Ideal!Empty)) = 0
  BY CowAssumption, SumZero DEF Sum, FunctionCost, Ideal!Empty
<1>2. Sum(ValueCost(Ideal!Empty)) = 0
  BY CowAssumption, SumZero DEF Sum, ValueCost, EntryOf, Ideal!Empty
<1>3. Sum(WrittenCost({})) = 0
  BY CowAssumption, SumZero DEF Sum, WrittenCost
<1>4. Scopes(<<>>) = 0
  <2>1. 1..Len(<<>>) = {}
    OBVIOUS
  <2> QED BY <2>1, SumEmpty DEF Scopes
<1> QED BY <1>1, <1>2, <1>3, <1>4

\* A new state is charged nothing.
LEMMA NewCharged == Charged([p \in Part |-> 0], Ideal!New)
<1> DEFINE v == Ideal!New
<1>1. /\ v \in Ideal!StateValue
      /\ v.functions = Ideal!Empty /\ v.traps = Ideal!Empty
      /\ v.variables.data = Ideal!Empty /\ v.variables.written = {}
      /\ v.scopes = <<>>
  BY EmptySeq DEF Ideal!New, Ideal!StateValue, Ideal!Empty, Ideal!Map
<1> HIDE DEF v
<1> QED BY <1>1, EmptyCost DEF Charged, v

\* Every operation charges for what it changes.
LEMMA SetFunctionCharged ==
  ASSUME NEW b, NEW v, Charged(b, v), NEW n \in Name, NEW x \in Value
  PROVE  Charged([b EXCEPT !["functions"] = @ + (IF v.functions[n] = Absent THEN Entry(n) ELSE 0)],
                 Ideal!SetFunction(v, n, x))
<1> DEFINE w == Ideal!SetFunction(v, n, x)
           d == IF v.functions[n] = Absent THEN Entry(n) ELSE 0
<1>1. /\ w \in Ideal!StateValue
      /\ w.functions = [v.functions EXCEPT ![n] = x] /\ v.functions \in Ideal!Map
      /\ w.traps = v.traps /\ w.variables = v.variables /\ w.scopes = v.scopes
  BY DEF Charged, Ideal!SetFunction, Ideal!StateValue, Ideal!Map
<1>2. d \in Int /\ d = (IF x = Absent THEN 0 ELSE Entry(n))
                      - (IF v.functions[n] = Absent THEN 0 ELSE Entry(n))
  BY CowAssumption, CostTypes
<1> HIDE DEF d
<1>3. Sum(FunctionCost([v.functions EXCEPT ![n] = x]))
        = Sum(FunctionCost(v.functions)) + d
  BY <1>1, <1>2, FunctionChange
<1> HIDE DEF w
<1>4. Charged([b EXCEPT !["functions"] = @ + d], w)
  BY <1>1, <1>2, <1>3 DEF Charged
<1> QED BY <1>4 DEF d, w

\* The charge for a function that is removed.
LEMMA DeleteFunctionCharged ==
  ASSUME NEW b, NEW v, Charged(b, v), NEW n \in Name, v.functions[n] # Absent
  PROVE  Charged([b EXCEPT !["functions"] = @ + (- Entry(n))],
                 Ideal!DeleteFunction(v, n))
<1> DEFINE w == Ideal!DeleteFunction(v, n)
           d == - Entry(n)
<1>1. /\ w \in Ideal!StateValue
      /\ w.functions = [v.functions EXCEPT ![n] = Absent] /\ v.functions \in Ideal!Map
      /\ w.traps = v.traps /\ w.variables = v.variables /\ w.scopes = v.scopes
  BY DEF Charged, Ideal!DeleteFunction, Ideal!StateValue, Ideal!Map
<1>2. d \in Int /\ d = (IF Absent = Absent THEN 0 ELSE Entry(n))
                      - (IF v.functions[n] = Absent THEN 0 ELSE Entry(n))
  BY CowAssumption, CostTypes
<1> HIDE DEF d
<1>3. Sum(FunctionCost([v.functions EXCEPT ![n] = Absent]))
        = Sum(FunctionCost(v.functions)) + d
  BY <1>1, <1>2, FunctionChange
<1> HIDE DEF w
<1>4. Charged([b EXCEPT !["functions"] = @ + d], w)
  BY <1>1, <1>2, <1>3 DEF Charged
<1> QED BY <1>4 DEF d, w

\* The charge for a trap.
LEMMA SetTrapCharged ==
  ASSUME NEW b, NEW v, Charged(b, v), NEW n \in Name, NEW x \in Value
  PROVE  Charged([b EXCEPT !["traps"] = @ + ((IF v.traps[n] = Absent THEN Entry(n)
                                              ELSE - SizeOf(v.traps[n])) + Size[x])],
                 Ideal!SetTrap(v, n, x))
<1> DEFINE w == Ideal!SetTrap(v, n, x)
           d == (IF v.traps[n] = Absent THEN Entry(n) ELSE - SizeOf(v.traps[n])) + Size[x]
<1>1. /\ w \in Ideal!StateValue
      /\ w.traps = [v.traps EXCEPT ![n] = x] /\ v.traps \in Ideal!Map
      /\ w.functions = v.functions /\ w.variables = v.variables /\ w.scopes = v.scopes
  BY DEF Charged, Ideal!SetTrap, Ideal!StateValue, Ideal!Map
<1>2. d \in Int /\ d = EntryOf(n, x) - EntryOf(n, v.traps[n])
  <2>1. x # Absent /\ SizeOf(x) = Size[x] /\ Size[x] \in Int
    BY CowAssumption DEF SizeOf
  <2> QED BY <2>1, CostTypes DEF EntryOf
<1> HIDE DEF d
<1>3. Sum(ValueCost([v.traps EXCEPT ![n] = x])) = Sum(ValueCost(v.traps)) + d
  BY <1>1, <1>2, ValueChange
<1> HIDE DEF w
<1>4. Charged([b EXCEPT !["traps"] = @ + d], w)
  BY <1>1, <1>2, <1>3 DEF Charged
<1> QED BY <1>4 DEF d, w

\* The charge for a trap that is removed.
LEMMA DeleteTrapCharged ==
  ASSUME NEW b, NEW v, Charged(b, v), NEW n \in Name, v.traps[n] # Absent
  PROVE  Charged([b EXCEPT !["traps"] = @ + (- EntryOf(n, v.traps[n]))],
                 Ideal!DeleteTrap(v, n))
<1> DEFINE w == Ideal!DeleteTrap(v, n)
           d == - EntryOf(n, v.traps[n])
<1>1. /\ w \in Ideal!StateValue
      /\ w.traps = [v.traps EXCEPT ![n] = Absent] /\ v.traps \in Ideal!Map
      /\ w.functions = v.functions /\ w.variables = v.variables /\ w.scopes = v.scopes
  BY DEF Charged, Ideal!DeleteTrap, Ideal!StateValue, Ideal!Map
<1>2. d \in Int /\ d = EntryOf(n, Absent) - EntryOf(n, v.traps[n])
  <2>1. EntryOf(n, Absent) = 0
    BY DEF EntryOf
  <2> QED BY <2>1, CostTypes
<1> HIDE DEF d
<1>3. Sum(ValueCost([v.traps EXCEPT ![n] = Absent])) = Sum(ValueCost(v.traps)) + d
  BY <1>1, <1>2, ValueChange
<1> HIDE DEF w
<1>4. Charged([b EXCEPT !["traps"] = @ + d], w)
  BY <1>1, <1>2, <1>3 DEF Charged
<1> QED BY <1>4 DEF d, w

\* The charge for an assignment.
LEMMA AssignCharged ==
  ASSUME NEW b, NEW v, Charged(b, v), NEW n \in Name, NEW x \in Value \cup {Absent}
  PROVE  Charged([b EXCEPT !["variables"] = @ + Reassigned(v, n, x)], Ideal!Assign(v, n, x))
<1> DEFINE w == Ideal!Assign(v, n, x)
           d == Reassigned(v, n, x)
           data == v.variables.data
           written == v.variables.written
<1>1. /\ w \in Ideal!StateValue
      /\ w.variables.data = [data EXCEPT ![n] = x] /\ data \in Ideal!Map
      /\ w.variables.written = written \cup {n} /\ written \in SUBSET Name
      /\ w.functions = v.functions /\ w.traps = v.traps /\ w.scopes = v.scopes
  BY DEF Charged, Ideal!Assign, Ideal!StateValue, Ideal!Map
<1>2. d = EntryOf(n, x) - EntryOf(n, data[n]) + (IF n \in written THEN 0 ELSE Entry(n))
  BY DEF Reassigned
<1> HIDE DEF d, data, written
<1>3. d \in Int
  BY <1>2, CostTypes
<1>4. /\ Sum(ValueCost([data EXCEPT ![n] = x]))
           = Sum(ValueCost(data)) + (EntryOf(n, x) - EntryOf(n, data[n]))
      /\ Sum(WrittenCost(written \cup {n}))
           = Sum(WrittenCost(written)) + (IF n \in written THEN 0 ELSE Entry(n))
  BY <1>1, ValueChange, WrittenChange
<1>5. Sum(ValueCost(data)) \in Int /\ Sum(WrittenCost(written)) \in Int
  BY CostTypes, SumInt DEF ValueCost, WrittenCost
<1>6. Sum(ValueCost([data EXCEPT ![n] = x])) + Sum(WrittenCost(written \cup {n}))
        = (Sum(ValueCost(data)) + Sum(WrittenCost(written))) + d
  BY <1>2, <1>4, <1>5, CostTypes
<1> HIDE DEF w
<1>7. Charged([b EXCEPT !["variables"] = @ + d], w)
  BY <1>1, <1>3, <1>6 DEF Charged, data, written
<1> QED BY <1>7 DEF d, w

\* The charge for a scope that is pushed.
LEMMA PushCharged ==
  ASSUME NEW b, NEW v, Charged(b, v)
  PROVE  Charged([b EXCEPT !["scopes"] = @ + EntryBytes], Ideal!PushScope(v))
<1> DEFINE w     == Ideal!PushScope(v)
           scope == [n \in Name |-> Unsaved]
           q     == v.scopes
<1>1. scope \in Ideal!Scope /\ q \in Seq(Ideal!Scope)
  BY DEF Charged, Ideal!StateValue, Ideal!Scope
<1>2. Sum(ScopeCost(scope)) = 0
  BY CowAssumption, SumZero DEF Sum, ScopeCost
<1> HIDE DEF scope
<1>3. Append(q, scope) \in Seq(Ideal!Scope)
  BY <1>1, AppendProperties
<1>4. /\ w \in Ideal!StateValue
      /\ w.scopes = Append(q, scope)
      /\ w.functions = v.functions /\ w.traps = v.traps /\ w.variables = v.variables
  BY <1>3 DEF Charged, Ideal!PushScope, Ideal!StateValue, scope
<1>5. Scopes(Append(q, scope)) = Scopes(q) + (EntryBytes + Sum(ScopeCost(scope)))
  BY <1>1, ScopesAppend
<1> HIDE DEF w
<1>6. Scopes(Append(q, scope)) = Scopes(q) + EntryBytes
  BY <1>2, <1>5, CowAssumption
<1> QED BY <1>4, <1>6, CowAssumption DEF Charged, w, q

\* The charge for a variable that is saved.
LEMMA SaveCharged ==
  ASSUME NEW b, NEW v, Charged(b, v), NEW n \in Name, v.scopes # <<>>
  PROVE  Charged([b EXCEPT !["scopes"] = @ + (IF n \in Ideal!Saved(v) THEN 0
                             ELSE Entry(n) + SizeOf(v.variables.data[n]))],
                 Ideal!SaveLocal(v, n))
<1> DEFINE q     == v.scopes
           last  == q[Len(q)]
           x     == v.variables.data[n]
           scope == [last EXCEPT ![n] = x]
           w     == Ideal!SaveLocal(v, n)
<1>1. /\ q \in Seq(Ideal!Scope) /\ q # <<>>
      /\ Len(q) \in 1..Len(q) /\ last \in Ideal!Scope
      /\ x \in Value \cup {Absent} /\ x # Unsaved
  <2>1. q \in Seq(Ideal!Scope) /\ v.variables.data \in Ideal!Map
    BY DEF Charged, Ideal!StateValue
  <2>2. Len(q) \in 1..Len(q)
    BY <2>1, FrontLemma
  <2> QED BY <2>1, <2>2, ElementOfSeq, CowAssumption DEF Ideal!Map
<1>2. CASE n \in Ideal!Saved(v)
  <2>1. w = v
    BY <1>2 DEF Ideal!SaveLocal
  <2> QED BY <1>2, <2>1, CowAssumption DEF Charged
<1>3. CASE n \notin Ideal!Saved(v)
  <2>1. last[n] = Unsaved
    BY <1>3 DEF Ideal!Saved, Ideal!Innermost
  <2>2. scope \in Ideal!Scope
    BY <1>1 DEF Ideal!Scope
  <2>3. [q EXCEPT ![Len(q)] = scope] \in Seq(Ideal!Scope)
    <3> HIDE DEF scope, q
    <3> QED BY <1>1, <2>2, ExceptSeq
  <2>4. w = [v EXCEPT !.scopes = [@ EXCEPT ![Len(@)][n] = x]]
    BY <1>3 DEF Ideal!SaveLocal
  <2>5. /\ w \in Ideal!StateValue
        /\ w.scopes = [q EXCEPT ![Len(q)] = scope]
        /\ w.functions = v.functions /\ w.traps = v.traps /\ w.variables = v.variables
    BY <2>3, <2>4 DEF Charged, Ideal!StateValue
  <2>6. Sum(ScopeCost(scope)) = Sum(ScopeCost(last)) + (Entry(n) + SizeOf(x))
    <3> HIDE DEF last, x
    <3> QED BY <1>1, <2>1, ScopeChange
  <2> HIDE DEF scope
  <2>7. Scopes([q EXCEPT ![Len(q)] = scope])
          = Scopes(q) + (Sum(ScopeCost(scope)) - Sum(ScopeCost(last)))
    BY <1>1, <2>2, ScopesLast
  <2>8. Sum(ScopeCost(scope)) \in Int /\ Sum(ScopeCost(last)) \in Int
    BY ScopeBytesLemma
  <2> HIDE DEF last, w, x
  <2>9. Scopes([q EXCEPT ![Len(q)] = scope]) = Scopes(q) + (Entry(n) + SizeOf(x))
    BY <2>6, <2>7, <2>8, CostTypes
  <2>10. Charged([b EXCEPT !["scopes"] = @ + (Entry(n) + SizeOf(x))], w)
    BY <2>5, <2>9, CostTypes DEF Charged
  <2> QED BY <1>3, <2>10 DEF w, x
<1> QED BY <1>2, <1>3

\* The charge for a scope that is restored and popped.
LEMMA PopCharged ==
  ASSUME NEW b, NEW v, Charged(b, v), v.scopes # <<>>
  PROVE  LET S == Ideal!Saved(v)
         IN  Charged([b EXCEPT
               !["scopes"] =
                 @ - EntryBytes
                   - Total(S, LAMBDA n : Entry(n) + SizeOf(Ideal!Innermost(v)[n])),
               !["variables"] =
                 @ + Total(S, LAMBDA n : Reassigned(v, n, Ideal!Innermost(v)[n]))],
                     Ideal!PopScope(v))
<1> DEFINE q       == v.scopes
           last    == Ideal!Innermost(v)
           S       == Ideal!Saved(v)
           data    == v.variables.data
           written == v.variables.written
           w       == Ideal!PopScope(v)
           front   == SubSeq(q, 1, Len(q) - 1)
           restored == [n \in Name |-> IF n \in S THEN last[n] ELSE data[n]]
           out     == Total(S, LAMBDA n : Entry(n) + SizeOf(last[n]))
           back    == Total(S, LAMBDA n : Reassigned(v, n, last[n]))
<1>1. /\ q \in Seq(Ideal!Scope) /\ q # <<>>
      /\ data \in Ideal!Map /\ written \in SUBSET Name /\ S \in SUBSET Name
      /\ front \in Seq(Ideal!Scope)
  <2>1. q \in Seq(Ideal!Scope) /\ data \in Ideal!Map /\ written \in SUBSET Name
    BY DEF Charged, Ideal!StateValue
  <2> QED BY <2>1, FrontLemma DEF Ideal!Saved
<1>2. last = q[Len(q)] /\ last \in Ideal!Scope
  <2>1. Len(q) \in 1..Len(q)
    BY <1>1, FrontLemma
  <2> QED BY <1>1, <2>1, ElementOfSeq DEF Ideal!Innermost
<1>3. restored \in Ideal!Map
  <2>1. \A n \in S : last[n] \in Value \cup {Absent}
    BY <1>2 DEF Ideal!Saved, Ideal!Scope
  <2> HIDE DEF S, last, data
  <2> QED BY <1>1, <2>1 DEF Ideal!Map
<1>4. /\ w.scopes = front
      /\ w.variables.data = restored /\ w.variables.written = written \cup S
      /\ w.functions = v.functions /\ w.traps = v.traps
      /\ w \in Ideal!StateValue
  <2>1. CASE S = {}
    <3>1. restored = data
      BY <1>1, <2>1 DEF Ideal!Map
    <3>2. w = [v EXCEPT !.variables = @, !.scopes = front]
      BY <2>1 DEF Ideal!PopScope
    <3> HIDE DEF restored, front, S
    <3> QED BY <1>1, <2>1, <3>1, <3>2 DEF Charged, Ideal!StateValue
  <2>2. CASE S # {}
    <3> DEFINE r == [data |-> restored, written |-> written \cup S]
    <3>1. w = [v EXCEPT !.variables = r, !.scopes = front]
      BY <2>2 DEF Ideal!PopScope
    <3> HIDE DEF restored, front, S, w
    <3>2. /\ r \in [data : Ideal!Map, written : SUBSET Name]
          /\ r.data = restored /\ r.written = written \cup S
      BY <1>1, <1>3
    <3> HIDE DEF r
    <3>3. v \in Ideal!StateValue
      BY DEF Charged
    <3> QED BY <1>1, <3>1, <3>2, <3>3 DEF Ideal!StateValue
  <2> QED BY <2>1, <2>2
<1>5. out = Sum(ScopeCost(last)) /\ out \in Int
  <2>1. out = Sum(ScopeCost(last))
    BY ScopeBytesLemma, Zenon DEF Ideal!Saved
  <2>2. \A scope : Sum(ScopeCost(scope)) \in Int
    BY ScopeBytesLemma
  <2> HIDE DEF out, last
  <2> QED BY <2>1, <2>2
<1>6. back = Sum(Change(S, written, data, last))
  <2> HIDE DEF S, last
  <2> QED BY <1>1, RestoreBytes
<1>7. back \in Int
  <2>1. \A n \in Name : Change(S, written, data, last)[n] \in Int
    BY CostTypes DEF Change
  <2> QED BY <1>6, <2>1, SumInt
<1>8. Sum(ValueCost(restored)) + Sum(WrittenCost(written \cup S))
        = Sum(ValueCost(data)) + Sum(WrittenCost(written)) + back
  <2> HIDE DEF S, last, data, written, back
  <2> QED BY <1>1, <1>6, RestoreChange
<1>9. Scopes(front) = Scopes(q) - EntryBytes - out
  <2>1. Scopes(q) = Scopes(front) + (EntryBytes + Sum(ScopeCost(last)))
    BY <1>1, <1>2, ScopesFront
  <2>2. Scopes(front) \in Int
    <3>1. Len(front) \in Nat
      BY <1>1, LenProperties
    <3> HIDE DEF front
    <3> QED BY <3>1, ScopesTypes, SumType DEF Scopes
  <2> HIDE DEF front, out
  <2> QED BY <1>5, <2>1, <2>2, CowAssumption
<1>10. /\ b \in [Part -> Int]
       /\ b["functions"] = Sum(FunctionCost(v.functions))
       /\ b["traps"] = Sum(ValueCost(v.traps))
       /\ b["variables"] = Sum(ValueCost(data)) + Sum(WrittenCost(written))
       /\ b["scopes"] = Scopes(q)
  BY DEF Charged
<1>11. Charged([b EXCEPT !["scopes"] = @ - EntryBytes - out, !["variables"] = @ + back], w)
  <2> HIDE DEF out, back, w, restored, front, S, q, data, written
  <2> QED BY <1>4, <1>5, <1>7, <1>8, <1>9, <1>10, CowAssumption DEF Charged
<1> QED BY <1>11

\* The charge for the variables of a shell child.
LEMMA ChildCharged ==
  ASSUME NEW v \in Ideal!StateValue
  PROVE  LET w == Ideal!Child(v)
         IN  Charged([p \in Part |->
                        IF p = "variables"
                        THEN Total(Name, LAMBDA n : EntryOf(n, w.variables.data[n]))
                        ELSE 0], w)
<1> DEFINE w     == Ideal!Child(v)
           total == Total(Name, LAMBDA n : EntryOf(n, w.variables.data[n]))
<1>1. /\ w \in Ideal!StateValue
      /\ w.functions = Ideal!Empty /\ w.traps = Ideal!Empty
      /\ w.variables.written = {} /\ w.scopes = <<>>
  BY EmptySeq DEF Ideal!Child, Ideal!StateValue, Ideal!Empty, Ideal!Map
<1>2. total = Sum(ValueCost(w.variables.data))
  BY ValueBytes
<1>3. total \in Int
  <2>1. \A n \in Name : ValueCost(w.variables.data)[n] \in Int
    BY CostTypes DEF ValueCost
  <2> QED BY <1>2, <2>1, SumInt
<1> HIDE DEF total, w
<1>4. Charged([p \in Part |-> IF p = "variables" THEN total ELSE 0], w)
  BY <1>1, <1>2, <1>3, EmptyCost DEF Charged
<1> QED BY <1>4 DEF total, w

-------------------------------------------------------------------------------
(* Every state is charged for what it holds. *)

ChargeInv ==
  /\ bytes \in [Slot -> [Part -> Int]]
  /\ \A s \in Slot : Charged(bytes[s], Of(s))

\* What a step of the states that share nothing says of each slot.
LEMMA SeenLemma ==
  ASSUME NEW s \in Slot, NEW v, Ideal!Becomes(s, v)
  PROVE  Of(s)' = v /\ \A t \in Slot \ {s} : Of(t)' = Of(t)
<1>1. [t \in Slot |-> Of(t)'] = [[t \in Slot |-> Of(t)] EXCEPT ![s] = v]
  BY DEF Ideal!Becomes
<1>2. \A t \in Slot : [u \in Slot |-> Of(u)'][t] = Of(t)'
  OBVIOUS
<1>3. \A t \in Slot : [[u \in Slot |-> Of(u)] EXCEPT ![s] = v][t]
                        = IF t = s THEN v ELSE Of(t)
  OBVIOUS
<1> QED BY <1>1, <1>2, <1>3

\* A state that changes with its charge leaves the others as they are.
LEMMA ChargeLemma ==
  ASSUME ChargeInv, NEW s \in Slot, NEW v, NEW b,
         Ideal!Becomes(s, v), bytes' = [bytes EXCEPT ![s] = b], Charged(b, v)
  PROVE  ChargeInv'
<1>1. Of(s)' = v /\ \A t \in Slot \ {s} : Of(t)' = Of(t)
  BY SeenLemma
<1>2. b \in [Part -> Int]
  BY DEF Charged
<1>3. /\ bytes' \in [Slot -> [Part -> Int]]
      /\ bytes'[s] = b /\ \A t \in Slot \ {s} : bytes'[t] = bytes[t]
  BY <1>2 DEF ChargeInv
<1>4. \A t \in Slot : Charged(bytes'[t], Of(t)')
  BY <1>1, <1>3 DEF ChargeInv
<1> QED BY <1>3, <1>4 DEF ChargeInv

\* Every step charges exactly what it changes.
LEMMA ChargeStepLemma ==
  ASSUME CowInv, ChargeInv, [Next]_vars
  PROVE  ChargeInv'
<1>1. CASE UNCHANGED vars
  BY <1>1 DEF vars, ChargeInv, Of, Seen
<1>2. CASE Next
  <2>1. PICK s \in Slot :
          \/ \E t \in Slot : Clone(s, t)
          \/ \E t \in Slot : NewShellChild(s, t)
          \/ \E n \in Name, x \in Value : SetFunction(s, n, x)
          \/ \E n \in Name : DeleteFunction(s, n)
          \/ \E n \in Name, x \in Value : SetTrap(s, n, x)
          \/ \E n \in Name : DeleteTrap(s, n)
          \/ \E n \in Name, x \in Value \cup {Absent} : Assign(s, n, x)
          \/ PushLocalScope(s)
          \/ \E n \in Name : SaveLocal(s, n)
          \/ PopLocalScope(s)
    BY <1>2 DEF Next
  <2>2. /\ Charged(bytes[s], Of(s)) /\ Of(s) \in Ideal!StateValue
        /\ bytes \in [Slot -> [Part -> Int]]
    BY DEF ChargeInv, Charged
  <2>3. ASSUME NEW t \in Slot, Clone(s, t) PROVE ChargeInv'
    <3>1. bytes' = [bytes EXCEPT ![t] = bytes[s]]
      BY <2>3 DEF Clone
    <3> QED BY <2>2, <2>3, <3>1, CloneLemma, ChargeLemma
  <2>4. ASSUME NEW t \in Slot, NewShellChild(s, t) PROVE ChargeInv'
    <3> DEFINE w == Ideal!Child(Of(s))
               b == [p \in Part |->
                       IF p = "variables"
                       THEN Total(Name, LAMBDA n : EntryOf(n, w.variables.data[n]))
                       ELSE 0]
    <3>1. bytes' = [bytes EXCEPT ![t] = b]
      BY <2>4 DEF NewShellChild
    <3>2. Charged(b, w)
      BY <2>2, ChildCharged
    <3> HIDE DEF b
    <3> QED BY <2>4, <3>1, <3>2, ChildLemma, ChargeLemma
  <2>5. ASSUME NEW n \in Name, NEW x \in Value, SetFunction(s, n, x) PROVE ChargeInv'
    <3> DEFINE v == Of(s)
               b == [bytes[s] EXCEPT !["functions"] =
                       @ + (IF v.functions[n] = Absent THEN Entry(n) ELSE 0)]
    <3>1. bytes' = [bytes EXCEPT ![s] = b]
      BY <2>2, <2>5 DEF SetFunction, Charge
    <3>2. Charged(b, Ideal!SetFunction(v, n, x))
      BY <2>2, SetFunctionCharged
    <3> HIDE DEF b
    <3> QED BY <2>5, <3>1, <3>2, SetFunctionLemma, ChargeLemma
  <2>6. ASSUME NEW n \in Name, DeleteFunction(s, n) PROVE ChargeInv'
    <3> DEFINE v == Of(s)
               b == [bytes[s] EXCEPT !["functions"] = @ + (- Entry(n))]
    <3>1. bytes' = [bytes EXCEPT ![s] = b]
      BY <2>2, <2>6 DEF DeleteFunction, Charge
    <3>2. Charged(b, Ideal!DeleteFunction(v, n))
      BY <2>2, <2>6, DeleteFunctionCharged DEF DeleteFunction
    <3> HIDE DEF b
    <3> QED BY <2>6, <3>1, <3>2, DeleteFunctionLemma, ChargeLemma
  <2>7. ASSUME NEW n \in Name, NEW x \in Value, SetTrap(s, n, x) PROVE ChargeInv'
    <3> DEFINE v == Of(s)
               b == [bytes[s] EXCEPT !["traps"] =
                       @ + ((IF v.traps[n] = Absent THEN Entry(n)
                             ELSE - SizeOf(v.traps[n])) + Size[x])]
    <3>1. bytes' = [bytes EXCEPT ![s] = b]
      BY <2>2, <2>7 DEF SetTrap, Charge
    <3>2. Charged(b, Ideal!SetTrap(v, n, x))
      BY <2>2, SetTrapCharged
    <3> HIDE DEF b
    <3> QED BY <2>7, <3>1, <3>2, SetTrapLemma, ChargeLemma
  <2>8. ASSUME NEW n \in Name, DeleteTrap(s, n) PROVE ChargeInv'
    <3> DEFINE v == Of(s)
               b == [bytes[s] EXCEPT !["traps"] = @ + (- EntryOf(n, v.traps[n]))]
    <3>1. bytes' = [bytes EXCEPT ![s] = b]
      BY <2>2, <2>8 DEF DeleteTrap, Charge
    <3>2. Charged(b, Ideal!DeleteTrap(v, n))
      BY <2>2, <2>8, DeleteTrapCharged DEF DeleteTrap
    <3> HIDE DEF b
    <3> QED BY <2>8, <3>1, <3>2, DeleteTrapLemma, ChargeLemma
  <2>9. ASSUME NEW n \in Name, NEW x \in Value \cup {Absent}, Assign(s, n, x)
        PROVE  ChargeInv'
    <3> DEFINE v == Of(s)
               b == [bytes[s] EXCEPT !["variables"] = @ + Reassigned(v, n, x)]
    <3>1. bytes' = [bytes EXCEPT ![s] = b]
      BY <2>2, <2>9 DEF Assign, Charge
    <3>2. Charged(b, Ideal!Assign(v, n, x))
      BY <2>2, AssignCharged
    <3> HIDE DEF b
    <3> QED BY <2>9, <3>1, <3>2, AssignLemma, ChargeLemma
  <2>10. ASSUME PushLocalScope(s) PROVE ChargeInv'
    <3> DEFINE b == [bytes[s] EXCEPT !["scopes"] = @ + EntryBytes]
    <3>1. bytes' = [bytes EXCEPT ![s] = b]
      BY <2>2, <2>10 DEF PushLocalScope, Charge
    <3>2. Charged(b, Ideal!PushScope(Of(s)))
      BY <2>2, PushCharged
    <3> HIDE DEF b
    <3> QED BY <2>10, <3>1, <3>2, PushLemma, ChargeLemma
  <2>11. ASSUME NEW n \in Name, SaveLocal(s, n) PROVE ChargeInv'
    <3> DEFINE v == Of(s)
               b == [bytes[s] EXCEPT !["scopes"] =
                       @ + (IF n \in Ideal!Saved(v) THEN 0
                            ELSE Entry(n) + SizeOf(v.variables.data[n]))]
    <3>1. v.scopes # <<>> /\ bytes' = [bytes EXCEPT ![s] = b]
      BY <2>2, <2>11 DEF SaveLocal, Charge
    <3>2. Charged(b, Ideal!SaveLocal(v, n))
      BY <2>2, <3>1, SaveCharged
    <3> HIDE DEF b
    <3> QED BY <2>11, <3>1, <3>2, SaveLemma, ChargeLemma
  <2>12. ASSUME PopLocalScope(s) PROVE ChargeInv'
    <3> DEFINE v    == Of(s)
               S    == Ideal!Saved(v)
               out  == Total(S, LAMBDA n : Entry(n) + SizeOf(Ideal!Innermost(v)[n]))
               back == Total(S, LAMBDA n : Reassigned(v, n, Ideal!Innermost(v)[n]))
               b    == [bytes[s] EXCEPT !["scopes"] = @ - EntryBytes - out,
                                        !["variables"] = @ + back]
    <3>1. /\ v.scopes # <<>>
          /\ bytes' = [bytes EXCEPT ![s]["scopes"] = @ - EntryBytes - out,
                                    ![s]["variables"] = @ + back]
      BY <2>12 DEF PopLocalScope
    <3>2. Charged(b, Ideal!PopScope(v))
      BY <2>2, <3>1, PopCharged
    <3> HIDE DEF out, back
    <3>3. bytes' = [bytes EXCEPT ![s] = b]
      BY <2>2, <3>1
    <3> HIDE DEF b
    <3> QED BY <2>12, <3>2, <3>3, PopLemma, ChargeLemma
  <2> QED
    BY <2>1, <2>3, <2>4, <2>5, <2>6, <2>7, <2>8, <2>9, <2>10, <2>11, <2>12
<1> QED BY <1>1, <1>2

\* The bytes that a path is charged for are those of the functions, traps,
\* variables and local scopes it holds, whatever was copied, shared or restored
\* before (Materialization.Current, and the counts of state.go and variables.go).
THEOREM BytesExactTheorem == Spec => []BytesExact
<1>1. Init => CowInv /\ ChargeInv
  <2> SUFFICES ASSUME Init PROVE ChargeInv
    BY InitLemma
  <2>1. \A s \in Slot : Of(s) = Ideal!New
    <3>1. [s \in Slot |-> Of(s)] = [s \in Slot |-> Ideal!New]
      BY InitLemma DEF Ideal!Init
    <3> QED BY <3>1
  <2>2. /\ bytes \in [Slot -> [Part -> Int]]
        /\ \A s \in Slot : bytes[s] = [p \in Part |-> 0]
    BY DEF Init
  <2> QED BY <2>1, <2>2, NewCharged DEF ChargeInv
<1>2. CowInv /\ ChargeInv /\ [Next]_vars => CowInv' /\ ChargeInv'
  BY StepLemma, ChargeStepLemma
<1>3. ChargeInv => BytesExact
  BY ChargedExact DEF ChargeInv, BytesExact
<1> QED BY <1>1, <1>2, <1>3, PTL DEF Spec
===============================================================================
