--------------------------- MODULE CandidatesProofs ---------------------------
(***************************************************************************)
(* The candidate index is exact, for any files, names and commands, in     *)
(* whatever order candidates and functions are taken up (Candidates).      *)
(*                                                                         *)
(* Between two steps of the loops of add, what is missing from the index   *)
(* waits in one of three places: the node that mark has come to, the       *)
(* candidates that are left, and the names whose calls are left.           *)
(***************************************************************************)
EXTENDS Candidates, TLAPS

\* Calls that are known to be candidates: those of a name in functions are
\* not, until the loop comes to it.
Waiting == candidateFunctions \ functions

\* Nothing but known nodes and names is in the index and its lists.
Shape ==
  /\ known \subseteq Node
  /\ \A n \in known : Parent[n] = NoNode \/ Parent[n] \in known
  /\ nodes \subseteq known /\ todo \subseteq known
  /\ current \in known \cup {NoNode}
  /\ candidateFunctions \subseteq Name
  /\ functions \subseteq candidateFunctions

\* A call that matters is marked or waits, and what is above a marked node is
\* marked, or mark is there.
Complete ==
  /\ \A n \in known : Matters(n) \/ Call[n] \in Waiting => n \in nodes \cup todo \cup {current}
  /\ \A n \in nodes : Parent[n] = NoNode \/ Parent[n] \in nodes \cup {current}
  /\ \A n \in nodes : Declares[n] = NoName \/ Declares[n] \in candidateFunctions

\* All that is marked or waits belongs to every closed pair of sets.
Sound ==
  \A S \in SUBSET Node, F \in SUBSET Name :
    Closed(S, F) =>
      /\ nodes \subseteq S /\ todo \subseteq S /\ current \in S \cup {NoNode}
      /\ candidateFunctions \subseteq F

Resting == phase \in {"new", "ready"} => todo = {} /\ functions = {} /\ current = NoNode

IInv == Shape /\ Complete /\ Sound /\ Resting

\* The invariant holds of the empty index.
LEMMA InitInvariant == Init => IInv
  BY DEF Init, IInv, Shape, Complete, Sound, Resting, Waiting
-------------------------------------------------------------------------------
\* A walk adds nodes and makes their calls wait.
LEMMA WalkInvariant ==
  ASSUME NEW f \in Files, NEW bytes, IInv, Walk(f, bytes), phase \in {"new", "ready"}
  PROVE  IInv'
<1> USE DEF IInv
<1>1. todo = {} /\ functions = {} /\ current = NoNode
  BY DEF Resting
<1>2. f \subseteq Node /\ \A n \in f : Parent[n] = NoNode \/ Parent[n] \in f
  BY CandidatesAssumption
<1>3. Shape'
  BY <1>1, <1>2 DEF Walk, Shape, CandidatesOf
<1>4. Complete'
  BY <1>1, <1>2 DEF Walk, Shape, Complete, CandidatesOf, Waiting, Matters
<1>5. Sound'
  <2> SUFFICES ASSUME NEW S \in SUBSET Node, NEW F \in SUBSET Name, Closed(S, F)'
               PROVE  /\ nodes \subseteq S /\ todo' \subseteq S
                      /\ current \in S \cup {NoNode} /\ candidateFunctions \subseteq F
    BY DEF Sound, Walk
  <2>1. Closed(S, F)
    BY DEF Closed, Walk, Matters
  <2>2. nodes \subseteq S /\ candidateFunctions \subseteq F
    BY <2>1 DEF Sound
  <2>3. \A n \in f : Matters(n) \/ Call[n] \in F => n \in S
    BY DEF Closed, Walk, Matters
  <2>4. todo' \subseteq S
    BY <2>2, <2>3 DEF Walk, CandidatesOf
  <2> QED BY <1>1, <2>2, <2>4
<1>6. Resting'
  BY DEF Walk, Resting
<1> QED BY <1>3, <1>4, <1>5, <1>6

\* Taking up a candidate or the calls of a function moves them along.
LEMMA CandidateInvariant ==
  ASSUME IInv, Candidate
  PROVE  IInv'
<1> USE DEF IInv
<1>1. PICK n \in todo : current' = n /\ todo' = todo \ {n}
  BY DEF Candidate
<1>2. UNCHANGED <<known, nodes, candidateFunctions, functions, phase>>
      /\ phase = "marking" /\ current = NoNode
  BY DEF Candidate
<1>3. Shape'
  BY <1>1, <1>2 DEF Shape
<1>4. Complete'
  <2>1. Waiting' = Waiting /\ todo \cup {current} = todo' \cup {current'} \cup {NoNode}
    BY <1>1, <1>2 DEF Waiting
  <2>2. \A m \in known : Matters(m) \/ Call[m] \in Waiting => m \in nodes \cup todo' \cup {current'}
    BY <2>1, CandidatesAssumption DEF Complete, Shape
  <2>3. \A m \in nodes : Parent[m] = NoNode \/ Parent[m] \in nodes \cup {current'}
    BY <1>2 DEF Complete
  <2> QED BY <1>2, <2>1, <2>2, <2>3 DEF Complete, Matters
<1>5. Sound'
  BY <1>1, <1>2 DEF Sound, Closed, Matters
<1>6. Resting'
  BY <1>1, <1>2 DEF Resting
<1> QED BY <1>3, <1>4, <1>5, <1>6

\* A function that is reached brings in the nodes that call it.
LEMMA FunctionInvariant ==
  ASSUME IInv, Function
  PROVE  IInv'
<1> USE DEF IInv
<1>1. PICK name \in functions : /\ todo' = {n \in known : Call[n] = name}
                                /\ functions' = functions \ {name}
  BY DEF Function
<1>2. UNCHANGED <<known, nodes, candidateFunctions, current, phase>>
      /\ phase = "marking" /\ current = NoNode /\ todo = {}
  BY DEF Function
<1>3. Shape'
  BY <1>1, <1>2 DEF Shape
<1>4. Complete'
  BY <1>1, <1>2 DEF Shape, Complete, Waiting, Matters
<1>5. Sound'
  <2> SUFFICES ASSUME NEW S \in SUBSET Node, NEW F \in SUBSET Name, Closed(S, F)
               PROVE  /\ nodes \subseteq S /\ todo' \subseteq S
                      /\ current \in S \cup {NoNode} /\ candidateFunctions \subseteq F
    BY <1>2 DEF Sound, Closed, Matters
  <2>1. /\ nodes \subseteq S /\ current \in S \cup {NoNode}
        /\ candidateFunctions \subseteq F
    BY DEF Sound
  <2>2. name \in F
    BY <1>1, <2>1 DEF Shape
  <2>3. todo' \subseteq S
    BY <1>1, <2>2 DEF Closed
  <2> QED BY <2>1, <2>3
<1>6. Resting'
  BY <1>2 DEF Resting
<1> QED BY <1>3, <1>4, <1>5, <1>6
-------------------------------------------------------------------------------
\* One step of mark.
LEMMA MarkInvariant ==
  ASSUME IInv, Mark
  PROVE  IInv'
<1> USE DEF IInv
<1>1. UNCHANGED <<known, todo, phase>> /\ phase = "marking" /\ current # NoNode
  BY DEF Mark
<1>2. current \in known
  BY <1>1 DEF Shape
<1>3. CASE current \in nodes
  <2>1. current' = NoNode /\ UNCHANGED <<nodes, candidateFunctions, functions>>
    BY <1>3 DEF Mark
  <2>2. Shape' /\ Resting'
    BY <1>1, <2>1 DEF Shape, Resting
  <2>3. Complete'
    BY <1>1, <1>3, <2>1 DEF Shape, Complete, Waiting, Matters
  <2>4. Sound'
    BY <1>1, <2>1 DEF Sound, Closed, Matters
  <2> QED BY <2>2, <2>3, <2>4
<1>4. CASE current \notin nodes
  <2> DEFINE found == {Declares[current]} \ (candidateFunctions \cup {NoName})
  <2>1. /\ nodes' = nodes \cup {current}
        /\ candidateFunctions' = candidateFunctions \cup found
        /\ functions' = functions \cup found
        /\ current' = Parent[current]
    BY <1>4 DEF Mark
  <2>2. found \subseteq Name
    BY <1>2, CandidatesAssumption DEF Shape
  <2>3. found \cap candidateFunctions = {}
    OBVIOUS
  <2>4. Declares[current] = NoName \/ Declares[current] \in candidateFunctions \cup found
    OBVIOUS
  <2>5. Shape'
    BY <1>1, <1>2, <2>1, <2>2 DEF Shape
  <2>6. Waiting' = Waiting
    <3> HIDE DEF found
    <3> QED BY <2>1, <2>3 DEF Waiting, Shape
  <2>7. Complete'
    <3>1. \A n \in known : Matters(n) \/ Call[n] \in Waiting'
             => n \in nodes' \cup todo' \cup {current'}
      BY <1>1, <2>1, <2>6 DEF Complete
    <3>2. \A n \in nodes' : Parent[n] = NoNode \/ Parent[n] \in nodes' \cup {current'}
      BY <2>1 DEF Complete
    <3>3. \A n \in nodes' : Declares[n] = NoName \/ Declares[n] \in candidateFunctions'
      BY <2>1, <2>4 DEF Complete
    <3> QED BY <1>1, <3>1, <3>2, <3>3 DEF Complete, Matters
  <2>8. Sound'
    <3> SUFFICES ASSUME NEW S \in SUBSET Node, NEW F \in SUBSET Name, Closed(S, F)
                 PROVE  /\ nodes' \subseteq S /\ todo \subseteq S
                        /\ current' \in S \cup {NoNode} /\ candidateFunctions' \subseteq F
      BY <1>1 DEF Sound, Closed, Matters
    <3>1. /\ nodes \subseteq S /\ todo \subseteq S /\ current \in S
          /\ candidateFunctions \subseteq F
      BY <1>1 DEF Sound
    <3>2. Parent[current] = NoNode \/ Parent[current] \in S
      BY <3>1 DEF Closed
    <3>3. Declares[current] = NoName \/ Declares[current] \in F
      BY <3>1 DEF Closed
    <3> QED BY <2>1, <3>1, <3>2, <3>3
  <2>9. Resting'
    BY <1>1 DEF Resting
  <2> QED BY <2>5, <2>7, <2>8, <2>9
<1> QED BY <1>3, <1>4
-------------------------------------------------------------------------------
\* The invariant is kept by every step.
LEMMA NextInvariant == IInv /\ [Next]_vars => IInv'
<1> SUFFICES ASSUME IInv, [Next]_vars PROVE IInv'
  OBVIOUS
<1>1. ASSUME NEW f \in Files, Build(f) PROVE IInv'
  BY <1>1, WalkInvariant DEF Build
<1>2. ASSUME NEW f \in Files, AddDynamic(f) PROVE IInv'
  BY <1>2, WalkInvariant DEF AddDynamic
<1>3. CASE Candidate
  BY <1>3, CandidateInvariant
<1>4. CASE Function
  BY <1>4, FunctionInvariant
<1>5. CASE Mark
  BY <1>5, MarkInvariant
<1>6. CASE Done
  BY <1>6 DEF Done, IInv, Shape, Complete, Sound, Closed, Resting, Waiting, Matters
<1>7. CASE Cancel
  BY <1>7 DEF Cancel, IInv, Shape, Complete, Sound, Closed, Resting, Waiting, Matters
<1>8. CASE UNCHANGED vars
  BY <1>8 DEF vars, IInv, Shape, Complete, Sound, Closed, Resting, Waiting, Matters
<1> QED BY <1>1, <1>2, <1>3, <1>4, <1>5, <1>6, <1>7, <1>8 DEF Next

\* When nothing waits, what is complete and sound is the least closed pair.
LEMMA InvariantExact == IInv => CandidatesExact
<1> SUFFICES ASSUME IInv, phase = "ready"
             PROVE  /\ Closed(nodes, candidateFunctions)
                    /\ \A S \in SUBSET nodes, F \in SUBSET candidateFunctions :
                         Closed(S, F) => S = nodes /\ F = candidateFunctions
  BY DEF CandidatesExact
<1>1. todo = {} /\ functions = {} /\ current = NoNode
  BY DEF IInv, Resting
<1>2. NoNode \notin known
  BY CandidatesAssumption DEF IInv, Shape
<1>3. Closed(nodes, candidateFunctions)
  <2>1. \A n \in known : Matters(n) \/ Call[n] \in candidateFunctions => n \in nodes
    BY <1>1, <1>2 DEF IInv, Complete, Waiting
  <2>2. \A n \in nodes : Parent[n] = NoNode \/ Parent[n] \in nodes
    BY <1>1 DEF IInv, Complete
  <2> QED BY <2>1, <2>2 DEF IInv, Complete, Closed
<1>4. ASSUME NEW S \in SUBSET nodes, NEW F \in SUBSET candidateFunctions, Closed(S, F)
      PROVE  S = nodes /\ F = candidateFunctions
  <2>1. S \in SUBSET Node /\ F \in SUBSET Name
    BY DEF IInv, Shape
  <2>2. nodes \subseteq S /\ candidateFunctions \subseteq F
    BY <1>4, <2>1 DEF IInv, Sound
  <2> QED BY <2>2
<1> QED BY <1>3, <1>4

\* The index is exact whenever statements are evaluated, whatever source text
\* was added before, however functions call each other.
THEOREM CandidatesTheorem == Spec => []CandidatesExact
<1>1. Init => IInv
  BY InitInvariant
<1>2. IInv /\ [Next]_vars => IInv'
  BY NextInvariant
<1>3. IInv => CandidatesExact
  BY InvariantExact
<1> QED BY <1>1, <1>2, <1>3, PTL DEF Spec
===============================================================================
