------------------------------ MODULE Candidates ------------------------------
(***************************************************************************)
(* The candidate index (internal/runtime/candidates.go): the nodes of the  *)
(* syntax under which a command that matters to the caller may be called.  *)
(* Statements outside of it are evaluated without following what might     *)
(* have failed (control.go:332-336).                                       *)
(*                                                                         *)
(* A program is indexed before it runs, and each source text it evaluates  *)
(* (eval, source, traps) when it is met.  A file is added in one walk that *)
(* notes who calls what; then each candidate marks the nodes above it, up  *)
(* to the first that is marked; and a function declaration that is marked  *)
(* makes the calls of that function candidates, in all files seen so far.  *)
(*                                                                         *)
(* Node stands for all the nodes that are ever parsed, Files for the files *)
(* they form.  known are the nodes that were walked: the maps parents and  *)
(* calls of the code are Parent and Call on known.  Candidates and names   *)
(* that wait in a list wait in a set here; the order is left open.         *)
(***************************************************************************)
EXTENDS Integers, FiniteSets

CONSTANTS
  Node, Name, NoNode, NoName,
  Parent,    \* the node around a node; NoNode for a file
  Call,      \* the name that a call or declaration clause has, Unnamed if it
             \* is not a literal, NotCall for other nodes
  Declares,  \* the name of a function declaration, NoName for other nodes
  Unnamed, NotCall,
  Files, SourceBytes,
  Controls,  \* the names of language controls
  Commands,  \* the registered commands: [executable, fallback, userOverride, candidate]
  EntryBytes, Maximum,
  MaxFiles   \* bounds the files that are added

ASSUME CandidatesAssumption ==
  /\ NoNode \notin Node /\ NoName \notin Name
  /\ Parent \in [Node -> Node \cup {NoNode}]
  /\ Call \in [Node -> Name \cup {Unnamed, NotCall}]
  /\ Declares \in [Node -> Name \cup {NoName}]
  /\ Files \subseteq SUBSET Node
  /\ \A f \in Files : \A n \in f : Parent[n] \in f \cup {NoNode}

VARIABLES
  known,
  nodes,               \* the nodes that are marked
  candidateFunctions,  \* the names whose declaration is marked
  dynamicBytes,        \* what files added later are charged
  total,               \* dynamicBytes when the file has been added
  todo,                \* the candidates that are still to be marked
  current,             \* the node that mark has come to
  functions,           \* the names whose calls are still to be marked
  phase

vars == <<known, nodes, candidateFunctions, dynamicBytes, total, todo, current,
          functions, phase>>
-------------------------------------------------------------------------------
\* commandCandidateLookup
CommandExists(name) ==
  /\ name \notin Controls
  /\ name \in DOMAIN Commands
  /\ Commands[name].executable
  /\ IF Commands[name].fallback THEN Commands[name].userOverride
     ELSE Commands[name].candidate

Matters(n) == Call[n] = Unnamed \/ CommandExists(Call[n])

\* Mutant: a file that is added later may call a candidate function of an
\* earlier one unnoticed.
CandidatesOf_Itself(f) == {n \in f : Matters(n)}
CandidatesOf(f) == {n \in f : Matters(n) \/ Call[n] \in candidateFunctions}

\* candidateIndexMaterialization
Size(f, source) == source + 2 * EntryBytes * Cardinality(f)

Init ==
  /\ known = {} /\ nodes = {} /\ candidateFunctions = {}
  /\ dynamicBytes = 0 /\ total = 0
  /\ todo = {} /\ current = NoNode /\ functions = {}
  /\ phase = "new"

Walk(f, bytes) ==
  /\ known' = known \cup f
  /\ todo'  = CandidatesOf(f)
  /\ total' = bytes
  /\ phase' = "marking"
  /\ UNCHANGED <<nodes, candidateFunctions, dynamicBytes, current, functions>>

\* The file that Execute is given must fit, but is not charged.
Build(f) ==
  /\ phase = "new"
  /\ Size(f, 0) <= Maximum
  /\ Walk(f, 0)

\* A file that does not fit is refused, and changes nothing.
AddDynamic(f) ==
  /\ phase = "ready"
  /\ f \cap known = {}
  /\ Cardinality({g \in Files : g \subseteq known}) < MaxFiles
  /\ dynamicBytes + Size(f, SourceBytes[f]) <= Maximum
  /\ Walk(f, dynamicBytes + Size(f, SourceBytes[f]))

\* The two loops at the end of add: candidates, then calls of functions.
Candidate ==
  /\ phase = "marking" /\ current = NoNode
  /\ \E n \in todo : current' = n /\ todo' = todo \ {n}
  /\ UNCHANGED <<known, nodes, candidateFunctions, dynamicBytes, total, functions, phase>>
Function ==
  /\ phase = "marking" /\ current = NoNode /\ todo = {}
  /\ \E name \in functions :
       /\ todo' = {n \in known : Call[n] = name}
       /\ functions' = functions \ {name}
  /\ UNCHANGED <<known, nodes, candidateFunctions, dynamicBytes, total, current, phase>>

\* mark, one node of it
Mark ==
  /\ phase = "marking" /\ current # NoNode
  /\ IF current \in nodes
     THEN current' = NoNode /\ UNCHANGED <<nodes, candidateFunctions, functions>>
     ELSE /\ nodes' = nodes \cup {current}
          /\ LET found == {Declares[current]} \ (candidateFunctions \cup {NoName})
             IN /\ candidateFunctions' = candidateFunctions \cup found
                /\ functions' = functions \cup found
          /\ current' = Parent[current]
  /\ UNCHANGED <<known, dynamicBytes, total, todo, phase>>

Done ==
  /\ phase = "marking" /\ current = NoNode /\ todo = {} /\ functions = {}
  /\ dynamicBytes' = total
  /\ phase' = "ready"
  /\ UNCHANGED <<known, nodes, candidateFunctions, total, todo, current, functions>>

\* The context is cancelled, which ends the simulation: the walk and the
\* loop over functions look at it.
Cancel ==
  /\ phase = "marking" /\ current = NoNode
  /\ phase' = "ended"
  /\ UNCHANGED <<known, nodes, candidateFunctions, dynamicBytes, total, todo, current, functions>>

Next == \/ \E f \in Files : Build(f) \/ AddDynamic(f)
        \/ Candidate \/ Function \/ Mark \/ Done \/ Cancel
Spec == Init /\ [][Next]_vars
-------------------------------------------------------------------------------
(* What the index should be: the least sets S of nodes and F of names in   *)
(* which every call that matters, or is of a name in F, has all the nodes  *)
(* above it in S, and a declaration in S has its name in F.                *)
Closed(S, F) ==
  /\ \A n \in known : Matters(n) \/ Call[n] \in F => n \in S
  /\ \A n \in S : Parent[n] = NoNode \/ Parent[n] \in S
  /\ \A n \in S : Declares[n] = NoName \/ Declares[n] \in F

(***************************************************************************)
(* When statements are evaluated, the index holds the statements and loops *)
(* from which a candidate command can be reached, through functions in any *)
(* order of declaration, call and addition, and no others                  *)
(* (candidates.go:96-179).  A statement it misses loses the executions in  *)
(* which something failed; one too many makes the program fork for         *)
(* nothing.                                                                *)
(***************************************************************************)
CandidatesExact ==
  phase = "ready" =>
    /\ Closed(nodes, candidateFunctions)
    /\ \A S \in SUBSET nodes, F \in SUBSET candidateFunctions :
         Closed(S, F) => S = nodes /\ F = candidateFunctions
===============================================================================
