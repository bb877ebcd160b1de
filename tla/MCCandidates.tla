----------------------------- MODULE MCCandidates -----------------------------
(***************************************************************************)
(* Candidates on files of one or two statements: calls of a candidate      *)
(* command, of another command, of functions and of a word that is not a   *)
(* literal; declarations of functions that call such, one within another,  *)
(* and in a block.                                                         *)
(***************************************************************************)
EXTENDS Candidates, Sequences

\* A tree is a sequence of nodes, each with the position of the one around it.
Root          == [up |-> 0, call |-> "none", declares |-> "nothing"]
Calls(up, n)  == [up |-> up, call |-> n, declares |-> "nothing"]
Decl(up, n)   == [up |-> up, call |-> "none", declares |-> n]
Block(up)     == Calls(up, "none")

Trees ==
  { <<Root, Calls(1, n)>> : n \in {"f", "g", "cmd", "other", ""} }
  \cup { <<Root, Decl(1, m), Calls(2, n)>> : m \in {"f", "g"}, n \in {"f", "g", "cmd", "other"} }
  \cup { <<Root, Decl(1, "f"), Calls(2, "g"), Block(1), Calls(4, "f")>>,
         <<Root, Decl(1, "f"), Decl(2, "g"), Calls(3, "cmd"), Calls(1, "g")>>,
         <<Root, Block(1), Decl(2, "g"), Calls(3, "f"), Calls(1, "f")>> }

Indices == UNION { {<<t, i>> : i \in DOMAIN t} : t \in Trees }
MCNoNode   == <<>>
MCNode     == Indices
MCName     == {"f", "g", "cmd", "other", "break"}
MCParent   == [n \in Indices |-> IF n[2] = 1 THEN MCNoNode ELSE <<n[1], n[1][n[2]].up>>]
MCCall     == [n \in Indices |-> n[1][n[2]].call]
MCDeclares == [n \in Indices |-> n[1][n[2]].declares]
MCFiles    == { {<<t, i>> : i \in DOMAIN t} : t \in Trees }
MCSource   == [f \in MCFiles |-> Cardinality(f)]
MCCommands ==
  LET d == [executable |-> TRUE, fallback |-> FALSE, userOverride |-> FALSE, candidate |-> TRUE]
  IN [n \in {"cmd", "other", "break"} |-> [d EXCEPT !.candidate = n # "other"]]
===============================================================================
