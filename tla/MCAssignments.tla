---------------------------- MODULE MCAssignments ----------------------------
(* Lists of assignments small enough for TLC. *)
EXTENDS Assignments

a == <<"a">>
MCName == {"x", "y"}
MCNameBytes(n) == 1

\* x holds the output of a command that is not known, and is exported.
Exported(v) == [v EXCEPT !.exported = TRUE]
Start(text) == Put(NoVariables, "x", Exported(Scalar(text)), TRUE, Dense)
MCInitialVars  == Start(<<>>)
MCInitialTruth == Start(a)

Known(text) == [from |-> "", text |-> text]
Of(n)       == [from |-> n, text |-> <<>>]
Index(n)    == [known |-> TRUE, at |-> n]
Assign(n, form, append, index, word, elems) ==
  [name |-> n, form |-> form, append |-> append, index |-> index, word |-> word,
   elems |-> elems]
Plain(n, append, word) == Assign(n, "scalar", append, Index(0), word, <<>>)

MCTexts == {a \o a}
MCTargets == {"x"}
MCLists == {
  <<Plain("x", FALSE, Known(a))>>,
  <<Plain("y", TRUE, Of("x"))>>,
  <<Assign("x", "array", TRUE, Index(0), Known(a),
           << [index |-> 1, word |-> Known(a)] >>)>>,
  <<Plain("y", FALSE, Known(a)), Assign("x", "element", TRUE, Index(-1), Known(a), <<>>)>> }
===============================================================================
