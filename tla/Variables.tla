------------------------------ MODULE Variables ------------------------------
(***************************************************************************)
(* The variables of a shell state (internal/runtime: variables.go, and the *)
(* assignment helpers of expand.go) as operators on a record               *)
(*                                                                         *)
(*   data      the variables, by name                                      *)
(*   unknown   the names whose value is a placeholder                      *)
(*   indexed   the elements a sparse array has, by name                    *)
(*   versions  the revision at which a name was last written or unset      *)
(*   revision  the number of writes                                        *)
(*   bytes     materializedBytes, kept with every write                    *)
(*                                                                         *)
(* A text is a sequence of pieces of one byte.  Indices count from 0, as   *)
(* in the code; lists are sequences, which count from 1.  That maps are    *)
(* shared between copies of a state is CowState's subject.                 *)
(***************************************************************************)
EXTENDS Integers, Sequences, FiniteSetsExt, Functions

CONSTANTS EntryBytes, NameBytes(_), Maximum

\* The nil of indexedSlots: an array has all its elements.  No index is negative.
Dense == {-1}

\* expand.Variable without a value; "Unknown" is the library's zero kind.
Zero == [kind |-> "Unknown", str |-> <<>>, list |-> <<>>, map |-> <<>>,
         set |-> FALSE, exported |-> FALSE, readonly |-> FALSE]

NoVariables == [data |-> <<>>, unknown |-> {}, indexed |-> <<>>,
                versions |-> <<>>, revision |-> 0, bytes |-> 0]

\* The library's Variable.String.
Text(v) ==
  IF v.kind = "String" THEN v.str
  ELSE IF v.kind = "Indexed" /\ v.list # <<>> THEN Head(v.list)
  ELSE <<>>

With(f, n, x)  == [m \in DOMAIN f \cup {n} |-> IF m = n THEN x ELSE f[m]]
Without(f, n)  == Restrict(f, DOMAIN f \ {n})
At(f, n, x)    == IF n \in DOMAIN f THEN f[n] ELSE x
Ones(n)        == 0 .. n - 1
-------------------------------------------------------------------------------
Lookup(vs, n)  == At(vs.data, n, Zero)
Slots(vs, n)   == At(vs.indexed, n, Dense)
Version(vs, n) == At(vs.versions, n, 0)
Unknown(vs, n) == n \in vs.unknown

NameEntry(n) == EntryBytes + NameBytes(n)

TotalCost(S, cost(_)) == SumFunctionOnSet([x \in S |-> cost(x)], S)

ValueBytes(v) ==
  IF v.kind = "Indexed"
  THEN TotalCost(DOMAIN v.list, LAMBDA i : EntryBytes + Len(v.list[i]))
  ELSE IF v.kind = "Associative"
  THEN TotalCost(DOMAIN v.map, LAMBDA k : EntryBytes + 1 + Len(v.map[k]))
  ELSE Len(v.str)
EntryCost(n, v)    == NameEntry(n) + ValueBytes(v)
SlotCost(n, slots) == NameEntry(n) + EntryBytes * Cardinality(slots)

Normalize(slots, length) ==
  IF slots = Dense \/ length = 0 \/ Ones(length) \subseteq slots
  THEN Dense ELSE slots \cap Ones(length)
Explicit(slots, length) == IF slots = Dense THEN Ones(length) ELSE slots

\* What the entries of n cost before a write of n takes them away.
CostOf(vs, n) ==
  (IF n \in DOMAIN vs.data THEN EntryCost(n, vs.data[n]) ELSE 0)
  + (IF n \in DOMAIN vs.indexed THEN SlotCost(n, vs.indexed[n]) ELSE 0)
  + (IF n \in vs.unknown THEN NameEntry(n) ELSE 0)

\* markWritten: the first write of a name adds an entry that stays.
MarkCost(vs, n) == IF n \in DOMAIN vs.versions THEN 0 ELSE NameEntry(n)

Put(vs, n, v, unknown, slots) ==
  LET sparse == IF v.kind = "Indexed" THEN Normalize(slots, Len(v.list)) ELSE Dense
  IN [ data     |-> With(vs.data, n, v),
       unknown  |-> IF unknown THEN vs.unknown \cup {n} ELSE vs.unknown \ {n},
       indexed  |-> IF sparse = Dense THEN Without(vs.indexed, n)
                    ELSE With(vs.indexed, n, sparse),
       versions |-> With(vs.versions, n, vs.revision + 1),
       revision |-> vs.revision + 1,
       bytes    |-> vs.bytes - CostOf(vs, n) + EntryCost(n, v) + MarkCost(vs, n)
                    + (IF sparse = Dense THEN 0 ELSE SlotCost(n, sparse))
                    + (IF unknown THEN NameEntry(n) ELSE 0) ]

Delete(vs, n) ==
  [ data     |-> Without(vs.data, n),
    unknown  |-> vs.unknown \ {n},
    indexed  |-> Without(vs.indexed, n),
    versions |-> With(vs.versions, n, vs.revision + 1),
    revision |-> vs.revision + 1,
    bytes    |-> vs.bytes - CostOf(vs, n) + MarkCost(vs, n) ]

\* assignShellIndexedVariable: the attributes of the name stay.
AssignShell(vs, n, v, unknown, slots) ==
  LET current == Lookup(vs, n) IN
  Put(vs, n, [v EXCEPT !.exported = @ \/ current.exported,
                       !.readonly = current.readonly], unknown, slots)

\* What bytes should be, counted from what there is.
CountedBytes(vs) ==
    TotalCost(DOMAIN vs.data, LAMBDA n : EntryCost(n, vs.data[n]))
  + TotalCost(DOMAIN vs.indexed, LAMBDA n : SlotCost(n, vs.indexed[n]))
  + TotalCost(vs.unknown, NameEntry)
  + TotalCost(DOMAIN vs.versions, NameEntry)

\* What variables are: finite maps of values whose texts are sequences, with
\* the elements of an array in the form Normalize gives them, no version ahead
\* of the revision, and the bytes of what there is.
IsSeq(t) == t \in Seq(Range(t))
IsValue(v) ==
  /\ DOMAIN v = DOMAIN Zero
  /\ IsSeq(v.str) /\ IsSeq(v.list) /\ \A i \in DOMAIN v.list : IsSeq(v.list[i])
  /\ IsFiniteSet(DOMAIN v.map) /\ \A k \in DOMAIN v.map : IsSeq(v.map[k])
HasValues(vs) == \A n \in DOMAIN vs.data : IsValue(vs.data[n])
IsVars(vs) ==
  /\ HasValues(vs) /\ IsFiniteSet(DOMAIN vs.data)
  /\ vs.unknown \subseteq DOMAIN vs.data /\ DOMAIN vs.indexed \subseteq DOMAIN vs.data
  /\ \A n \in DOMAIN vs.indexed :
       /\ vs.data[n].kind = "Indexed" /\ vs.indexed[n] # Dense
       /\ vs.indexed[n] = Normalize(vs.indexed[n], Len(vs.data[n].list))
  /\ IsFiniteSet(DOMAIN vs.versions) /\ vs.revision \in Nat
  /\ \A n \in DOMAIN vs.versions : vs.versions[n] \in 1 .. vs.revision
  /\ vs.bytes = CountedBytes(vs)
-------------------------------------------------------------------------------
(***************************************************************************)
(* The new value of an assignment.  A result is [error, v, slots, unknown].*)
(***************************************************************************)
Result(v, slots, unknown) ==
  [error |-> "none", v |-> v, slots |-> slots, unknown |-> unknown]
Refused(why) == [error |-> why, v |-> Zero, slots |-> Dense, unknown |-> FALSE]

Concat(s, t, append) == IF append THEN s \o t ELSE t

\* extendIndexedArray
Fits(index)         == index + 1 <= Maximum \div EntryBytes
Extend(list, index) ==
  [i \in 1 .. (IF index < Len(list) THEN Len(list) ELSE index + 1) |->
     IF i <= Len(list) THEN list[i] ELSE <<>>]

\* setIndexedSlot
SetSlot(slots, length, index) ==
  IF slots = Dense /\ index <= length THEN Dense
  ELSE Normalize(Explicit(slots, length) \cup {index},
                 IF length > index THEN length ELSE index + 1)

\* appendIndexedSlots
AppendSlots(current, addition, slots, added) ==
  IF current.kind # "Indexed" \/ (slots = Dense /\ added = Dense) THEN Dense
  ELSE LET n == Len(current.list) IN
       Normalize(Explicit(slots, n)
                   \cup {n + i : i \in Explicit(added, Len(addition.list))},
                 n + Len(addition.list))

\* An array takes a scalar as its element 0 (scalarArrayAssignment).
TakesScalar(current) == current.kind \in {"Indexed", "Associative"}
ScalarIntoArray(current, text, append) ==
  IF current.kind = "Indexed"
  THEN LET longer == Extend(current.list, 0) IN
       [current EXCEPT !.set = TRUE,
          !.list = [longer EXCEPT ![1] = Concat(@, text, append)]]
  ELSE [current EXCEPT !.set = TRUE,
          !.map = With(@, 0, Concat(At(@, 0, <<>>), text, append))]

\* name[index]=text (assignmentValue)
Element(current, slots, index, text, append) ==
  IF current.kind = "Associative"
  THEN [v |-> [current EXCEPT !.set = TRUE,
                 !.map = With(@, index, Concat(At(@, index, <<>>), text, append))],
        slots |-> Dense]
  ELSE LET
      list   == IF current.kind = "String" /\ current.set THEN <<current.str>>
                ELSE current.list
      longer == Extend(list, index)
  IN [v |-> [current EXCEPT !.kind = "Indexed", !.str = <<>>, !.set = TRUE,
               !.list = [longer EXCEPT ![index + 1] = Concat(@, text, append)]],
      slots |-> SetSlot(slots, Len(list), index)]

\* name+=value, where an array does not take a scalar (appendVariable).
Appended(current, addition) ==
  IF ~current.set THEN addition
  ELSE IF addition.kind = "String"
  THEN [current EXCEPT !.kind = "String", !.str = @ \o addition.str]
  ELSE [current EXCEPT !.kind = "Indexed", !.str = <<>>,
          !.list = (IF current.kind = "String" THEN <<current.str>> ELSE @)
                     \o addition.list]
===============================================================================
