------------------------------ MODULE Expansion ------------------------------
(***************************************************************************)
(* Words, shell arithmetic, tests and case patterns (internal/runtime:     *)
(* expand.go, arithmetic.go, certainty.go, condition.go, branch.go).       *)
(*                                                                         *)
(* A command substitution is not evaluated where it stands: the expansion  *)
(* that meets it fails with a request, what it assigned is taken back, the *)
(* substitution is evaluated, and the expansion starts again with its      *)
(* output.  What a word depends on is decided beside its value: the output *)
(* of a substitution or the value of a variable may be unknown, in which   *)
(* case what is there is a placeholder.                                    *)
(*                                                                         *)
(* Words are taken as quoted, so that one gives one field.  The library's  *)
(* part (looking a parameter up and applying ${x:-word} and its like, left *)
(* to right) is modelled by LibraryPart.                                   *)
(*                                                                         *)
(* A word is a sequence of parts; a part is a record whose field "part" is *)
(*   lit      text                                                         *)
(*   param    name, excl (${!x}), index (<<>> or <<x>>), slice (offset and *)
(*            length, as far as given), op (":-" ... or ""), word          *)
(*   arith    $((x))                     subst    $(...), known by its id  *)
(* An expression is a record whose field "node" is one of word, unary,     *)
(* step (++ and --), binary, if, and, or, comma, set.                      *)
(***************************************************************************)
EXTENDS Variables, Numbers

CONSTANTS
  Parsed,     \* the texts that parse as expressions, with what they parse to
  HostNames,  \* the parameters that only a real shell knows
  Rematch     \* the name BASH_REMATCH

\* Errors are sequences, so that they can be compared; Ok is the absence of one.
Ok      == <<>>
Invalid == <<"invalid">>
Unclear == <<"unknown">>   \* unknownValueError
Host    == <<"host">>
Request(id)     == <<"request", id>>
Requested(err)  == err # Ok /\ Head(err) = "request"

Limit   == <<"limit">>
Answer(v, st)    == [v |-> v, st |-> st, err |-> Ok]
Fail(err, st)    == [v |-> 0, st |-> st, err |-> err]
Then(r, K(_, _)) == IF r.err # Ok THEN r ELSE K(r.v, r.st)
Restored(r, st)  == IF r.err # Ok THEN [r EXCEPT !.st = st] ELSE r
\* Mutant: an expression that meets a substitution keeps what it assigned.
Retried_Kept(r, st) == r
Retried(r, st)   == IF Requested(r.err) THEN [r EXCEPT !.st = st] ELSE r

Scalar(text) == [Zero EXCEPT !.kind = "String", !.set = TRUE, !.str = text]

-------------------------------------------------------------------------------
(* What a word mentions.  Substitutions are evaluated in a shell of their  *)
(* own, and nothing in them counts.                                        *)

LiteralText(w) == IF \A i \in DOMAIN w : w[i].part = "lit"
                  THEN FlattenSeq([i \in DOMAIN w |-> w[i].text]) ELSE <<>>

RECURSIVE WordNodes(_, _), ExprNodes(_)
\* In arithmetic a word of its own is the name of a variable.
WordNodes(w, arith) ==
  (IF arith /\ LiteralText(w) # <<>> THEN {[part |-> "name", text |-> LiteralText(w)]} ELSE {})
  \cup UNION { {w[i]} \cup
       (CASE w[i].part = "param" ->
               UNION {ExprNodes(x) : x \in Range(w[i].index) \cup Range(w[i].slice)}
                 \cup WordNodes(w[i].word, arith)
          [] w[i].part = "element" -> ExprNodes(w[i].x)
          [] w[i].part = "arith"   -> ExprNodes(w[i].x)
          [] OTHER -> {}) : i \in DOMAIN w }
Operands(x) ==
  CASE x.node = "word" -> <<>>     [] x.node = "unary" -> <<x.x>>
    [] x.node = "step" -> <<>>     [] x.node = "set" -> <<x.y>>
    [] x.node = "if" -> <<x.c, x.x, x.y>>
    [] OTHER -> <<x.x, x.y>>
ExprNodes(x) ==
  {[part |-> x.node]}
  \cup UNION {ExprNodes(y) : y \in Range(Operands(x))}
  \cup (IF x.node = "word" THEN WordNodes(x.word, TRUE)
        ELSE IF x.node \in {"step", "set"} THEN WordNodes(x.target, TRUE) ELSE {})

\* a[text], of which the code takes the text between the brackets
IsElement(text) ==
  /\ Len(text) > 2 /\ Last(text) = Close
  /\ \E k \in 2 .. Len(text) - 1 :
       text[k] = Open /\ Open \notin Range(SubSeq(text, 1, k - 1))
         /\ ValidName(SubSeq(text, 1, k - 1))
Base(text) ==
  IF IsElement(text)
  THEN SubSeq(text, 1, Min({k \in DOMAIN text : text[k] = Open}) - 1) ELSE text
Subscript(text) == SubSeq(text, Len(Base(text)) + 2, Len(text) - 1)

\* arithmeticNodeMayMutate
MayMutate(nodes) == \E n \in nodes : n.part \in {"step", "set"}

\* collectionElement
ElementOf(vars, ref) ==
  LET v == Lookup(vars, ref.name)
      at(text) == [v EXCEPT !.kind = "String", !.str = text, !.set = TRUE, !.list = <<>>]
      none     == [v EXCEPT !.kind = "String", !.str = <<>>, !.set = FALSE, !.list = <<>>]
  IN IF v.kind # "Indexed"
     THEN IF ref.index = 0 /\ v.set THEN at(Text(v)) ELSE none
     ELSE IF ref.index \in Explicit(Slots(vars, ref.name), Len(v.list)) \cap Ones(Len(v.list))
     THEN at(v.list[ref.index + 1]) ELSE none

\* parameterExpansionWordNeeded
Sparse(vars, n) == Lookup(vars, n).kind = "Indexed" /\ Slots(vars, n) # Dense
First(vars, n)  == IF Sparse(vars, n) THEN ElementOf(vars, [name |-> n, index |-> 0])
                   ELSE Lookup(vars, n)
Present(v, op) == v.set /\ (op \in {":-", ":=", ":+", ":?"} => Text(v) # <<>>)
Needed(vars, p) ==
  p.index # <<>> \/ p.op = "" \/ (Present(First(vars, p.name), p.op) <=> p.op \in {"+", ":+"})

\* maskInactiveParameterWords: what is not needed is taken out of the tree.
RECURSIVE MaskWord(_, _), MaskExpr(_, _)
MaskWord(vars, w) ==
  [i \in DOMAIN w |->
     CASE w[i].part = "param" ->
            [w[i] EXCEPT !.word  = IF Needed(vars, w[i]) THEN MaskWord(vars, @) ELSE <<>>,
                         !.index = [k \in DOMAIN @ |-> MaskExpr(vars, @[k])],
                         !.slice = [k \in DOMAIN @ |-> MaskExpr(vars, @[k])]]
       [] w[i].part \in {"arith", "element"} -> [w[i] EXCEPT !.x = MaskExpr(vars, @)]
       [] OTHER -> w[i]]
MaskExpr(vars, x) ==
  CASE x.node = "word"  -> [x EXCEPT !.word = MaskWord(vars, @)]
    [] x.node = "unary" -> [x EXCEPT !.x = MaskExpr(vars, @)]
    [] x.node = "step"  -> [x EXCEPT !.target = MaskWord(vars, @)]
    [] x.node = "set"   -> [x EXCEPT !.target = MaskWord(vars, @), !.y = MaskExpr(vars, @)]
    [] x.node = "if"    -> [x EXCEPT !.c = MaskExpr(vars, @), !.x = MaskExpr(vars, @),
                                     !.y = MaskExpr(vars, @)]
    [] OTHER -> [x EXCEPT !.x = MaskExpr(vars, @), !.y = MaskExpr(vars, @)]

\* parameterValueUnknown
ParamUnknown(vars, p) ==
  /\ Unknown(vars, p.name)
  /\ p.op # "+"
  /\ p.op \in {"-", "?", "="} => Lookup(vars, p.name).set

\* Mutant: ${x:-word} and its like are taken for known.
DataUnknown_NotNested(out, vars, nodes) ==
  \E n \in nodes :
    \/ n.part = "subst" /\ n.id \in DOMAIN out /\ out[n.id].unknown
    \/ n.part = "param" /\ n.op = "" /\ ParamUnknown(vars, n)
    \/ n.part = "name" /\ Unknown(vars, Base(n.text))
\* unmaskedWordCertainty, unmaskedArithmeticCertainty
DataUnknown(out, vars, nodes) ==
  \E n \in nodes :
    \/ n.part = "subst" /\ n.id \in DOMAIN out /\ out[n.id].unknown
    \/ n.part \in {"param", "element"} /\ ParamUnknown(vars, n)
    \/ n.part = "name" /\ Unknown(vars, Base(n.text))
HostUnknown(nodes) ==
  \E n \in nodes : \/ n.part \in {"param", "element"} /\ n.name \in HostNames
                   \/ n.part = "name" /\ Base(n.text) \in HostNames

WordFacts(vars, w) == WordNodes(MaskWord(vars, w), FALSE)
ExprFacts(vars, x) == ExprNodes(MaskExpr(vars, x))
AnyUnknown(out, vars, nodes) == HostUnknown(nodes) \/ DataUnknown(out, vars, nodes)
WordUnknown(out, vars, w) == AnyUnknown(out, vars, WordFacts(vars, w))
ExprUnknown(out, vars, x) == AnyUnknown(out, vars, ExprFacts(vars, x))

\* validateUnknownParameterExpansions: whether an unknown value is empty
\* decides which word counts.
UnknownChoice(vars, nodes) ==
  \E n \in nodes : /\ n.part = "param" /\ n.op \in {":-", ":=", ":+", ":?"}
                   /\ Unknown(vars, n.name)
\* normalizeArithmeticLiterals refuses what is written as a number and is none.
Bad(literal) == literal.recognized /\ ~literal.ok
BadLiteral(nodes) == \E n \in nodes : n.part = "name" /\ Bad(Literal(n.text))
-------------------------------------------------------------------------------
(* Evaluation.  A step takes the variables and the references of an        *)
(* arithmetic expression, st, and gives [v, st, err].  A context c has the *)
(* outputs of substitutions, whether it is arithmetic, and the names that  *)
(* are being resolved.                                                     *)

St(vars) == [vars |-> vars, refs |-> <<>>]

SetVariable(st, n, text) ==
  IF Lookup(st.vars, n).readonly THEN Fail(Invalid, st)
  ELSE Answer(0, [st EXCEPT !.vars = Put(@, n, Scalar(text), FALSE, Dense)])
SetElement(st, ref, text) ==
  LET v == Lookup(st.vars, ref.name)
      e == Element(v, Slots(st.vars, ref.name), ref.index, text, FALSE)
  IN IF v.readonly THEN Fail(Invalid, st)
     ELSE IF ~Fits(ref.index) THEN Fail(Limit, st)
     ELSE Answer(0, [st EXCEPT !.vars =
            Put(@, ref.name, e.v, Unknown(@, ref.name), e.slots)])

\* strconv.Atoi, ParseArithmetic
Parse(text) ==
  IF Literal(text).recognized \/ ValidName(text)
  THEN {[node |-> "word", word |-> <<[part |-> "lit", text |-> text]>>]}
  ELSE {Parsed[t] : t \in DOMAIN Parsed \cap {text}}

\* Expressions have words, words have expressions, and tests and commands have
\* both: all that there is to do is one recursive operator, defined at the end.
RECURSIVE Perform(_, _, _, _)
Evaluate(c, st, x)          == Perform("expression", c, st, x)
EvaluateText(c, st, text)   == Perform("text", c, st, text)
LibraryWord(c, st, w)       == Perform("word", c, st, w)
Get(c, st, n)               == Perform("get", c, st, n)
Assign(c, st, n, text)      == Perform("assign", c, st, <<n, text>>)
EvaluateReference(c, st, n) == Perform("reference", c, st, n)
Context(out, arith)         == [out |-> out, arith |-> arith, resolving |-> {}]
ArithmeticValue(out, st, x) == Perform("arithmetic", Context(out, TRUE), st, x)
Expand(out, st, w)          == Perform("expansion", Context(out, FALSE), st, w)
TestTruth(out, st, t)       == Perform("test", Context(out, FALSE), st, t)
ItemTruth(out, st, subject, patterns) ==
  Perform("patterns", Context(out, FALSE), st, [subject |-> subject, patterns |-> patterns])
Run(out, vars, c)           == Perform("command", Context(out, FALSE), St(vars), c)

\* collectionReference
Reference(out, st, n, x) ==
  IF DataUnknown(out, st.vars, ExprFacts(st.vars, x)) THEN Fail(Unclear, st)
  ELSE IF HostUnknown(ExprFacts(st.vars, x)) THEN Fail(Host, st)
  ELSE Then(ArithmeticValue(out, st, x), LAMBDA i, s :
         IF i < 0 THEN Fail(Invalid, s) ELSE Answer([name |-> n, index |-> i], s))

\* bashArithmeticEnvironment.arrayReference, which keeps what it finds
Parsing(st, parses, K(_)) ==  \* there is at most one
  IF parses = {} THEN Fail(Invalid, st) ELSE K(CHOOSE x \in parses : TRUE)
TextReference(c, st, text) ==
  Parsing(st, Parse(Subscript(text)), LAMBDA x :
    Then(ArithmeticValue(c.out, st, x), LAMBDA i, s :
      IF i < 0 THEN Fail(Invalid, s)
      ELSE Answer(0, [s EXCEPT !.refs = With(@, text, [name |-> Base(text), index |-> i])])))
Resolved(c, st, n) ==
  IF n \in DOMAIN st.refs \/ ~(c.arith /\ IsElement(n)) THEN Answer(0, st)
  ELSE TextReference(c, st, n)

\* bashArithmeticEnvironment.Get: numbers are read as decimal ones.
InDecimal(s, v, literal) ==
  IF ~literal.recognized THEN Answer(v, s)
  ELSE IF literal.ok THEN Answer([v EXCEPT !.str = Format(literal.value)], s)
  ELSE Fail(Invalid, s)
GetVariable(c, s, v) ==
  IF c.arith /\ v.kind = "String" THEN InDecimal(s, v, Literal(v.str)) ELSE Answer(v, s)
ValueOfName(c, st, n) ==
  Then(Resolved(c, st, n), LAMBDA u, s :
    IF n \in DOMAIN s.refs THEN Answer(ElementOf(s.vars, s.refs[n]), s)
    ELSE GetVariable(c, s, Lookup(s.vars, n)))
AssignName(c, st, n, text) ==
  Then(Resolved(c, st, n), LAMBDA u, s :
    IF n \in DOMAIN s.refs THEN SetElement(s, s.refs[n], text) ELSE SetVariable(s, n, text))

\* evaluateReference: a name that is met again while it is resolved is refused.
ReferenceValue(c, st, n) ==
  IF n \in c.resolving THEN Fail(Invalid, st)
  ELSE Then(Get(c, st, n), LAMBDA v, s :
         IF ~v.set THEN Answer(0, s)
         ELSE EvaluateText([c EXCEPT !.resolving = @ \cup {n}], s, Text(v)))
TextValue(c, st, text) ==
  LET Other == IF ValidName(text) \/ IsElement(text) \/ text \in DOMAIN st.refs
               THEN EvaluateReference(c, st, text)
               ELSE Parsing(st, Parse(text), LAMBDA x : Evaluate(c, st, x))
      OfLiteral(literal) == IF ~literal.recognized THEN Other
                          ELSE IF literal.ok THEN Answer(literal.value, st) ELSE Fail(Invalid, st)
  IN IF text = <<>> THEN Answer(0, st) ELSE OfLiteral(Literal(text))

\* The name of a target: an element has one that no variable can have.
Nul == -1
Target(w) == IF Len(w) = 1 /\ w[1].part = "element" THEN <<Nul, w[1].at>> ELSE LiteralText(w)

Modify(c, st, x, New(_, _)) ==
  LET n == Target(x.target) IN
  IF n = <<>> THEN Fail(Invalid, st)
  ELSE Then(EvaluateReference(c, st, n), LAMBDA old, s : New(old, s))

ExpressionValue(c, st, x) ==
  LET Store(n, v, s, given) == Then(Assign(c, s, n, Format(v)), LAMBDA u, t : Answer(given, t))
      Operate(sign, a, b, s, K(_, _)) ==
        LET r == Apply(sign, a, b) IN IF r.ok THEN K(r.value, s) ELSE Fail(Invalid, s)
  IN CASE x.node = "word" ->
            Then(LibraryWord(c, st, x.word), LAMBDA t, s : EvaluateText(c, s, t))
       [] x.node = "unary" ->
            Then(Evaluate(c, st, x.x), LAMBDA a, s : Answer(ApplyUnary(x.sign, a), s))
       [] x.node = "step" -> Modify(c, st, x, LAMBDA old, s :
            LET new == Wrap(old + x.by) IN
            Store(Target(x.target), new, s, IF x.post THEN old ELSE new))
       [] x.node = "if" -> Then(Evaluate(c, st, x.c), LAMBDA a, s :
            Evaluate(c, s, IF a # 0 THEN x.x ELSE x.y))
       [] x.node = "and" -> Then(Evaluate(c, st, x.x), LAMBDA a, s :
            IF a = 0 THEN Answer(0, s)
            ELSE Then(Evaluate(c, s, x.y), LAMBDA b, t : Answer(Truth(b # 0), t)))
       [] x.node = "or" -> Then(Evaluate(c, st, x.x), LAMBDA a, s :
            IF a # 0 THEN Answer(1, s)
            ELSE Then(Evaluate(c, s, x.y), LAMBDA b, t : Answer(Truth(b # 0), t)))
       [] x.node = "comma" -> Then(Evaluate(c, st, x.x), LAMBDA a, s : Evaluate(c, s, x.y))
       [] x.node = "set" ->
            IF Target(x.target) = <<>> THEN Fail(Invalid, st)
            ELSE IF x.sign = ""
            THEN Then(Evaluate(c, st, x.y), LAMBDA b, s : Store(Target(x.target), b, s, b))
            ELSE Modify(c, st, x, LAMBDA old, s : Then(Evaluate(c, s, x.y), LAMBDA b, t :
                   Operate(x.sign, old, b, t, LAMBDA v, q : Store(Target(x.target), v, q, v))))
       [] OTHER -> Then(Evaluate(c, st, x.x), LAMBDA a, s :
            Then(Evaluate(c, s, x.y), LAMBDA b, t : Operate(x.sign, a, b, t, Answer)))

\* The elements that an expression assigns, in the order of the text; their
\* indices are evaluated before anything else (prepareArithmeticCollectionMutations).
RECURSIVE Elements(_)
Elements(x) ==
  (IF x.node \in {"step", "set"} /\ Len(x.target) = 1 /\ x.target[1].part = "element"
   THEN x.target ELSE <<>>)
  \o FlattenSeq([i \in DOMAIN Operands(x) |-> Elements(Operands(x)[i])])
References(out, st, elements) ==
  FoldLeft(LAMBDA r, el : Then(r, LAMBDA refs, s :
      Then(Reference(out, s, el.name, el.x), LAMBDA ref, t :
        Answer(With(refs, <<Nul, el.at>>, ref), t))),
    Answer(<<>>, st), elements)

\* What it assigns is taken back only when it has to start again.
\* The references that were found end with the expression.
OnlyVars(r, st) == [r EXCEPT !.st = [st EXCEPT !.vars = r.st.vars]]
Checked(st, facts, r) ==
  IF UnknownChoice(st.vars, facts) THEN Fail(Unclear, st)
  ELSE IF BadLiteral(facts) THEN Fail(Invalid, st)
  ELSE r
ArithmeticResult(c, st, x) ==
  Checked(st, ExprFacts(st.vars, x),
    Retried(OnlyVars(
      Then(References(c.out, st, Elements(MaskExpr(st.vars, x))), LAMBDA refs, s :
        Evaluate(c, [s EXCEPT !.refs = refs], MaskExpr(st.vars, x))), st), st))
-------------------------------------------------------------------------------
(* The library: the parts of a word from left to right. *)

Choose(c, st, v, p, Store(_, _)) ==
  CASE p.op = "" -> Answer(Text(v), st)
    [] p.op \in {"+", ":+"} ->
         IF Present(v, p.op) THEN LibraryWord(c, st, p.word) ELSE Answer(<<>>, st)
    [] Present(v, p.op) -> Answer(Text(v), st)
    [] p.op \in {"-", ":-"} -> LibraryWord(c, st, p.word)
    [] p.op \in {"?", ":?"} ->
         Then(LibraryWord(c, st, p.word), LAMBDA t, s : Fail(Invalid, s))
    [] OTHER -> Then(LibraryWord(c, st, p.word), LAMBDA t, s :
         Then(Store(t, s), LAMBDA u, q : Answer(t, q)))

LibraryPart(c, st, p) ==
  CASE p.part = "lit" -> Answer(p.text, st)
    [] p.part = "subst" ->
         IF p.id \in DOMAIN c.out THEN Answer(c.out[p.id].text, st)
         ELSE Fail(Request(p.id), st)
    [] p.part = "value" -> Choose(c, st, p.value, p, LAMBDA t, s :
         IF p.ref = <<>> THEN Answer(0, s) ELSE SetElement(s, p.ref[1], t))
    [] p.part = "param" -> Then(Get(c, st, p.name), LAMBDA v, s :
         IF p.excl THEN Then(Get(c, s, Text(v)), LAMBDA w, t : Answer(Text(w), t))
         ELSE Choose(c, s, v, p, LAMBDA t, q : Assign(c, q, p.name, t)))

WordText(c, st, w) ==
  IF w = <<>> THEN Answer(<<>>, st)
  ELSE Then(LibraryPart(c, st, Head(w)), LAMBDA t, s :
         Then(LibraryWord(c, s, Tail(w)), LAMBDA u, q : Answer(t \o u, q)))
-------------------------------------------------------------------------------
(* Words. *)

\* sliceScalarValue: where a slice of so many characters starts and ends.
SliceStart(count, offset) ==
  IF offset < 0 THEN IF offset < -count THEN count ELSE offset + count
  ELSE IF offset > count THEN count ELSE offset
NoSlice == [ok |-> FALSE, start |-> 0, end |-> 0]
\* Mutant: a negative length is not compared with where the slice starts.
Slice_Unchecked(count, offset, length) ==
  LET start == SliceStart(count, offset) IN
  IF length = <<>> THEN [ok |-> TRUE, start |-> start, end |-> count]
  ELSE IF length[1] < 0 THEN
    IF length[1] < -count THEN NoSlice
    ELSE [ok |-> TRUE, start |-> start, end |-> count + length[1]]
  ELSE [ok |-> TRUE, start |-> start,
        end |-> IF length[1] < count - start THEN start + length[1] ELSE count]
Slice(count, offset, length) ==
  LET start == SliceStart(count, offset) IN
  IF length = <<>> THEN [ok |-> TRUE, start |-> start, end |-> count]
  ELSE IF length[1] < 0 THEN
    IF length[1] < -count \/ count + length[1] < start THEN NoSlice
    ELSE [ok |-> TRUE, start |-> start, end |-> count + length[1]]
  ELSE [ok |-> TRUE, start |-> start,
        end |-> IF length[1] < count - start THEN start + length[1] ELSE count]

SliceValue(out, st, v, slice) ==
  LET text == Text(v)
      Cut(offset, length, s) ==
        LET r == Slice(Len(text), offset, length) IN
        IF ~r.ok THEN Fail(Invalid, s)
        ELSE Answer([v EXCEPT !.kind = "String", !.list = <<>>,
                       !.str = SubSeq(text, r.start + 1, r.end)], s)
  IN Then(ArithmeticValue(out, st, slice[1]), LAMBDA offset, s :
       IF Len(slice) = 1 THEN Cut(offset, <<>>, s)
       ELSE Then(ArithmeticValue(out, s, slice[2]), LAMBDA length, t :
              Cut(offset, <<length>>, t)))

\* prepareParameterExpansions: the value of an element or of a slice is found
\* before the library sees the word; assigning it assigns the element.
ValueOf(out, st, p) ==
  LET v == Lookup(st.vars, p.name)
      Final(ref, value, s) == Answer([part |-> "value", value |-> value, ref |-> ref,
                                      op |-> p.op, word |-> p.word], s)
      Reach(ref, s) ==
        IF p.slice = <<>> THEN Final(<<ref>>, ElementOf(s.vars, ref), s)
        ELSE Then(SliceValue(out, s, ElementOf(s.vars, ref), p.slice),
                  LAMBDA w, t : Final(<<ref>>, w, t))
  IN IF p.excl THEN Answer(p, st)
     ELSE IF p.index # <<>> THEN Then(Reference(out, st, p.name, p.index[1]), Reach)
     ELSE IF p.slice # <<>>
     THEN Then(SliceValue(out, st, v, p.slice), LAMBDA w, s : Final(<<>>, w, s))
     ELSE IF Sparse(st.vars, p.name) THEN Reach([name |-> p.name, index |-> 0], st)
     ELSE Answer(p, st)

Map(Op(_, _), st, w) ==
  FoldLeft(LAMBDA r, p : Then(r, LAMBDA done, s :
      Then(Op(p, s), LAMBDA q, t : Answer(Append(done, q), t))), Answer(<<>>, st), w)

RECURSIVE PrepareParameters(_, _, _), PrepareArithmetic(_, _, _)
PrepareParameters(out, st, w) ==
  Map(LAMBDA p, s :
        IF p.part # "param" THEN Answer(p, s)
        ELSE Then(ValueOf(out, s, p), LAMBDA q, t :
               Then(PrepareParameters(out, t, q.word), LAMBDA inner, z :
                 Answer([q EXCEPT !.word = inner], z))), st, w)

\* prepareArithmeticExpansions: all of the word, before any of it is expanded.
PrepareArithmetic(out, st, w) ==
  Map(LAMBDA p, s :
        CASE p.part = "arith" -> Then(ArithmeticValue(out, s, p.x), LAMBDA n, t :
               Answer([part |-> "lit", text |-> Format(n)], t))
          [] p.part \in {"param", "value"} ->
               Then(PrepareArithmetic(out, s, p.word), LAMBDA inner, t :
                 Answer([p EXCEPT !.word = inner], t))
          [] OTHER -> Answer(p, s), st, w)

\* expandWordValue, and what expandFields does with each word
ExpandedWord(c, st, w) ==
  IF BadLiteral(WordFacts(st.vars, w)) THEN Fail(Invalid, st)
  ELSE IF UnknownChoice(st.vars, WordFacts(st.vars, w)) THEN Fail(Unclear, st)
  ELSE Then(PrepareParameters(c.out, st, MaskWord(st.vars, w)), LAMBDA p, s :
         Then(PrepareArithmetic(c.out, s, p), LAMBDA q, t : LibraryWord(c, t, q)))

ExpandWord(out, st, w) == Restored(Expand(out, st, w), st)

\* expandFields: a field is [known, text]; an error takes all words back.
Field(out, st, w) ==
  LET facts == WordFacts(st.vars, w)
      host  == HostUnknown(facts)
      data  == DataUnknown(out, st.vars, facts)
  IN Then(Expand(out, st, w), LAMBDA t, s :
       Answer([known |-> ~host /\ ~data, text |-> IF host THEN <<>> ELSE t], s))
ExpandFields(out, st, words) == Restored(Map(LAMBDA w, s : Field(out, s, w), st, words), st)
-------------------------------------------------------------------------------
(* Tests: a truth is "true", "false" or "unknown" (condition.go). *)

FromBool(b) == IF b THEN "true" ELSE "false"
Invert(v)   == IF v = "unknown" THEN v ELSE FromBool(v = "false")
Combine(l, r, decisive, otherwise) ==
  IF decisive \in {l, r} THEN decisive
  ELSE IF "unknown" \in {l, r} THEN "unknown" ELSE otherwise
Failure(code) == <<"failure", code>>

\* testWord: [text, unknown]
TestedWord(r, host, data) ==
  IF host THEN IF Requested(r.err) THEN r ELSE Answer([text |-> <<>>, unknown |-> TRUE], r.st)
  ELSE Then(r, LAMBDA t, s : Answer([text |-> t, unknown |-> data], s))
TestWord(out, st, w) ==
  TestedWord(ExpandWord(out, st, w), HostUnknown(WordFacts(st.vars, w)),
             DataUnknown(out, st.vars, WordFacts(st.vars, w)))

\* A pattern; what the host has is not set aside before it is expanded.
PatternWord(out, st, w) ==
  Then(ExpandWord(out, st, w), LAMBDA t, s :
    Answer([text |-> t, unknown |-> WordUnknown(out, st.vars, w)], s))
\* The library's patterns: * is the only one here that is not itself.
Matches(text, pat) == pat = <<Star>> \/ text = pat

\* variableSetTruth
IsSet(out, st, text) ==
  IF ~IsElement(text)
  THEN Answer(IF Unknown(st.vars, text) THEN "unknown" ELSE FromBool(Lookup(st.vars, text).set), st)
  ELSE IF Unknown(st.vars, Base(text)) THEN Answer("unknown", st)
  ELSE LET r == Reference(out, st, Base(text), [node |-> "word",
                   word |-> <<[part |-> "lit", text |-> Subscript(text)]>>]) IN
       IF r.err = Unclear THEN Answer("unknown", r.st)
       ELSE Then(r, LAMBDA ref, s : Answer(FromBool(ElementOf(s.vars, ref).set), s))

\* arithmeticTestValue: [n, unknown]
Wrong(r) == IF r.err # Ok THEN Fail(Failure(1), r.st) ELSE r
TestExpression(out, st, x) ==
  IF ExprUnknown(out, st.vars, x) THEN Answer([n |-> 0, unknown |-> TRUE], st)
  ELSE Then(ArithmeticValue(out, st, x), LAMBDA n, s : Answer([n |-> n, unknown |-> FALSE], s))
TestNumber(out, st, text, literal) ==
  IF ~literal.recognized
  THEN Wrong(Parsing(st, Parse(text), LAMBDA x : TestExpression(out, st, x)))
  ELSE IF literal.ok THEN Answer([n |-> literal.value, unknown |-> FALSE], st)
  ELSE Fail(Failure(1), st)
TestValue(out, st, text) ==
  TestNumber(out, st, text, Literal(IF text = <<>> THEN <<0>> ELSE text))

SetRematch(st, list, unknown) ==
  [st EXCEPT !.vars = Put(@, Rematch, [Zero EXCEPT !.kind = "Indexed", !.set = TRUE,
                                                   !.list = list], unknown, Dense)]
TestResult(out, st, t) ==
  LET Unary(Known(_, _)) == Then(TestWord(out, st, t.word), LAMBDA w, s :
        IF w.unknown THEN Answer("unknown", s) ELSE Known(w.text, s))
      Binary(Right(_, _), Known(_, _, _)) == Then(TestWord(out, st, t.word), LAMBDA l, s :
        Then(Right(s, t.right), LAMBDA r, q :
          IF l.unknown \/ r.unknown THEN Answer("unknown", q) ELSE Known(l.text, r.text, q)))
      Pattern(Known(_)) == Binary(LAMBDA s, w : PatternWord(out, s, w),
        LAMBDA a, b, s : Answer(FromBool(Known(Matches(a, b))), s))
      Logical(decisive, otherwise) == Then(TestTruth(out, st, t.x), LAMBDA l, s :
        IF l = decisive THEN Answer(l, s)
        ELSE Then(TestTruth(out, s, t.y), LAMBDA r, q :
               Answer(Combine(l, r, decisive, otherwise), q)))
      Numeric(a, b, s) == Then(TestValue(out, s, a), LAMBDA l, q :
        Then(TestValue(out, q, b), LAMBDA r, z :
          Answer(IF l.unknown \/ r.unknown THEN "unknown"
                 ELSE FromBool(Compared(t.sign, l.n, r.n)), z)))
  IN CASE t.test = "word"   -> Unary(LAMBDA a, s : Answer(FromBool(a # <<>>), s))
       [] t.test = "empty"  -> Unary(LAMBDA a, s : Answer(FromBool(a = <<>>), s))
       [] t.test = "set"    -> Unary(LAMBDA a, s : IsSet(out, s, a))
       [] t.test = "not"    -> Then(TestTruth(out, st, t.x), LAMBDA l, s : Answer(Invert(l), s))
       [] t.test = "and"    -> Logical("false", "true")
       [] t.test = "or"     -> Logical("true", "false")
       [] t.test = "match"  -> Pattern(LAMBDA m : m)
       [] t.test = "differ" -> Pattern(LAMBDA m : ~m)
       [] t.test = "regex"  ->
            Then(TestWord(out, st, t.word), LAMBDA l, s :
              Then(TestWord(out, s, t.right), LAMBDA r, q :
                IF l.unknown \/ r.unknown THEN Answer("unknown", SetRematch(q, <<>>, TRUE))
                ELSE IF r.text = <<Star>>
                THEN Fail(Failure(2), SetRematch(q, <<>>, FALSE))
                ELSE LET m == l.text = r.text IN
                     Answer(FromBool(m), SetRematch(q, IF m THEN <<l.text>> ELSE <<>>, FALSE))))
       [] t.test = "compare" -> Binary(LAMBDA s, w : TestWord(out, s, w), Numeric)

\* caseItemTruth: a pattern that cannot be expanded leaves the item in doubt.
CasePattern(out, st, subject, w) ==
  Then(PatternWord(out, st, w), LAMBDA p, s :
    IF p.unknown THEN Fail(Invalid, s)
    ELSE Answer(IF p.text = <<Star>> THEN "true"
                ELSE IF subject.unknown THEN "unknown"
                ELSE FromBool(Matches(subject.text, p.text)), s))
PatternsTruth(out, st, subject, patterns) ==
  FoldLeft(LAMBDA r, w : Then(r, LAMBDA v, s :
      IF v = "true" THEN r
      ELSE LET p == CasePattern(out, s, subject, w)
               stopped == Requested(p.err) \/ p.err = Unclear
           IN IF p.err # Ok /\ ~stopped THEN Answer("unknown", p.st)
              ELSE Then(p, LAMBDA m, q : Answer(Combine(v, m, "true", "false"), q))),
    Answer("false", st), patterns)
-------------------------------------------------------------------------------
(***************************************************************************)
(* A command, evaluated from the beginning with the outputs there are.     *)
(*                                                                         *)
(*   call(words), assign(name, word)                                       *)
(*   arith(x)     ((x))         effect(x)  a part of for ((...))           *)
(*   let(xs)      let x ...     test(test) [[ ... ]]                       *)
(*   case(word, patterns), and item(subject, patterns) once the subject is *)
(*   known: a pattern that has to wait does not evaluate the subject again.*)
(*                                                                         *)
(* It ends completed, unresolved (a branch gives up) or request.           *)
(***************************************************************************)
Outcome(status, exit, vars) ==
  [status |-> status, exit |-> exit, vars |-> vars, fields |-> <<>>, wanted |-> {}]
Completed(exit, vars) == Outcome("completed", exit, vars)
Unresolved(vars)      == Outcome("unresolved", "none", vars)
\* outcomeFromExpansionError
Stopped(r) ==
  IF Requested(r.err)
  THEN [Outcome("request", "none", r.st.vars) EXCEPT !.wanted = {r.err[2]}]
  ELSE Unresolved(r.st.vars)

Called(r) ==
  IF r.err # Ok THEN Stopped(r) ELSE [Completed("none", r.st.vars) EXCEPT !.fields = r.v]
RunCall(out, vars, c) == Called(ExpandFields(out, St(vars), c.words))

Assigned(c, r, host, data) ==
  IF r.err # Ok \/ host THEN Stopped(r)
  ELSE Completed("true", AssignShell(r.st.vars, c.name, Scalar(r.v), data, Dense))
RunAssign(out, vars, c) ==
  Assigned(c, ExpandWord(out, St(vars), c.word), HostUnknown(WordFacts(vars, c.word)),
           DataUnknown(out, vars, WordFacts(vars, c.word)))

\* evaluateArithmetic, executeArithmetic
Computed(vars, c, r, unknown) ==
  IF Requested(r.err) THEN Stopped(r)
  ELSE IF unknown
  THEN IF r.err # Ok \/ MayMutate(ExprNodes(c.x)) THEN Unresolved(vars)
       ELSE Completed("unknown", vars)
  ELSE IF r.err = Unclear THEN Stopped(r)
  ELSE Completed(FromBool(r.err = Ok /\ r.v # 0), r.st.vars)
RunArithmetic(out, vars, c) ==
  Computed(vars, c, ArithmeticValue(out, St(vars), c.x), ExprUnknown(out, vars, c.x))

\* evaluateArithmeticEffect looks at what is unknown when it is done.
Affected(out, vars, c, r) ==
  IF r.err # Ok THEN Stopped(r)
  ELSE IF HostUnknown(ExprFacts(vars, c.x))
          \/ DataUnknown(out, r.st.vars, ExprFacts(r.st.vars, c.x)) THEN Unresolved(vars)
  ELSE Completed("none", r.st.vars)
RunEffect(out, vars, c) == Affected(out, vars, c, ArithmeticValue(out, St(vars), c.x))

\* executeLetExpressions: what depends on an unknown output is made to fail.
LetDone(vars, r) ==
  IF r.err = <<"doubt">> THEN Completed("refused", vars)
  ELSE IF r.err = Unclear \/ Requested(r.err) THEN Stopped(Restored(r, St(vars)))
  ELSE Completed(FromBool(r.err = Ok /\ r.v # 0), r.st.vars)
RunLet(out, vars, c) ==
  LET One(r, x) == IF r.err # Ok THEN r
        ELSE IF DataUnknown(out, r.st.vars, ExprFacts(r.st.vars, x)) THEN Fail(<<"doubt">>, r.st)
        ELSE ArithmeticValue(out, r.st, x)
  IN LetDone(vars, FoldLeft(One, Answer(0, St(vars)), c.xs))

Tested(r) ==
  IF Requested(r.err) \/ r.err = Unclear THEN Stopped(r)
  ELSE IF r.err = Ok THEN Completed(r.v, r.st.vars)
  ELSE IF Head(r.err) = "failure"
  THEN Completed(IF r.err[2] = 1 THEN "false" ELSE "failed", r.st.vars)
  ELSE Completed("unknown", r.st.vars)
RunTest(out, vars, c) == Tested(TestTruth(out, St(vars), c.test))

Decided(r) == IF r.err # Ok THEN Stopped(r) ELSE Completed(r.v, r.st.vars)
RunItem(out, vars, c) == Decided(ItemTruth(out, St(vars), c.subject, c.patterns))

\* evaluateCase, up to what its subject is
Doubtful(r, doubt) ==
  IF r.err = Ok THEN Answer([text |-> r.v, unknown |-> doubt], r.st)
  ELSE IF Requested(r.err) \/ r.err = Unclear \/ ~doubt THEN r
  ELSE Answer([text |-> <<>>, unknown |-> TRUE], r.st)
SubjectOf(out, vars, c) ==
  Doubtful(ExpandWord(out, St(vars), c.word), WordUnknown(out, vars, c.word))

RunCommand(out, vars, c) ==
  CASE c.kind = "call"   -> RunCall(out, vars, c)
    [] c.kind = "assign" -> RunAssign(out, vars, c)
    [] c.kind = "arith"  -> RunArithmetic(out, vars, c)
    [] c.kind = "effect" -> RunEffect(out, vars, c)
    [] c.kind = "let"    -> RunLet(out, vars, c)
    [] c.kind = "test"   -> RunTest(out, vars, c)
    [] c.kind = "item"   -> RunItem(out, vars, c)
    [] c.kind = "case"   ->
         Decided(Then(SubjectOf(out, vars, c), LAMBDA subject, s :
                   ItemTruth(out, s, subject, c.patterns)))

Perform(what, c, st, x) ==
  CASE what = "expression" -> ExpressionValue(c, st, x)
    [] what = "text"       -> TextValue(c, st, x)
    [] what = "word"       -> WordText(c, st, x)
    [] what = "get"        -> ValueOfName(c, st, x)
    [] what = "assign"     -> AssignName(c, st, x[1], x[2])
    [] what = "reference"  -> ReferenceValue(c, st, x)
    [] what = "arithmetic" -> ArithmeticResult(c, st, x)
    [] what = "expansion"  -> ExpandedWord(c, st, x)
    [] what = "test"       -> TestResult(c.out, st, x)
    [] what = "patterns"   -> PatternsTruth(c.out, st, x.subject, x.patterns)
    [] what = "command"    -> RunCommand(c.out, st.vars, x)
===============================================================================
