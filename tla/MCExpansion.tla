----------------------------- MODULE MCExpansion -----------------------------
(* Commands small enough for TLC: words, arithmetic, tests and patterns that *)
(* assign variables, wait for substitutions and use what is not known.       *)
EXTENDS Substitutions

\* One-letter names, and texts.
n == <<23>>  u == <<30>>  y == <<34>>  a == <<10>>  r == <<27>>  h == <<17>>  m == <<22>>
one == <<1>>  two == <<2>>  zero == <<0>>
MCNameBytes(name) == Len(name)
MCHostNames == {h}
MCRematch   == m

\* Parts of words.
Lit(text)  == [part |-> "lit", text |-> text]
Param(name, excl, index, slice, op, word) ==
  [part |-> "param", name |-> name, excl |-> excl, index |-> index, slice |-> slice,
   op |-> op, word |-> word]
V(name)            == Param(name, FALSE, <<>>, <<>>, "", <<>>)
Op(name, op, word) == Param(name, FALSE, <<>>, <<>>, op, word)
A(x)     == [part |-> "arith", x |-> x]
S(id)    == [part |-> "subst", id |-> id]
El(x)    == [part |-> "element", at |-> 1, name |-> a, x |-> x, op |-> ""]

\* Expressions.
W(word)       == [node |-> "word", word |-> word]
N(text)       == W(<<Lit(text)>>)
Inc(target)   == [node |-> "step", by |-> 1, post |-> TRUE, target |-> target]
Set(sign, target, x) == [node |-> "set", sign |-> sign, target |-> target, y |-> x]
Two(node, x, z)      == [node |-> node, x |-> x, y |-> z]
B(sign, x, z)        == [node |-> "binary", sign |-> sign, x |-> x, y |-> z]
If(c, x, z)          == [node |-> "if", c |-> c, x |-> x, y |-> z]
MCParsed == [t \in {<<23, Plus, 1>>} |-> B("+", N(n), N(one))]

Target1(name) == <<Lit(name)>>
IncN   == Inc(Target1(n))
C      == W(<<S(1)>>)

\* Commands.
Call(words)       == [kind |-> "call", words |-> words]
Assign1(word)     == [kind |-> "assign", name |-> y, word |-> word]
Do(kind, x)       == [kind |-> kind, x |-> x]
Let(xs)           == [kind |-> "let", xs |-> xs]
Test(t)           == [kind |-> "test", test |-> t]
Case(word, pats)  == [kind |-> "case", word |-> word, patterns |-> pats]
T1(test, word)        == [test |-> test, word |-> word]
T2(test, word, right) == [test |-> test, word |-> word, right |-> right]
Cmp(sign, word, right) == [test |-> "compare", sign |-> sign, word |-> word, right |-> right]
TT(test, x, z)        == [test |-> test, x |-> x, y |-> z]
TNot(x)               == [test |-> "not", x |-> x]

\* n is 1, a has the elements 0 and 2, r is readonly, u is not known.
Array == [Zero EXCEPT !.kind = "Indexed", !.set = TRUE, !.list = <<one, <<>>, zero>>]
Base0(text, unknown) ==
  LET vn == Put(NoVariables, n, Scalar(one), FALSE, Dense)
      va == Put(vn, a, Array, FALSE, {0, 2})
      vr == Put(va, r, [Scalar(one) EXCEPT !.readonly = TRUE], FALSE, Dense)
  IN Put(vr, u, Scalar(text), unknown, Dense)
Starts(commands) ==
  {[command |-> c, vars |-> Base0(<<>>, TRUE), truth |-> Base0(t, FALSE)] :
     c \in commands, t \in {<<>>, one, n}}

Output(text, unknown, truth) == [text |-> text, unknown |-> unknown, truth |-> truth]
MCOutputs == {Output(one, FALSE, one), Output(zero, FALSE, zero), Output(n, FALSE, n),
              Output(<<>>, TRUE, one), Output(<<>>, TRUE, <<>>)}

Words == {
  <<A(IncN)>>, <<S(1)>>, <<S(2)>>, <<V(u), Lit(one)>>, <<V(n), V(h)>>,
  <<A(B("+", IncN, C))>>, <<A(B("/", N(one), W(<<V(n)>>)))>>,
  <<A(Two("and", N(u), N(n)))>>, <<A(Set("", Target1(r), IncN))>>,
  <<Op(y, ":-", <<S(1)>>)>>, <<Op(u, "-", <<S(1)>>)>>, <<Op(u, "+", <<Lit(one)>>)>>,
  <<Op(u, ":-", <<A(IncN)>>)>>, <<Op(y, ":=", <<A(IncN)>>)>>, <<Op(n, ":+", <<V(u)>>)>>,
  <<Op(y, ":?", <<S(1)>>)>>, <<V(a)>>, <<Op(r, "=", <<A(IncN)>>)>>,
  <<Param(a, FALSE, <<IncN>>, <<>>, ":=", <<Lit(two)>>)>>,
  <<Param(a, FALSE, <<C>>, <<>>, "", <<>>)>>,
  <<Param(n, FALSE, <<>>, <<N(zero), C>>, "", <<>>)>>,
  <<Param(a, FALSE, <<N(two)>>, <<IncN>>, "", <<>>)>>,
  <<A(N(<<0, 8>>))>>, <<A(N(<<23, Plus, 1>>))>> }
Calls   == {Call(<<w, v>>) : w, v \in Words}
Assigns == {Assign1(w) : w \in Words}
Expressions == {
  IncN, B("+", IncN, C), If(C, IncN, Set("", Target1(n), N(two))), N(u), N(h), C,
  Set("+", <<El(IncN)>>, C), Set("", <<El(C)>>, IncN),
  Set("+", Target1(<<10, Open, 23, Close>>), C),
  Two("comma", IncN, Set("-", Target1(n), C)), Two("or", C, IncN), Two("and", N(n), C),
  [node |-> "unary", sign |-> "~", x |-> N(n)], N(<<10, Open, 23, Close>>),
  Set("**", Target1(n), C) }
Ariths  == {Do("arith", x) : x \in Expressions}
Effects == {Do("effect", x) : x \in Expressions}
Lets    == {Let(<<x, z>>) : x, z \in Expressions}
Left == {<<V(u)>>, <<V(n)>>, <<S(1)>>, <<A(C)>>, <<V(h)>>}
Simple == {T1("word", w) : w \in Left} \cup {T1("empty", w) : w \in Left}
   \cup {T1("set", w) : w \in {<<Lit(u)>>, <<S(1)>>, <<Lit(<<10, Open, 2, Close>>)>>,
                               <<Lit(<<10, Open, 30, Close>>)>>}}
   \cup {T2(t, l, w) : t \in {"match", "differ", "regex"}, l \in Left,
                      w \in Left \cup {<<Lit(one)>>}}
   \cup {T2(t, <<V(n)>>, <<Lit(<<Star>>)>>) : t \in {"match", "regex"}}
   \cup {Cmp("<=", l, w) : l \in Left,
            w \in Left \cup {<<Lit(n)>>, <<Lit(u)>>, <<Lit(<<23, Plus, 1>>)>>}}
Compound == {TT(t, x, z) : t \in {"and", "or"},
               x \in {t \in Simple : t.word \in {<<V(u)>>, <<S(1)>>, <<A(C)>>}},
               z \in {T1("word", <<S(2)>>), T2("match", <<V(n)>>, <<Lit(one)>>)}}
Tests == {Test(t) : t \in Simple \cup Compound} \cup {Test(TNot(t)) : t \in Simple}
Patterns == {<<Lit(one)>>, <<Lit(<<Star>>)>>, <<S(2)>>, <<V(u)>>, <<V(h)>>, <<Op(u, ":-", <<>>)>>}
Cases == {Case(w, <<p, q>>) : w \in Words, p, q \in Patterns}
Safe == Calls \cup Assigns \cup Ariths \cup Effects \cup Lets \cup Tests \cup Cases

\* Operands, texts, slices and braces.
Ints == -(2^(Width - 1)) .. 2^(Width - 1) - 1
Sums == {[kind |-> "operator", sign |-> s, a |-> i, b |-> j] : s \in Signs, i, j \in Ints}
Chars == {0, 1, 8, 10, 33, 63, Hash, Minus, Plus}
Texts == {[kind |-> "text", text |-> t] : t \in UNION {[1 .. k -> Chars] : k \in 1 .. 3}}
Slices == {[kind |-> "slice", count |-> k, offset |-> o, length |-> l] :
             k \in 0 .. 3, o \in -5 .. 5, l \in {<<>>} \cup {<<i>> : i \in -5 .. 5}}
Ends == {-8, -7, -1, 0, 3, 7}
Seq1(f, t, by, zeros) == [brace |-> "sequence", from |-> f, to |-> t, by |-> by, zeros |-> zeros]
Seqs == {<<Seq1(f, t, by, z)>> : f, t \in Ends, by \in Ends, z \in {0, 2}}
Alt(elems) == [brace |-> "alternatives", elems |-> elems]
Nested == {<<[brace |-> "lit", bytes |-> 1], Alt(<<s, <<[brace |-> "lit", bytes |-> 2]>> >>),
             Alt(<<t, t>>)>> : s, t \in {<<Seq1(0, 3, 2, 0)>>, <<Seq1(7, 6, 0, 0)>>, <<>>}}
BraceWords == {[kind |-> "brace", word |-> w, maximum |-> k, entry |-> e] :
                w \in Seqs \cup Nested, k \in {5, 40, 400}, e \in {1, 3}}

MCCommands == Starts(Safe)
   \cup {[command |-> c, vars |-> NoVariables, truth |-> NoVariables] :
           c \in Sums \cup Texts \cup Slices \cup BraceWords}
===============================================================================
