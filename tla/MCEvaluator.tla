------------------------------ MODULE MCEvaluator ------------------------------
(* Programs for the model checker to run the evaluator on. *)
EXTENDS Evaluator, FiniteSets

MCCommand  == {"a", "u", "f", "n", "s", "e", "x", "d"}
MCFunction == {"fn"}

\* Constructors of syntax nodes.
Blank == [kind |-> "call", name |-> "a", cmd |-> "a", num |-> Unset,
          args |-> <<>>, cond |-> <<>>, body |-> <<>>, els |-> <<>>]
C(c)          == [Blank EXCEPT !.name = c,
                               !.num = IF c \in {"break", "continue"} THEN 1 ELSE @]
Num(c, k)     == [Blank EXCEPT !.name = c, !.num = k]
CSub(c, subs) == [Blank EXCEPT !.name = c, !.args = subs]
Let(subs)     == [Blank EXCEPT !.kind = "assign", !.args = subs]
Exec(c)       == [Blank EXCEPT !.name = "exec", !.cmd = c]
On(c, body)   == [Blank EXCEPT !.name = c, !.body = body]
Fun(body)     == [Blank EXCEPT !.kind = "fdef", !.name = "fn", !.body = <<body>>]
K(kind, body) == [Blank EXCEPT !.kind = kind, !.body = body]
Two(kind, x, y) == [Blank EXCEPT !.kind = kind, !.cond = <<x>>, !.body = <<y>>]
Loop(kind, cond, body) == [Blank EXCEPT !.kind = kind, !.cond = cond, !.body = body]
For(k, subs, body) ==
  [Blank EXCEPT !.kind = "for", !.num = k, !.args = subs, !.body = body]
If(cond, body, els) ==
  [Blank EXCEPT !.kind = "if", !.cond = cond, !.body = body, !.els = els]
Program(body) == K("block", body)

\* All the nodes a set of nodes is made of.
RECURSIVE Parts(_)
Parts(n) ==
  {n} \cup UNION {Parts(m) : m \in UNION
      {{q[k] : k \in 1..Len(q)} : q \in {n.args, n.cond, n.body, n.els}}}
NodesOf(programs) == {C("s")} \cup UNION {Parts(n) : n \in programs}

-------------------------------------------------------------------------------
Ref == INSTANCE ShellSemantics

\* The executions a final path stands for: one per status it may have.
Represents(p) ==
  {<<p.state.fs, e>> : e \in IF p.state.exit = "unknown" THEN {"zero", "nonzero"}
                                                        ELSE {p.state.exit}}

\* The paths Execute ends with are exactly the executions of the program: no
\* execution is lost, and no path is one that cannot happen.
ExactPaths ==
  result = "nil" /\ ~stop =>
    UNION {Represents(p) : p \in PathsOf(ret)} = Ref!Executions(Top.node)

-------------------------------------------------------------------------------
(* The paths run: commands that may fail in every construct. *)

MCOutcomes ==
  [a |-> {"ok"}, u |-> {"unknown"}, f |-> {"fail"}, n |-> {}, s |-> {"ok", "stop"},
   e |-> {"ok", "error"}, x |-> {"cancel"}, d |-> {"invoke"}]
MCDelegate == [c \in MCCommand |-> C("s")]

\* Commands that succeed, that fail, that nothing is known of, and that may
\* fail into the state they started in.
Commands0 == {C("a"), C("f"), C("u"), C("n"), C("cd")}

\* Every construct with the statement x in it.
Uses(x) ==
  {Two("and", x, C("a")), Two("or", x, C("a")), K("not", <<x>>),
   If(<<x>>, <<C("a")>>, <<If(<<C("u")>>, <<C("f")>>, <<>>)>>),
   K("subshell", <<x, C("a")>>), K("background", <<x>>),
   Two("pipe", x, C("u")), Two("pipe", C("u"), x),
   CSub("a", <<K("subst", <<x, C("f")>>), K("input", <<>>)>>),
   Let(<<K("subst", <<x>>)>>),
   On("eval", <<x, C("a")>>), On("source", <<x, C("a")>>), On("shell", <<x>>),
   Loop("while", <<C("u")>>, <<x, C("break")>>),
   Loop("until", <<x>>, <<C("break")>>),
   For(2, <<>>, <<x, C("a")>>)}

\* Control transfers that one path takes and another does not.
Escapes ==
  {C("break"), Num("continue", 1), Num("break", 2), Num("return", 1),
   C("exit"), Num("exit", 1), Exec("a"), Exec("n")}
Sometimes(e) == If(<<C("u")>>, <<e>>, <<>>)
EscapeUses(e) ==
  LET body == <<Sometimes(e), C("a")>>
      x    == K("block", body)
  IN  {For(2, <<>>, body), For(2, <<>>, <<For(2, <<>>, body), C("f")>>),
       Loop("while", <<C("u")>>, <<x, Num("break", 3)>>),
       K("block", <<Fun(x), C("fn")>>),
       On("source", body), K("subshell", body), K("background", <<x>>),
       Two("pipe", x, C("a")), Two("pipe", C("f"), x), On("shell", body),
       CSub("a", <<K("subst", body)>>),
       K("block", <<On("trap ERR", <<e>>), C("u"), C("a")>>)}

\* A break out of a condition, and a return out of a loop and of the function
\* whose failure is tested.
InnerUses ==
  {Loop("while", <<C("u"), Sometimes(C("break")), C("a")>>, <<C("break")>>),
   K("block", <<Fun(K("block", <<For(1, <<>>, <<Sometimes(Num("return", 1)), C("a")>>)>>)),
                Two("or", C("fn"), C("a"))>>)}

Errexit    == <<C("set -e")>>
ErrTrap    == <<On("trap ERR", <<C("a")>>)>>
ExitTrap   == <<On("trap EXIT", <<C("f")>>)>>
Prefixes   == {<<>>, Errexit, ErrTrap, ExitTrap, <<C("set -E")>> \o ErrTrap}

Paths0 ==
  {Program(pre \o <<use, C("u")>>) :
     pre \in Prefixes, use \in UNION {Uses(x) : x \in Commands0}}
Paths1 ==
  {Program(pre \o <<use, C("u")>>) :
     pre \in {Errexit, ExitTrap}, use \in InnerUses \cup UNION {EscapeUses(e) : e \in Escapes}}
PathsPrograms == Paths0 \cup Paths1
PathsNode == NodesOf(PathsPrograms)
-------------------------------------------------------------------------------
(* Limits: handlers that stop, fail, delegate or cancel, a context that may  *)
(* be cancelled at any step, and a budget smaller than the programs need.    *)

Faulty == {C("s"), C("e"), C("d"), C("n")}
LimitsPrograms ==
  {Program(<<C("cd"), use, C("a")>>) : use \in UNION {Uses(x) : x \in Faulty}} \cup
  {Program(pre \o <<use, C("a")>>) :
     pre \in {ErrTrap, ExitTrap}, use \in Uses(C("u"))} \cup
  {Program(<<Fun(K("block", <<C("u"), C("x")>>)), C("fn"), C("a")>>),
   Program(<<CSub("a", <<K("subst", <<K("unsupported", <<>>)>>)>>), C("a")>>),
   Program(<<Two("and", K("block", <<C("cd"), C("a")>>), C("s"))>>),
   Program(<<Exec("d"), C("a")>>),
   Program(<<K("subshell", <<For(8, <<>>, <<C("u")>>)>>)>>),
   Program(<<For(2, <<K("subst", <<C("u")>>)>>, <<C("s")>>), C("a")>>),
   Program(<<If(<<C("cd")>>, <<C("s")>>, <<If(<<>>, <<C("a")>>, <<>>)>>)>>),
   Program(<<K("subshell", <<On("trap EXIT", <<C("e")>>), C("u")>>), C("a")>>)}
LimitsNode == NodesOf(LimitsPrograms)
-------------------------------------------------------------------------------
(* Programs on which the evaluator departs from what its tests expect. *)

\* for i in $(a); do a; done; break; a
BreakPrograms ==
  {Program(<<For(1, <<K("subst", <<C("a")>>)>>, <<C("a")>>), C("break"), C("a")>>)}
BreakNode     == NodesOf(BreakPrograms)
===============================================================================
