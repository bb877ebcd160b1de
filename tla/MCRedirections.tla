---------------------------- MODULE MCRedirections ----------------------------
(* Redirected statements small enough for TLC. *)
EXTENDS Redirections

f == <<"f">>  g == <<"g">>  d == <<"d">>  h == <<"d", "h">>  null == <<"null">>
MCPath      == {<<>>, f, g, d, h, null}
MCPathBytes == [p \in MCPath |-> 1]
MCChunk     == {"i", "j", "o", "e", "t", "message"}
MCContent   == {<<>>, <<"o">>, <<"e">>}
MCOutputs   == {[path |-> g, unknown |-> FALSE], [path |-> h, unknown |-> FALSE],
                [path |-> g, unknown |-> TRUE]}
MCNoPath == <<"none">>

From(op, p) == [op |-> op, fds |-> {}, subst |-> 0, path |-> p]
Text(text)  == [op |-> "<<<", fds |-> {}, subst |-> 0, text |-> text]
To(op, n, p) == [op |-> op, fds |-> {n}, subst |-> 0, path |-> p]
Both(op, p) == [op |-> op, fds |-> {1, 2}, subst |-> 0, path |-> p]
Copy(n, m)  == [op |-> ">&", fds |-> {n}, fd |-> n, other |-> m, subst |-> 0]
Given(r)    == [r EXCEPT !.subst = 1]

Command1(out, err, reads, ends) ==
  [out |-> out, err |-> err, reads |-> reads, ends |-> ends]
O == Certain(<<"o">>)  E == Certain(<<"e">>)  No == Certain(<<>>)
Unk == [text |-> <<>>, unknown |-> TRUE]
Prints == Command1(O, E, TRUE, "true")
St(redirs, body) == [redirs |-> redirs, body |-> body]

Redirs == {From("<", f), From("<", h), From("<>", h), From("<>", f), Text(<<"t">>),
           To(">", 1, f), To(">", 1, h), To(">>", 1, f), To(">", 2, g), To(">>", 2, h),
           To(">", 1, null), To(">", 2, d), Both("&>", f), Both("&>>", g),
           Copy(1, 2), Copy(2, 1), Copy(2, 0), From("<", null)}
Bodies == {Prints, Command1(O, No, FALSE, "false"), Command1(O, E, FALSE, "fork"),
           Command1(Unk, E, FALSE, "true")}

\* Two descriptors of their own on one file, and a second that is delivered
\* from the beginning of it: see README.md.
Files(r)  == IF r.op \in {">", ">>", "&>", "&>>"} THEN {r.path} ELSE {}
Clash(redirs) ==
  \E i, j \in DOMAIN redirs : i # j /\ Files(redirs[i]) \cap Files(redirs[j]) # {}
     /\ \E k \in {i, j} : 2 \in redirs[k].fds /\ redirs[k].op \in {">", "&>"}

Pairs == {<<r, s>> : r, s \in Redirs}
Simple == {<<r>> : r \in Redirs} \cup {p \in Pairs : ~Clash(p)}
Flat == {St(rs, b) : rs \in Simple, b \in Bodies}
Triples == {St(<<r, s, t>>, Prints) : r \in {To(">", 1, f), From("<", h), To(">", 1, h)},
                                      s \in {Copy(2, 1), Copy(1, 2)},
                                      t \in {To(">>", 1, h), To(">>", 2, g), To(">", 1, g),
                                            From("<", f)}}
Substs == {St(rs, Prints) :
             rs \in {<<Given(To(">", 1, f))>>, <<Given(From("<", f)), To(">>", 2, g)>>,
                     <<To(">", 2, f), Given(To(">>", 1, f))>>,
                     <<Text(<<"t">>), Given(From("<", f))>>,
                     <<From("<", h), Given(To(">>", 1, f))>>}}
Inner == {To(">>", 1, g), To(">", 2, g), Copy(1, 2), Copy(2, 1), To(">>", 2, h), To(">", 2, d)}
Outer == {To(">", 1, f), To(">>", 2, h), Both("&>", f), From("<", h), Text(<<"t">>), Copy(2, 1)}
Nested == {St(<<r>>, St(<<s>>, b)) :
             r \in Outer, s \in Inner \cup {From("<", g), From("<>", h)},
             b \in {Prints, Command1(O, E, FALSE, "fork")}}
Doubted == {St(<<r>>, St(<<s>>, Command1(No, No, FALSE, "unsure"))) : r \in Outer, s \in Inner}
Ends == {St(<<r, s>>, Command1(O, E, FALSE, e)) :
           r, s \in {To(">", 1, f), To(">>", 2, h), To(">", 1, h)},
           e \in {"unsure", "stop", "error"}}
Sound == {p \in Ends : ~Clash(p.redirs)} \cup Flat \cup Triples \cup Substs \cup Nested \cup Doubted

Then1 == {St(<<From("<", f), To(">>", 1, h)>>, Prints), St(<<>>, Prints)}
MCPrograms == {<<s, t>> : s \in Sound, t \in Then1}

\* <d/h >$(...): the file may be missing, and the word is a substitution.
LostPrograms == {<<St(<<From("<", h), Given(To(">>", 1, f))>>, Prints)>>}
===============================================================================
