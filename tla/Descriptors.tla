------------------------------ MODULE Descriptors ------------------------------
(***************************************************************************)
(* What a redirected statement does in a shell with file descriptors: the  *)
(* abstract specification of Redirections.                                 *)
(*                                                                         *)
(* A descriptor is a reference to an open file, which has an offset.       *)
(* Redirections open files and copy references from left to right; what a  *)
(* command writes goes to the open file at once.  Nothing is captured or   *)
(* delivered later.  Where it is not known whether a file exists there are *)
(* several worlds, and Executions has what happens in each.                *)
(***************************************************************************)
EXTENDS VirtualPaths, SequencesExt, FiniteSetsExt

Certain(text) == [text |-> text, unknown |-> FALSE]
Added(stream, value) ==
  [text |-> stream.text \o value.text, unknown |-> stream.unknown \/ value.unknown]
Message == <<"message">>  \* what the shell prints when it cannot open a file
-------------------------------------------------------------------------------
(* Open files: a stream of the shell, 1 or 2, or a file that is written at *)
(* its end, or from its beginning.                                         *)

OpenStream(n)       == [id |-> n, stream |-> n, file |-> <<>>, append |-> FALSE]
OpenAs(n, p, atEnd) == [id |-> n, stream |-> 0, file |-> p, append |-> atEnd]

\* The world has files, dirs, stdin, stdout, stderr, exit and what was seen.
\* notes says how the execution came about:
\*   "redirected"  a message went where the statement had redirected descriptor 2,
\*   "missing"     a file that may be there was not,
\*   "contents"    a file in a directory that may be there was there with contents.
Emit(w, d, value) ==
  LET old  == w.files[d.file]
      rest == SubSeq(old.text, Len(value.text) + 1, Len(old.text))
  IN IF value = Certain(<<>>) THEN w
     ELSE IF d.stream = 1 THEN [w EXCEPT !.stdout = Added(@, value)]
     ELSE IF d.stream = 2 THEN [w EXCEPT !.stderr = Added(@, value)]
     ELSE IF d.file = Device THEN w
     ELSE IF d.append THEN [w EXCEPT !.files[d.file] = Added(@, value)]
     ELSE [w EXCEPT !.files[d.file] =
             [text |-> value.text \o rest,
              unknown |-> value.unknown \/ (old.unknown /\ rest # <<>>)]]

\* A command says what it printed to either, and not in which order.
EmitBoth(w, fds, out, err) ==
  IF fds.out.id = fds.err.id THEN Emit(w, fds.out, Added(out, err))
  ELSE Emit(Emit(w, fds.out, out), fds.err, err)
-------------------------------------------------------------------------------
(* Opening a file: the worlds after it, and whether it was opened.  In a   *)
(* candidate what is missing may be there (discovery).                     *)

Ancestors(p) == {Prefix(p, k) : k \in 0 .. Len(p) - 1}
MayExist(w, p) ==
  p \notin w.dirs /\ \A q \in Ancestors(p) : q \notin DOMAIN w.files \cup {Device}
WithFile(w, p, content) ==
  [w EXCEPT !.files = [q \in DOMAIN @ \cup {p} |-> IF q = p THEN content ELSE @[q]],
            !.dirs  = @ \cup Ancestors(p)]

Noted(w, note) == [w EXCEPT !.notes = @ \cup {note}]
SomeContents   == [text |-> <<>>, unknown |-> TRUE]

Opened(w)      == [w |-> w, ok |-> TRUE]
Refused(w)     == [w |-> w, ok |-> FALSE]
Missing(w)     == Refused(Noted(w, "missing"))

\* keeps: what the file has stays, as >> and <> have it.
Made(w, p, keeps) ==
  WithFile(w, p, IF keeps /\ p \in DOMAIN w.files THEN w.files[p] ELSE Certain(<<>>))
Met(w, p) == WithFile(Noted(w, "contents"), p, SomeContents)
OpenForOutput(w, p, keeps, discovery) ==
  IF p = Device THEN {Opened(w)}
  ELSE IF p \notin w.dirs /\ Parent(p) \in w.dirs THEN {Opened(Made(w, p, keeps))}
  ELSE IF discovery /\ MayExist(w, p)
  THEN {Opened(Made(w, p, keeps)), Missing(w)} \cup (IF keeps THEN {Opened(Met(w, p))} ELSE {})
  ELSE {Refused(w)}
OpenForInput(w, p, discovery) ==
  IF p \in DOMAIN w.files \cup {Device} THEN {Opened(w)}
  ELSE IF discovery /\ MayExist(w, p)
  THEN {Opened(WithFile(w, p, SomeContents)), Missing(w)}
  ELSE {Refused(w)}
Contents(w, p) == IF p = Device THEN Certain(<<>>) ELSE w.files[p]
-------------------------------------------------------------------------------
(* Redirections from left to right.  A descriptor table has the open files *)
(* out and err, the file that stdin reads, and a number for the next one.  *)

Going(w, fds) == [w |-> w, fds |-> fds, replaced |-> FALSE, ok |-> TRUE]
Stopped(o, fds) == [w |-> o.w, fds |-> fds, replaced |-> FALSE, ok |-> FALSE]

SetFds(fds, which, d) ==
  [fds EXCEPT !.out = IF 1 \in which THEN d ELSE @, !.err = IF 2 \in which THEN d ELSE @,
              !.next = @ + 1]
ReadFrom(g, w, p, value) ==
  [g EXCEPT !.w = [w EXCEPT !.stdin = value], !.fds.inFile = p, !.replaced = TRUE]

\* given has the paths that the substitutions in the words give; without it a
\* word says nothing.
One(g, r, discovery, given) ==
  LET p == IF r.subst = 0 THEN r.path ELSE given[r.subst].path
      append == r.op \in {">>", "&>>"}
      Fds(w) == SetFds(g.fds, r.fds, OpenAs(g.fds.next, p, append))
      Cut(w) == IF ~append /\ p = g.fds.inFile THEN [w EXCEPT !.stdin = Certain(<<>>)] ELSE w
  IN CASE r.op = "<<<" -> {ReadFrom(g, g.w, <<>>, Certain(r.text))}
       [] r.op = ">&" ->
            {[g EXCEPT !.fds = SetFds(@, {r.fd},
                CASE r.other = 1 -> g.fds.out [] r.other = 2 -> g.fds.err
                  [] OTHER -> OpenAs(g.fds.next, Device, FALSE))]}
       [] r.subst # 0 /\ r.subst \notin DOMAIN given -> {}
       [] r.op \in {"<", "<>"} ->
            {IF o.ok THEN ReadFrom(g, o.w, p, Contents(o.w, p)) ELSE Stopped(o, g.fds) :
               o \in IF r.op = "<" \/ p \in DOMAIN g.w.files THEN OpenForInput(g.w, p, discovery)
                     ELSE OpenForOutput(g.w, p, TRUE, discovery)}
       [] OTHER ->
            {IF o.ok THEN [g EXCEPT !.w = Cut(o.w), !.fds = Fds(o.w)] ELSE Stopped(o, g.fds) :
               o \in OpenForOutput(g.w, p, append, discovery)}

All(w, fds, redirs, discovery, given) ==
  FoldLeft(LAMBDA S, r : UNION {IF g.ok THEN One(g, r, discovery, given) ELSE {g} : g \in S},
           {Going(w, fds)}, redirs)

Consumed(w, c) ==  \* read takes the first piece of its input
  IF ~c.reads THEN w
  ELSE [w EXCEPT !.stdin.text = SubSeq(@, 2, Len(@)),
                 !.seen = Append(@, [w.stdin EXCEPT !.text = SubSeq(@, 1, Min({1, Len(@)}))])]
Command(w, fds, c) ==
  LET s == Consumed(w, c)
      Ends(S, exit) == {[x EXCEPT !.exit = exit] : x \in S}
  IN CASE c.ends \in {"true", "false"} -> Ends({EmitBoth(s, fds, c.out, c.err)}, c.ends)
       [] c.ends = "fork"   -> Ends({Emit(s, fds.out, c.out), Emit(s, fds.err, c.err)}, "true")
       [] c.ends = "unsure" -> Ends({s}, "true") \cup Ends({w}, "false")
       [] OTHER -> {}

\* The shell says on the descriptor 2 it has by then that it could not open a file.
Complained(g, fds) ==
  Emit(IF g.fds.err = fds.err THEN g.w ELSE Noted(g.w, "redirected"), g.fds.err,
       Certain(Message))

RECURSIVE Statement(_, _, _, _, _)
Statement(w, fds, statement, discovery, given) ==
  UNION {
    IF ~g.ok
    THEN {[Complained(g, fds) EXCEPT !.exit = "false", !.stdin = w.stdin]}
    ELSE {[x EXCEPT !.stdin = IF g.replaced THEN w.stdin ELSE @] :
            x \in IF "redirs" \in DOMAIN statement.body
                  THEN Statement(g.w, g.fds, statement.body, discovery, given)
                  ELSE Command(g.w, g.fds, statement.body)} :
    g \in All(w, fds, statement.redirs, discovery, given)}

Executions(w, statement, discovery, given) ==
  Statement(w, [out |-> OpenStream(1), err |-> OpenStream(2), inFile |-> <<>>, next |-> 3],
            statement, discovery, given)
===============================================================================
