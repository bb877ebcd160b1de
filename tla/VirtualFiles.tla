----------------------------- MODULE VirtualFiles -----------------------------
(***************************************************************************)
(* What the virtual file system promises (internal/runtime: fs.go): every  *)
(* path of a simulation has a tree of its own, of limited size; a call     *)
(* does all it was asked for or nothing.  MemoryFS.tla is the              *)
(* implementation.                                                         *)
(***************************************************************************)
EXTENDS VirtualPaths

CONSTANT Slot    \* the places a path's file system is kept in
VARIABLE trees   \* the tree of each path

Missing   == [kind |-> "missing"]
Directory == [kind |-> "directory"]
File      == [kind : {"file"}, contents : Seq(Chunk), unknown : BOOLEAN]
Tree      == [Path -> File \cup {Missing, Directory}]
IsFile(n) == n.kind = "file"

Empty == [p \in Path |-> IF p = <<>> THEN Directory ELSE Missing]

\* A file or directory is in a directory; the device is no part of the tree.
Legal(tree) ==
  /\ tree[<<>>] = Directory
  /\ tree[Device] = Missing
  /\ \A p \in Path \ {<<>>} : tree[p] # Missing => tree[Parent(p)] = Directory

\* The root is not counted.
NodeSize(p, n) ==
  IF n = Missing THEN 0
  ELSE Entry(p) + (IF IsFile(n)
                   THEN Len(n.contents) + (IF n.unknown THEN Entry(p) ELSE 0)
                   ELSE 0)
Size(tree) ==
  LET S == Path \ {<<>>}
  IN  SumFunctionOnSet([p \in S |-> NodeSize(p, tree[p])], S)

-------------------------------------------------------------------------------
Above(p)   == {Prefix(p, k) : k \in 0..(Len(p) - 1)}
UpTo(p)    == Above(p) \cup {p}

MakeDirectories(tree, S) ==
  [p \in Path |-> IF p \in S /\ tree[p] = Missing THEN Directory ELSE tree[p]]

\* The file that a write leaves where the tree had the node n.
FileAfter(n, w) ==
  LET old == IF w.append /\ IsFile(n) THEN n
             ELSE [contents |-> <<>>, unknown |-> FALSE]
  IN  [kind     |-> "file",
       contents |-> old.contents \o w.contents,
       unknown  |-> w.unknown \/ old.unknown]

Put(tree, w) ==
  [MakeDirectories(tree, IF w.createParents THEN Above(w.path) ELSE {})
     EXCEPT ![w.path] = FileAfter(@, w)]

WriteAllowed(tree, w) ==
  tree[w.path] # Directory /\ Legal(Put(tree, w)) /\ Size(Put(tree, w)) <= MaximumBytes

\* What a write needs while it is made: a file that becomes known is counted
\* with its mark.
SizeNeeded(tree, w) ==
  LET marked == w.unknown \/ (IsFile(tree[w.path]) /\ tree[w.path].unknown)
  IN  Size(Put(tree, [w EXCEPT !.unknown = marked]))

\* The reasons for which a write may be refused.
WriteRefused(tree, w, error) ==
  \/ error = "is directory" /\ tree[w.path] = Directory
  \/ error = "not exist" /\ ~w.createParents /\ tree[Parent(w.path)] # Directory
  \/ error = "not directory" /\ w.createParents
       /\ \E p \in Above(w.path) : p = Device \/ IsFile(tree[p])
  \/ error = "limit" /\ SizeNeeded(tree, w) > MaximumBytes

DirectoryAllowed(tree, p) ==
  LET made == MakeDirectories(tree, UpTo(p))
  IN  made[p] = Directory /\ Legal(made) /\ Size(made) <= MaximumBytes

DirectoryRefused(tree, p, error) ==
  \/ error = "not directory" /\ \E q \in UpTo(p) : q = Device \/ IsFile(tree[q])
  \/ error = "limit" /\ Size(MakeDirectories(tree, UpTo(p))) > MaximumBytes

-------------------------------------------------------------------------------
Init == trees = [s \in Slot |-> Empty]

Becomes(s, tree) == trees' = [trees EXCEPT ![s] = tree]

\* What may or may not be there: t is the path on which it is not.
Fork(s, t, tree) == trees' = [trees EXCEPT ![s] = tree, ![t] = trees[s]]

Next ==
  \E s \in Slot :
    \/ \E t \in Slot \ {s} : Becomes(t, trees[s])
    \/ \E w \in Request :
         /\ WriteAllowed(trees[s], w)
         /\ \/ Becomes(s, Put(trees[s], w))
            \/ \E t \in Slot \ {s} :
                 /\ ~IsFile(trees[s][w.path])
                 /\ Fork(s, t, Put(trees[s], w))
    \/ \E p \in Path, t \in Slot \ {s} :
         /\ trees[s][p] = Missing /\ DirectoryAllowed(trees[s], p)
         /\ Fork(s, t, MakeDirectories(trees[s], UpTo(p)))

Spec == Init /\ [][Next]_trees
===============================================================================
