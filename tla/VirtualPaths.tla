----------------------------- MODULE VirtualPaths -----------------------------
(***************************************************************************)
(* Cleaned absolute paths, as the sequences of their names (path.Clean,    *)
(* path.Dir), and what a call asks of the virtual file system.             *)
(***************************************************************************)
EXTENDS Integers, Sequences, FiniteSetsExt, Functions

CONSTANTS
  Path,         \* the paths that occur; <<>> is "/"
  Device,       \* the path "/dev/null"
  PathBytes,    \* the length of a path in bytes
  Chunk,        \* the bytes that files consist of
  Content,      \* what one call writes
  EntryBytes,   \* materialize.EntryBytes
  MaximumBytes  \* memoryFS.maximumBytes

Prefix(p, k) == SubSeq(p, 1, k)
Parent(p)    == Prefix(p, Len(p) - 1)

ASSUME PathAssumption ==
  /\ IsFiniteSet(Path) /\ Path \subseteq Seq(STRING)
  /\ \A p \in Path : \A k \in 0..Len(p) : Prefix(p, k) \in Path
  /\ <<>> \in Path /\ Device \in Path \ {<<>>}
  /\ PathBytes \in [Path -> Nat]
  /\ Content \subseteq Seq(Chunk) /\ <<>> \in Content
  /\ EntryBytes \in Nat /\ MaximumBytes \in Nat

Entry(p) == EntryBytes + PathBytes[p]

\* The arguments of memoryFS.writeValueMode.
Request == [path : Path, contents : Content, append : BOOLEAN, unknown : BOOLEAN,
            createParents : BOOLEAN]
===============================================================================
