---------------------------- MODULE MemoryFSProofs ----------------------------
(***************************************************************************)
(* The virtual file system, for any paths, file systems, cells and limit.  *)
(*                                                                         *)
(* Its shape: a call that is not refused keeps the maps well formed and    *)
(* what is in them (WriteKeeps, DirectoriesKeep); the marks keep it from   *)
(* any other file system (StoreLemma).                                     *)
(*                                                                         *)
(* Its trees: for well-formed maps whose bytes are counted exactly, a call *)
(* leaves the tree that was asked for (WrittenTree, GrowTree) and is       *)
(* charged what the tree has become larger (WrittenSize, GrowSize), and a  *)
(* call that is refused has a reason in the tree (WalkRefused,             *)
(* WriteDenied).  BudgetInv is the invariant that follows, and Outcome     *)
(* what a step does to each tree.                                          *)
(***************************************************************************)
EXTENDS MemoryFS, FoldsProofs, SequenceTheorems, TLAPS

\* A path is a sequence.
LEMMA LengthLemma == \A p \in Path : p \in Seq(STRING) /\ Len(p) \in Nat
BY PathAssumption

\* The prefixes of a path are paths, each the parent of the next.
LEMMA PrefixLemma ==
  ASSUME NEW p \in Path, NEW k \in 0..Len(p)
  PROVE  /\ Prefix(p, k) \in Path /\ Prefix(p, k) \in Seq(STRING)
         /\ Len(Prefix(p, k)) = k
         /\ k > 0 => Parent(Prefix(p, k)) = Prefix(p, k - 1)
<1>1. p \in Seq(STRING) /\ Prefix(p, k) \in Path /\ Prefix(p, k) \in Seq(STRING)
  BY PathAssumption
<1>2. Len(Prefix(p, k)) = k
  BY <1>1, SubSeqProperties DEF Prefix
<1>3. ASSUME k > 0 PROVE Parent(Prefix(p, k)) = Prefix(p, k - 1)
  <2>1. Parent(Prefix(p, k)) = SubSeq(SubSeq(p, 1, k), 1, k - 1)
    BY <1>2 DEF Parent, Prefix
  <2>2. CASE k = 1
    BY <1>1, <2>1, <2>2, SubSeqEmpty DEF Prefix
  <2>3. CASE k > 1
    <3>1. k - 1 \in 1..(k - 1 + 1) /\ 1 \in 1..Len(p) /\ k \in 1..Len(p)
          /\ 1 \in 1..(k - 1 + 1)
      BY <1>1, <2>3
    <3>2. SubSeq(SubSeq(p, 1, k), 1, k - 1) = SubSeq(p, 1 + 1 - 1, 1 + (k - 1) - 1)
      BY <1>1, <3>1, SubSeqOfSubSeq
    <3> QED BY <2>1, <3>2 DEF Prefix
  <2> QED BY <1>3, <2>2, <2>3
<1> QED BY <1>1, <1>2, <1>3

\* The shortest prefix is the root, the longest is the path.
LEMMA EndsLemma ==
  ASSUME NEW p \in Path
  PROVE  /\ Prefix(p, 0) = <<>>
         /\ Prefix(p, Len(p)) = p
         /\ Parent(p) \in Path
         /\ p # <<>> => Len(Parent(p)) = Len(p) - 1 /\ Len(p) > 0
<1>1. p \in Seq(STRING) /\ Len(p) \in Nat
  BY PathAssumption
<1>2. Prefix(p, 0) = <<>> /\ Prefix(p, Len(p)) = p
  BY <1>1, SubSeqEmpty, SubSeqFull DEF Prefix
<1>3. CASE p = <<>>
  <2>1. Len(p) = 0
    BY <1>3
  <2>2. Parent(p) = <<>>
    BY <1>1, <2>1, SubSeqEmpty DEF Parent, Prefix
  <2> QED BY <1>2, <1>3, <2>2, PathAssumption
<1>4. CASE p # <<>>
  <2>1. Len(p) > 0
    BY <1>1, <1>4
  <2> QED BY <1>1, <1>2, <1>4, <2>1, PrefixLemma DEF Parent
<1> QED BY <1>3, <1>4

\* No path is above itself.
LEMMA AboveLemma ==
  ASSUME NEW p \in Path, p # <<>>
  PROVE  \A k \in 0..Len(Parent(p)) : Prefix(Parent(p), k) # p
<1> DEFINE q == Parent(p)
<1>1. q \in Path /\ Len(q) = Len(p) - 1 /\ Len(p) \in Nat
  BY EndsLemma, LengthLemma
<1> HIDE DEF q
<1>2. \A k \in 0..Len(q) : Len(Prefix(q, k)) = k
  BY <1>1, PrefixLemma
<1>3. \A k \in 0..Len(q) : Prefix(q, k) # p
  BY <1>1, <1>2
<1> QED BY <1>3 DEF q

-------------------------------------------------------------------------------
(* The directories that the walk of missingDirectories collects. *)

\* The walk collects what is missing down to the path, each below a directory
\* or below another one of them.
LEMMA MissingLemma ==
  ASSUME NEW fs, WellFormed(fs), NEW p \in Path
  PROVE  /\ p \in fs.dirs \cup MissingDirectories(fs, p)
         /\ \A q \in MissingDirectories(fs, p) :
              /\ q # <<>> /\ q \notin fs.dirs /\ Len(q) <= Len(p)
              /\ Parent(q) \in fs.dirs \cup MissingDirectories(fs, p)
<1>1. Len(p) \in Nat
  BY PathAssumption
<1>2. p \in fs.dirs \cup MissingDirectories(fs, p)
  <2>1. SUFFICES ASSUME p \notin fs.dirs PROVE p \in MissingDirectories(fs, p)
    OBVIOUS
  <2>2. Len(p) \in MissingLevels(fs, p)
    <3>1. \A j \in Len(p)..Len(p) : j = Len(p)
      BY <1>1
    <3> QED BY <1>1, <2>1, <3>1, EndsLemma DEF MissingLevels
  <2> QED BY <2>2, EndsLemma DEF MissingDirectories
<1>3. ASSUME NEW q \in MissingDirectories(fs, p)
      PROVE  /\ q # <<>> /\ q \notin fs.dirs /\ Len(q) <= Len(p)
             /\ Parent(q) \in fs.dirs \cup MissingDirectories(fs, p)
  <2>1. PICK k \in MissingLevels(fs, p) : q = Prefix(p, k)
    BY <1>3 DEF MissingDirectories
  <2>2. k \in 0..Len(p) /\ k \in k..Len(p)
    BY <1>1, <2>1 DEF MissingLevels
  <2>3. q \notin fs.dirs
    BY <2>1, <2>2 DEF MissingLevels
  <2>4. q # <<>>
    BY <2>3 DEF WellFormed
  <2>5. k > 0
    BY <2>1, <2>2, <2>4, EndsLemma
  <2>6. Len(q) <= Len(p) /\ Parent(q) = Prefix(p, k - 1)
    BY <1>1, <2>1, <2>2, <2>5, PrefixLemma
  <2>7. CASE Prefix(p, k - 1) \in fs.dirs
    BY <2>3, <2>4, <2>6, <2>7
  <2>8. CASE Prefix(p, k - 1) \notin fs.dirs
    <3>1. k - 1 \in MissingLevels(fs, p)
      <4>1. \A j \in (k - 1)..Len(p) : j = k - 1 \/ j \in k..Len(p)
        BY <1>1, <2>2
      <4>2. k - 1 \in 0..Len(p)
        BY <1>1, <2>2, <2>5
      <4> QED BY <2>1, <2>8, <4>1, <4>2 DEF MissingLevels
    <3> QED BY <2>3, <2>4, <2>6, <3>1 DEF MissingDirectories
  <2> QED BY <2>7, <2>8
<1> QED BY <1>2, <1>3

\* A walk that does not fail meets no file and not the device.
LEMMA WalkLemma ==
  ASSUME NEW fs, NEW used, NEW p \in Path, WalkError(fs, used, p) = ""
  PROVE  \A q \in MissingDirectories(fs, p) : q # Device /\ q \notin FileNames(fs)
<1>1. Blocked(fs, p, MissingLevels(fs, p)) = {}
  BY DEF WalkError
<1> QED BY <1>1 DEF Blocked, MissingDirectories

-------------------------------------------------------------------------------
(* One call. *)

\* ensureDir leaves a tree, and what is in it.
LEMMA DirectoriesKeep ==
  ASSUME NEW fs, WellFormed(fs), NEW used, NEW p \in Path, WalkError(fs, used, p) = ""
  PROVE  WellFormed(WithDirectories(fs, p)) /\ Kept(fs, WithDirectories(fs, p))
<1> DEFINE M   == MissingDirectories(fs, p)
           new == WithDirectories(fs, p)
<1>1. /\ new.dirs = fs.dirs \cup M
      /\ FileNames(new) = FileNames(fs) /\ new.unknownFiles = fs.unknownFiles
  BY DEF WithDirectories, FileNames
<1>2. \A q \in M : /\ q # Device /\ q \notin FileNames(fs)
                   /\ Parent(q) \in fs.dirs \cup M
  BY WalkLemma, MissingLemma
<1> HIDE DEF M, new
<1>3. WellFormed(new)
  BY <1>1, <1>2 DEF WellFormed
<1>4. Kept(fs, new)
  BY <1>1, <1>2 DEF Kept, PathKind
<1> QED BY <1>3, <1>4 DEF new

\* So does writeValueMode.
LEMMA WriteKeeps ==
  ASSUME NEW fs, WellFormed(fs), NEW used, NEW w \in Request, w.path # Device,
         WriteError(fs, used, w) = ""
  PROVE  WellFormed(Written(fs, w)) /\ Kept(fs, Written(fs, w))
<1> DEFINE M   == NewParents(fs, w)
           new == Written(fs, w)
<1>1. w.path \in Path /\ w.createParents \in BOOLEAN
  BY DEF Request
<1>2. w.path \notin fs.dirs
  BY DEF WriteError
<1>3. w.path # <<>>
  BY <1>2 DEF WellFormed
<1>4. Parent(w.path) \in Path
  BY <1>1, EndsLemma
<1>5. /\ Parent(w.path) \in fs.dirs \cup M
      /\ \A q \in M : /\ q # Device /\ q \notin FileNames(fs) /\ q # w.path
                      /\ Parent(q) \in fs.dirs \cup M
  <2>1. CASE w.createParents
    <3>1. M = MissingDirectories(fs, Parent(w.path))
      BY <2>1 DEF NewParents
    <3>2. WalkError(fs, used, Parent(w.path)) = ""
      BY <1>2, <2>1 DEF WriteError
    <3>3. \A q \in M : q # w.path
      <4>1. \A q \in M : \E k \in 0..Len(Parent(w.path)) : q = Prefix(Parent(w.path), k)
        BY <3>1 DEF MissingDirectories, MissingLevels
      <4> QED BY <1>1, <1>3, <4>1, AboveLemma
    <3> QED BY <1>4, <3>1, <3>2, <3>3, WalkLemma, MissingLemma
  <2>2. CASE ~w.createParents
    BY <1>2, <2>2 DEF NewParents, WriteError
  <2> QED BY <1>1, <2>1, <2>2
<1>6. /\ new.dirs = fs.dirs \cup M
      /\ FileNames(new) = FileNames(fs) \cup {w.path}
      /\ \/ new.unknownFiles = fs.unknownFiles \cup {w.path}
         \/ new.unknownFiles = fs.unknownFiles \ {w.path}
  BY DEF Written, FileNames
<1> HIDE DEF M, new
<1>7. WellFormed(new)
  BY <1>2, <1>5, <1>6 DEF WellFormed
<1>8. Kept(fs, new)
  BY <1>2, <1>5, <1>6 DEF Kept, PathKind
<1> QED BY <1>7, <1>8 DEF new

-------------------------------------------------------------------------------
(* Sharing. *)

Marked(r, m) == \A s, t \in Slot : s # t /\ r[s] = r[t] => m[s] /\ m[t]

Memory ==
  /\ ref \in [Slot -> Addr] /\ shared \in [Slot -> BOOLEAN]
  /\ heap = [a \in Addr |-> heap[a]]
  /\ Marked(ref, shared)

\* A write on the marked side of a sharing is not seen on the other.
LEMMA StoreLemma ==
  ASSUME heap = [a \in Addr |-> heap[a]],
         NEW r \in [Slot -> Addr], NEW m \in [Slot -> BOOLEAN], Marked(r, m),
         NEW s \in Slot, NEW fs, Store(s, r, m, fs)
  PROVE  /\ Memory'
         /\ Maps(s)' = fs
         /\ \A u \in Slot \ {s} : Maps(u)' = heap[r[u]]
<1> DEFINE others == {r[u] : u \in Slot \ {s}}
<1>1. PICK a \in Addr :
        /\ IF m[s] THEN a \notin others /\ \A b \in Addr \ others : a <= b ELSE a = r[s]
        /\ ref' = [r EXCEPT ![s] = a]
        /\ shared' = [m EXCEPT ![s] = FALSE]
        /\ heap' = Collected([heap EXCEPT ![a] = fs], ref')
  BY DEF Store
<1>2. \A u \in Slot \ {s} : r[u] # a
  BY <1>1 DEF Marked
<1>3. /\ ref' \in [Slot -> Addr] /\ shared' \in [Slot -> BOOLEAN]
      /\ ref'[s] = a /\ \A u \in Slot \ {s} : ref'[u] = r[u] /\ shared'[u] = m[u]
  BY <1>1
<1>4. /\ heap' = [b \in Addr |-> heap'[b]]
      /\ \A u \in Slot : heap'[ref'[u]] = [heap EXCEPT ![a] = fs][ref'[u]]
  BY <1>1, <1>3 DEF Collected
<1>5. heap'[ref'[s]] = fs
  BY <1>3, <1>4
<1>6. \A u \in Slot \ {s} : heap'[ref'[u]] = heap[r[u]]
  BY <1>2, <1>3, <1>4
<1>7. Marked(ref, shared)'
  BY <1>2, <1>3 DEF Marked
<1> QED BY <1>3, <1>4, <1>5, <1>6, <1>7 DEF Memory, Maps

\* clone points the copy to the maps of the original and marks both.
LEMMA CloneLemma ==
  ASSUME Memory, NEW s \in Slot, NEW t \in Slot
  PROVE  /\ RefsCloned(s, t) \in [Slot -> Addr]
         /\ MarksCloned(s, t) \in [Slot -> BOOLEAN]
         /\ Marked(RefsCloned(s, t), MarksCloned(s, t))
         /\ RefsCloned(s, t)[t] = ref[s]
         /\ \A u \in Slot \ {t} : RefsCloned(s, t)[u] = ref[u]
<1>1. /\ RefsCloned(s, t) \in [Slot -> Addr]
      /\ RefsCloned(s, t)[t] = ref[s]
      /\ \A u \in Slot \ {t} : RefsCloned(s, t)[u] = ref[u]
  BY DEF Memory, RefsCloned
<1>2. /\ MarksCloned(s, t) \in [Slot -> BOOLEAN]
      /\ MarksCloned(s, t)[s] /\ MarksCloned(s, t)[t]
      /\ \A u \in Slot \ {s, t} : MarksCloned(s, t)[u] = shared[u]
  BY DEF Memory, MarksCloned
<1>3. Marked(RefsCloned(s, t), MarksCloned(s, t))
  <2> SUFFICES ASSUME NEW u \in Slot, NEW v \in Slot, u # v,
                      RefsCloned(s, t)[u] = RefsCloned(s, t)[v]
               PROVE  MarksCloned(s, t)[u]
    BY DEF Marked
  <2>1. CASE u \in {s, t}
    BY <1>2, <2>1
  <2>2. CASE u \notin {s, t}
    BY <1>1, <1>2, <2>2 DEF Memory, Marked
  <2> QED BY <2>1, <2>2
<1> QED BY <1>1, <1>2, <1>3

-------------------------------------------------------------------------------
(* What every step does to every file system. *)

MemoryFSInv == Memory /\ TreeShape

Grown(u) == WellFormed(Maps(u)') /\ Kept(Maps(u), Maps(u)')
GrownOrCopied == \A u \in Slot : Grown(u) \/ \E t \in Slot : Maps(u)' = Maps(t)

\* One step of each caller.
LEMMA WriteLemma ==
  ASSUME MemoryFSInv, NEW s \in Slot, NEW w \in Request, Write(s, w)
  PROVE  Memory' /\ GrownOrCopied
<1>1. /\ Memory'
      /\ Maps(s)' = Written(Maps(s), w)
      /\ \A u \in Slot \ {s} : Maps(u)' = heap[ref[u]]
  BY StoreLemma DEF MemoryFSInv, Memory, Write
<1>2. Grown(s)
  BY <1>1, WriteKeeps DEF MemoryFSInv, TreeShape, Write, Error, Grown
<1> QED BY <1>1, <1>2 DEF GrownOrCopied, Maps

\* The mark that is left when a snapshot is dropped.
LEMMA MarkLemma ==
  ASSUME Memory, NEW s \in Slot, shared' = [shared EXCEPT ![s] = TRUE],
         UNCHANGED <<heap, ref>>
  PROVE  Memory' /\ GrownOrCopied
<1>1. /\ shared' \in [Slot -> BOOLEAN]
      /\ \A u \in Slot : shared[u] => shared'[u]
  BY DEF Memory
<1> QED BY <1>1 DEF Memory, Marked, GrownOrCopied, Maps

\* A step whose state before it is kept in t.
LEMMA SnapshotLemma ==
  ASSUME MemoryFSInv, NEW s \in Slot, NEW t \in Slot \ {s}, NEW fs,
         Store(s, RefsCloned(s, t), MarksCloned(s, t), fs),
         WellFormed(fs), Kept(Maps(s), fs)
  PROVE  Memory' /\ GrownOrCopied
<1>1. /\ Memory'
      /\ Maps(s)' = fs
      /\ \A u \in Slot \ {s} : Maps(u)' = heap[RefsCloned(s, t)[u]]
  <2>1. /\ RefsCloned(s, t) \in [Slot -> Addr]
        /\ MarksCloned(s, t) \in [Slot -> BOOLEAN]
        /\ Marked(RefsCloned(s, t), MarksCloned(s, t))
    BY CloneLemma DEF MemoryFSInv
  <2> QED BY <2>1, StoreLemma DEF MemoryFSInv, Memory
<1>2. \A u \in Slot \ {s} : \E v \in Slot : Maps(u)' = Maps(v)
  <2>1. \A u \in Slot : RefsCloned(s, t)[u] = IF u = t THEN ref[s] ELSE ref[u]
    BY CloneLemma DEF MemoryFSInv
  <2> QED BY <1>1, <2>1 DEF Maps
<1> QED BY <1>1, <1>2 DEF GrownOrCopied, Grown

\* A write of which both outcomes are followed.
LEMMA WriteOrSnapshotLemma ==
  ASSUME MemoryFSInv, NEW s \in Slot, NEW t \in Slot \ {s}, NEW w \in Request,
         w.path # Device, WriteOrSnapshot(s, t, w)
  PROVE  Memory' /\ GrownOrCopied
<1>1. CASE Error(s, w) = ""
  BY <1>1, SnapshotLemma, WriteKeeps
     DEF WriteOrSnapshot, Error, MemoryFSInv, TreeShape
<1>2. CASE Error(s, w) # ""
  BY <1>2, MarkLemma DEF WriteOrSnapshot, MemoryFSInv
<1> QED BY <1>1, <1>2

\* A cd of which both outcomes are followed.
LEMMA DirectoryOrSnapshotLemma ==
  ASSUME MemoryFSInv, NEW s \in Slot, NEW t \in Slot \ {s}, NEW p \in Path,
         DirectoryOrSnapshot(s, t, p)
  PROVE  Memory' /\ GrownOrCopied
<1>1. CASE WalkError(Maps(s), materializedBytes[s], p) = ""
  BY <1>1, SnapshotLemma, DirectoriesKeep
     DEF DirectoryOrSnapshot, MemoryFSInv, TreeShape
<1>2. CASE WalkError(Maps(s), materializedBytes[s], p) # ""
  BY <1>2, MarkLemma DEF DirectoryOrSnapshot, MemoryFSInv
<1> QED BY <1>1, <1>2

\* A path that is forked.
LEMMA CloneStepLemma ==
  ASSUME MemoryFSInv, NEW s \in Slot, NEW t \in Slot, Clone(s, t)
  PROVE  Memory' /\ GrownOrCopied
<1>1. /\ Memory'
      /\ \A u \in Slot : heap'[ref'[u]] = heap[ref'[u]]
  BY CloneLemma DEF MemoryFSInv, Memory, Clone, Collected
<1>2. \A u \in Slot : \E v \in Slot : Maps(u)' = Maps(v)
  <2>1. \A u \in Slot : ref'[u] = IF u = t THEN ref[s] ELSE ref[u]
    BY CloneLemma DEF MemoryFSInv, Clone
  <2> QED BY <1>1, <2>1 DEF Maps
<1> QED BY <1>1, <1>2 DEF GrownOrCopied

\* What the callers ask for is a request.
LEMMA RequestLemma ==
  ASSUME NEW p \in Path, NEW contents \in Content, NEW append \in BOOLEAN,
         NEW unknown \in BOOLEAN
  PROVE  /\ Plain(p, contents, append, unknown) \in Request
         /\ <<>> \in Content =>
              /\ Abstract(p, append, unknown) \in Request
              /\ Abstract(p, append, unknown).path = p
BY DEF Plain, Abstract, Request

-------------------------------------------------------------------------------

\* Every step keeps the tree shape, and every file system grows or is a copy.
LEMMA NextLemma ==
  ASSUME MemoryFSInv, [Next]_vars
  PROVE  MemoryFSInv' /\ GrownOrCopied
<1>1. Memory' /\ GrownOrCopied
  <2>1. CASE UNCHANGED vars
    BY <2>1 DEF vars, MemoryFSInv, Memory, Marked, GrownOrCopied, Maps
  <2>2. CASE Next
    <3>1. PICK s \in Slot :
        \/ \E t \in Slot \ {s} : Clone(s, t)
        \/ \E p \in Path :
             \/ \E append \in BOOLEAN : OpenOutput(s, p, append)
             \/ OpenInputOutput(s, p)
             \/ \E contents \in Content, append, unknown \in BOOLEAN :
                  Deliver(s, p, contents, append, unknown)
             \/ \E contents \in Content, unknown \in BOOLEAN :
                  ProcessFile(s, p, contents, unknown)
             \/ \E t \in Slot \ {s} :
                  \/ \E append \in BOOLEAN : DiscoverOutput(s, t, p, append)
                  \/ DiscoverInput(s, t, p)
                  \/ DiscoverInputOutput(s, t, p)
                  \/ ChangeDirectory(s, t, p)
      BY <2>2 DEF Next
    <3>2. CASE \E t \in Slot \ {s} : Clone(s, t)
      BY <3>2, CloneStepLemma
    <3>3. ASSUME NEW p \in Path,
                 \/ \E append \in BOOLEAN : OpenOutput(s, p, append)
                 \/ OpenInputOutput(s, p)
                 \/ \E contents \in Content, append, unknown \in BOOLEAN :
                      Deliver(s, p, contents, append, unknown)
                 \/ \E contents \in Content, unknown \in BOOLEAN :
                      ProcessFile(s, p, contents, unknown)
          PROVE  Memory' /\ GrownOrCopied
      <4>1. \E w \in Request : Write(s, w)
        BY <3>3, RequestLemma, PathAssumption
           DEF OpenOutput, OpenInputOutput, Deliver, ProcessFile
      <4> QED BY <4>1, WriteLemma
    <3>4. ASSUME NEW p \in Path, NEW t \in Slot \ {s},
                 \/ \E append \in BOOLEAN : DiscoverOutput(s, t, p, append)
                 \/ DiscoverInput(s, t, p)
                 \/ DiscoverInputOutput(s, t, p)
          PROVE  Memory' /\ GrownOrCopied
      <4>1. \E w \in Request : w.path # Device /\ WriteOrSnapshot(s, t, w)
        BY <3>4, RequestLemma, PathAssumption
           DEF DiscoverOutput, DiscoverInput, DiscoverInputOutput
      <4> QED BY <4>1, WriteOrSnapshotLemma
    <3>5. ASSUME NEW p \in Path, NEW t \in Slot \ {s}, ChangeDirectory(s, t, p)
          PROVE  Memory' /\ GrownOrCopied
      BY <3>5, DirectoryOrSnapshotLemma DEF ChangeDirectory
    <3> QED BY <3>1, <3>2, <3>3, <3>4, <3>5
  <2> QED BY <2>1, <2>2
<1>2. TreeShape'
  BY <1>1 DEF GrownOrCopied, Grown, MemoryFSInv, TreeShape
<1> QED BY <1>1, <1>2 DEF MemoryFSInv

\* The first file system is the root alone.
LEMMA InitLemma == Init => MemoryFSInv
<1> SUFFICES ASSUME Init PROVE MemoryFSInv
  OBVIOUS
<1>1. Memory
  BY MemoryFSAssumption DEF Init, Memory, Marked
<1>2. \A s \in Slot :
        Maps(s) = [files |-> << >>, dirs |-> {<<>>}, unknownFiles |-> {}]
  BY MemoryFSAssumption DEF Init, Maps
<1>3. WellFormed([files |-> << >>, dirs |-> {<<>>}, unknownFiles |-> {}])
  <2>1. DOMAIN << >> = {}
    OBVIOUS
  <2> QED BY <2>1, PathAssumption DEF WellFormed, FileNames
<1> QED BY <1>1, <1>2, <1>3 DEF MemoryFSInv, TreeShape

\* In every file system of every path files and directories form a tree
\* (writeValueMode, ensureDir, missingDirectories, clone).
THEOREM TreeShapeTheorem == Spec => []TreeShape
<1>1. MemoryFSInv /\ [Next]_vars => MemoryFSInv'
  BY NextLemma
<1>2. MemoryFSInv => TreeShape
  BY DEF MemoryFSInv
<1> QED BY <1>1, <1>2, InitLemma, PTL DEF Spec

\* Nothing that is there disappears or becomes something else: the writes of
\* applyOutputTargets find the files that prepareRedirections opened.
THEOREM FilesStayTheorem == Spec => FilesStay
<1> DEFINE Stay == \A s \in Slot :
             Kept(Maps(s), Maps(s)') \/ \E t \in Slot : Maps(s)' = Maps(t)
<1>1. MemoryFSInv /\ [Next]_vars => MemoryFSInv'
  BY NextLemma
<1>2. MemoryFSInv /\ [Next]_vars => [Stay]_vars
  BY NextLemma DEF GrownOrCopied, Grown
<1> QED BY <1>1, <1>2, InitLemma, PTL DEF Spec, FilesStay

-------------------------------------------------------------------------------
(* The tree of a file system. *)

\* The directories of a path, and the path.
LEMMA SamePaths ==
  /\ \A p, k : Ideal!Prefix(p, k) = Prefix(p, k)
  /\ \A p : Ideal!Parent(p) = Parent(p)
  /\ \A p : Ideal!Entry(p) = Entry(p)
  /\ Ideal!Request = Request
  BY DEF Ideal!Prefix, Prefix, Ideal!Parent, Parent, Ideal!Entry, Entry,
         Ideal!Request, Request

\* Sums, as the specification of the trees has them.
LEMMA SameSums ==
  \A f, S : Ideal!SumFunctionOnSet(f, S) = SumFunctionOnSet(f, S)
  BY Zenon DEF Ideal!SumFunctionOnSet, Ideal!FoldFunctionOnSet, Ideal!MapThenFoldSet,
               SumFunctionOnSet, FoldFunctionOnSet, MapThenFoldSet

\* The types of the maps.
Typed(fs) ==
  /\ FileNames(fs) \subseteq Path /\ fs.dirs \subseteq Path
  /\ \A p \in FileNames(fs) : fs.files[p] \in Seq(Chunk)

\* The tree shows what is in the maps.
LEMMA TreeLemma ==
  ASSUME NEW fs, WellFormed(fs), NEW p \in Path
  PROVE  LET n == TreeOf(fs)[p]
         IN  /\ n = Ideal!Directory <=> p \in fs.dirs
             /\ Ideal!IsFile(n) <=> p \in FileNames(fs)
             /\ n = Ideal!Missing <=> p \notin fs.dirs \cup FileNames(fs)
             /\ p \in FileNames(fs) => /\ n.contents = fs.files[p]
                                       /\ n.unknown = (p \in fs.unknownFiles)
<1> DEFINE n == TreeOf(fs)[p]
<1>1. CASE p \in FileNames(fs)
  <2>1. n = [kind |-> "file", contents |-> fs.files[p], unknown |-> p \in fs.unknownFiles]
    BY <1>1 DEF TreeOf
  <2>2. p \notin fs.dirs
    BY <1>1 DEF WellFormed
  <2>3. n.kind = "file"
    BY <2>1
  <2>4. n # Ideal!Directory /\ n # Ideal!Missing
    BY <2>3 DEF Ideal!Directory, Ideal!Missing
  <2> QED BY <1>1, <2>1, <2>2, <2>3, <2>4 DEF Ideal!IsFile
<1>2. CASE p \notin FileNames(fs)
  <2>1. n = [kind |-> IF p \in fs.dirs THEN "directory" ELSE "missing"]
    BY <1>2 DEF TreeOf
  <2>2. n.kind = IF p \in fs.dirs THEN "directory" ELSE "missing"
    BY <2>1
  <2>3. CASE p \in fs.dirs
    <3>1. n = Ideal!Directory /\ n.kind = "directory" /\ Ideal!Missing.kind = "missing"
      BY <2>1, <2>3 DEF Ideal!Directory, Ideal!Missing
    <3> QED BY <1>2, <2>3, <3>1 DEF Ideal!IsFile
  <2>4. CASE p \notin fs.dirs
    <3>1. n = Ideal!Missing /\ n.kind = "missing" /\ Ideal!Directory.kind = "directory"
      BY <2>1, <2>4 DEF Ideal!Directory, Ideal!Missing
    <3> QED BY <1>2, <2>4, <3>1 DEF Ideal!IsFile
  <2> QED BY <2>3, <2>4
<1> QED BY <1>1, <1>2

\* Well-formed maps have a legal tree.
LEMMA LegalLemma ==
  ASSUME NEW fs, WellFormed(fs)
  PROVE  Ideal!Legal(TreeOf(fs))
<1>1. TreeOf(fs)[<<>>] = Ideal!Directory
  BY TreeLemma, PathAssumption DEF WellFormed
<1>2. TreeOf(fs)[Device] = Ideal!Missing
  BY TreeLemma, PathAssumption DEF WellFormed
<1>3. ASSUME NEW p \in Path \ {<<>>}, TreeOf(fs)[p] # Ideal!Missing
      PROVE  TreeOf(fs)[Parent(p)] = Ideal!Directory
  <2>1. Parent(p) \in fs.dirs
    BY <1>3, TreeLemma DEF WellFormed
  <2> QED BY <2>1, EndsLemma, TreeLemma
<1> QED BY <1>1, <1>2, <1>3, SamePaths DEF Ideal!Legal

\* Everything above a directory is one.
LEMMA DirectoriesAbove ==
  ASSUME NEW fs, WellFormed(fs), NEW p \in Path, NEW k \in 0..Len(p),
         Prefix(p, k) \in fs.dirs, NEW j \in 0..k
  PROVE  Prefix(p, j) \in fs.dirs
<1> DEFINE Bad == {i \in 0..k : Prefix(p, i) \notin fs.dirs}
<1>1. Len(p) \in Nat
  BY LengthLemma
<1>2. Bad = {}
  <2> SUFFICES ASSUME Bad # {} PROVE FALSE
    OBVIOUS
  <2>1. Bad \in SUBSET Int /\ IsFiniteSet(Bad)
    <3>1. 0 \in Int /\ k \in Int
      BY <1>1
    <3>2. IsFiniteSet(0..k)
      BY <3>1, FS_Interval
    <3>3. Bad \in SUBSET (0..k) /\ Bad \in SUBSET Int
      BY <3>1
    <3> HIDE DEF Bad
    <3> QED BY <3>2, <3>3, FS_Subset
  <2>2. PICK m \in Bad : \A x \in Bad : m >= x
    <3> HIDE DEF Bad
    <3> QED BY <2>1, Greatest
  <2>3. m \in 0..k /\ m # k /\ m + 1 \in 0..k /\ m + 1 \in 0..Len(p)
    BY <1>1, <2>2
  <2>4. Prefix(p, m + 1) \in fs.dirs
    BY <2>2, <2>3
  <2>5. /\ Prefix(p, m + 1) # <<>>
        /\ Parent(Prefix(p, m + 1)) = Prefix(p, m)
    <3>1. Len(Prefix(p, m + 1)) = m + 1 /\ Parent(Prefix(p, m + 1)) = Prefix(p, m + 1 - 1)
      BY <2>3, PrefixLemma
    <3>2. m + 1 # 0 /\ m + 1 - 1 = m /\ Len(<<>>) = 0
      BY <2>3
    <3> QED BY <3>1, <3>2
  <2>6. Prefix(p, m) \in fs.dirs
    BY <2>4, <2>5 DEF WellFormed
  <2> QED BY <2>2, <2>6
<1> QED BY <1>2

\* What is above a path and the path, as the specification of the trees has it.
Up(p) == {Prefix(p, k) : k \in 0..Len(p)}

\* What is above a path is the same for both specifications.
LEMMA UpLemma ==
  ASSUME NEW p \in Path
  PROVE  /\ Ideal!UpTo(p) = Up(p) /\ Up(p) \subseteq Path
         /\ p # <<>> => Ideal!Above(p) = Up(Parent(p))
<1>1. Len(p) \in Nat /\ p \in Seq(STRING)
  BY LengthLemma
<1>2. Ideal!Above(p) = {Prefix(p, k) : k \in 0..(Len(p) - 1)}
  BY SamePaths DEF Ideal!Above
<1>3. Ideal!UpTo(p) = Up(p)
  <2>1. Prefix(p, Len(p)) = p
    BY EndsLemma
  <2>2. \A k : k \in 0..Len(p) <=> k \in 0..(Len(p) - 1) \/ k = Len(p)
    BY <1>1
  <2> QED BY <1>2, <2>1, <2>2 DEF Ideal!UpTo, Up
<1>4. Up(p) \subseteq Path
  BY PrefixLemma DEF Up
<1>5. ASSUME p # <<>> PROVE Ideal!Above(p) = Up(Parent(p))
  <2>1. Len(Parent(p)) = Len(p) - 1 /\ Len(p) > 0
    BY <1>5, EndsLemma
  <2>2. ASSUME NEW k \in 0..(Len(p) - 1) PROVE Prefix(Parent(p), k) = Prefix(p, k)
    <3>1. Parent(p) = SubSeq(p, 1, Len(p) - 1)
      BY DEF Parent, Prefix
    <3>2. CASE k = 0
      <4>1. Parent(p) \in Path
        BY EndsLemma
      <4> QED BY <3>2, <4>1, EndsLemma
    <3>3. CASE k > 0
      <4> DEFINE l == Len(p) - 1
      <4>1. l \in Nat /\ k \in 1..l /\ k - 1 \in Nat /\ 1 \in 1..l /\ l \in 1..Len(p)
        BY <1>1, <2>1, <2>2, <3>3
      <4> HIDE DEF l
      <4>2. 1 \in 1..Len(p) /\ 1 \in 1..(l - 1 + 1) /\ k \in 1..(l - 1 + 1)
        BY <1>1, <4>1
      <4>3. SubSeq(SubSeq(p, 1, l), 1, k) = SubSeq(p, 1 + 1 - 1, 1 + k - 1)
        BY <1>1, <4>1, <4>2, SubSeqOfSubSeq
      <4>4. 1 + 1 - 1 = 1 /\ 1 + k - 1 = k
        BY <4>1
      <4> QED BY <3>1, <4>3, <4>4 DEF l, Prefix
    <3> QED BY <2>2, <3>2, <3>3
  <2> QED BY <1>2, <2>1, <2>2 DEF Up
<1> QED BY <1>3, <1>4, <1>5

\* The walk collects what is above a path, and is no directory.
LEMMA MissingUp ==
  ASSUME NEW fs, WellFormed(fs), NEW p \in Path
  PROVE  /\ MissingLevels(fs, p) = {k \in 0..Len(p) : Prefix(p, k) \notin fs.dirs}
         /\ MissingDirectories(fs, p) = {q \in Up(p) : q \notin fs.dirs}
<1>1. Len(p) \in Nat
  BY LengthLemma
<1>2. ASSUME NEW k \in 0..Len(p), Prefix(p, k) \notin fs.dirs
      PROVE  k \in MissingLevels(fs, p)
  <2>1. ASSUME NEW j \in k..Len(p) PROVE Prefix(p, j) \notin fs.dirs
    <3>1. j \in 0..Len(p) /\ k \in 0..j
      BY <1>1, <2>1
    <3> QED BY <1>2, <3>1, DirectoriesAbove
  <2> QED BY <2>1 DEF MissingLevels
<1>3. ASSUME NEW k \in MissingLevels(fs, p)
      PROVE  k \in 0..Len(p) /\ Prefix(p, k) \notin fs.dirs
  BY <1>1 DEF MissingLevels
<1>4. MissingLevels(fs, p) = {k \in 0..Len(p) : Prefix(p, k) \notin fs.dirs}
  BY <1>2, <1>3
<1> QED BY <1>4 DEF MissingDirectories, Up

\* The file system with more directories.
Grow(fs, M) == [files |-> fs.files, dirs |-> fs.dirs \cup M, unknownFiles |-> fs.unknownFiles]
Unused(fs, M) == M \subseteq Path /\ M \cap (fs.dirs \cup FileNames(fs)) = {}

\* The directories that are made in the tree are those that are new in the maps.
LEMMA GrowTree ==
  ASSUME NEW fs, WellFormed(fs), NEW S \in SUBSET Path
  PROVE  LET M == {q \in S : q \notin fs.dirs \cup FileNames(fs)}
         IN  /\ Unused(fs, M)
             /\ Ideal!MakeDirectories(TreeOf(fs), S) = TreeOf(Grow(fs, M))
<1> DEFINE M == {q \in S : q \notin fs.dirs \cup FileNames(fs)}
           new == Grow(fs, M)
<1>1. /\ FileNames(new) = FileNames(fs) /\ new.files = fs.files
      /\ new.dirs = fs.dirs \cup M /\ new.unknownFiles = fs.unknownFiles
  BY DEF Grow, FileNames
<1> HIDE DEF new
<1>2. ASSUME NEW q \in Path
      PROVE  (IF q \in S /\ TreeOf(fs)[q] = Ideal!Missing THEN Ideal!Directory
              ELSE TreeOf(fs)[q]) = TreeOf(new)[q]
  <2>1. TreeOf(fs)[q] = Ideal!Missing <=> q \notin fs.dirs \cup FileNames(fs)
    BY TreeLemma
  <2>2. CASE q \in M
    <3>1. TreeOf(new)[q] = [kind |-> "directory"]
      BY <1>1, <2>2 DEF TreeOf
    <3> QED BY <2>1, <2>2, <3>1 DEF Ideal!Directory
  <2>3. CASE q \notin M
    <3>1. TreeOf(new)[q] = TreeOf(fs)[q]
      BY <1>1, <2>3 DEF TreeOf
    <3> QED BY <2>1, <2>3, <3>1
  <2> QED BY <2>2, <2>3
<1>3. Ideal!MakeDirectories(TreeOf(fs), S) = TreeOf(new)
  BY <1>2 DEF Ideal!MakeDirectories, TreeOf
<1>4. Unused(fs, M)
  BY DEF Unused
<1> QED BY <1>3, <1>4 DEF new

-------------------------------------------------------------------------------
(* The size of a file system. *)

Counted == Path \ {<<>>}
FileCost(fs, p) ==
  Entry(p) + (Len(fs.files[p]) + (IF p \in fs.unknownFiles THEN Entry(p) ELSE 0))
Cost(fs) ==
  [p \in Counted |-> IF p \in FileNames(fs) THEN FileCost(fs, p)
                     ELSE IF p \in fs.dirs THEN Entry(p) ELSE 0]
SizeOf(fs) == SumFunctionOnSet(Cost(fs), Counted)

\* All paths but the root are counted.
LEMMA CountedLemma ==
  /\ IsFiniteSet(Counted) /\ Counted \subseteq Path
  /\ \A p \in Path : Entry(p) \in Nat
  BY PathAssumption, FS_Subset DEF Counted, Entry

\* Every path costs a natural number.
LEMMA CostType ==
  ASSUME NEW fs, Typed(fs)
  PROVE  /\ \A p \in FileNames(fs) : FileCost(fs, p) \in Nat
         /\ \A p \in Counted : Cost(fs)[p] \in Nat
         /\ SizeOf(fs) \in Nat
<1>1. \A p \in FileNames(fs) : Len(fs.files[p]) \in Nat /\ Entry(p) \in Nat
  BY LenProperties, CountedLemma DEF Typed
<1>2. \A p \in FileNames(fs) : FileCost(fs, p) \in Nat
  BY <1>1 DEF FileCost
<1>3. \A p \in Counted : Cost(fs)[p] \in Nat
  BY <1>2, CountedLemma DEF Cost
<1> QED BY <1>2, <1>3, CountedLemma, SumNatural DEF SizeOf

\* The size of the tree is the sum over the maps.
LEMMA SizeLemma ==
  ASSUME NEW fs, FileNames(fs) \cap fs.dirs = {}
  PROVE  /\ \A p \in Counted : Ideal!NodeSize(p, TreeOf(fs)[p]) = Cost(fs)[p]
         /\ Ideal!Size(TreeOf(fs)) = SizeOf(fs)
<1>1. ASSUME NEW p \in Counted
      PROVE  Ideal!NodeSize(p, TreeOf(fs)[p]) = Cost(fs)[p]
  <2> DEFINE n == TreeOf(fs)[p]
  <2>1. p \in Path /\ Ideal!Entry(p) = Entry(p)
    BY SamePaths, CountedLemma
  <2>2. CASE p \in FileNames(fs)
    <3>1. n = [kind |-> "file", contents |-> fs.files[p], unknown |-> p \in fs.unknownFiles]
      BY <2>1, <2>2 DEF TreeOf
    <3>2. /\ n.kind = "file" /\ n.contents = fs.files[p]
          /\ n.unknown = (p \in fs.unknownFiles)
      BY <3>1
    <3>3. n # Ideal!Missing /\ Ideal!IsFile(n)
      BY <3>2 DEF Ideal!Missing, Ideal!IsFile
    <3> HIDE DEF n
    <3>4. Ideal!NodeSize(p, n)
            = Entry(p) + (Len(n.contents) + (IF n.unknown THEN Entry(p) ELSE 0))
      BY <2>1, <3>3 DEF Ideal!NodeSize
    <3>5. Cost(fs)[p] = FileCost(fs, p)
      BY <2>2 DEF Cost
    <3> QED BY <3>2, <3>4, <3>5 DEF FileCost, n
  <2>3. CASE p \in fs.dirs
    <3>1. p \notin FileNames(fs) /\ n = Ideal!Directory
      BY <2>1, <2>3 DEF TreeOf, Ideal!Directory
    <3>2. n.kind = "directory" /\ Ideal!Missing.kind = "missing"
      BY <3>1 DEF Ideal!Directory, Ideal!Missing
    <3> HIDE DEF n
    <3>3. Ideal!NodeSize(p, n) = Entry(p) + 0
      BY <2>1, <3>2 DEF Ideal!NodeSize, Ideal!IsFile
    <3>4. Cost(fs)[p] = Entry(p)
      BY <2>3, <3>1 DEF Cost
    <3> QED BY <2>1, <3>3, <3>4, CountedLemma DEF n
  <2>4. CASE p \notin fs.dirs \cup FileNames(fs)
    <3>1. n = Ideal!Missing
      BY <2>1, <2>4 DEF TreeOf, Ideal!Missing
    <3>2. Ideal!NodeSize(p, n) = 0
      BY <3>1 DEF Ideal!NodeSize
    <3> QED BY <2>4, <3>2 DEF Cost
  <2> QED BY <2>2, <2>3, <2>4
<1>2. [p \in Counted |-> Ideal!NodeSize(p, TreeOf(fs)[p])] = Cost(fs)
  BY <1>1 DEF Cost
<1>3. Ideal!Size(TreeOf(fs)) = SizeOf(fs)
  BY <1>2, SameSums DEF Ideal!Size, SizeOf, Counted
<1> QED BY <1>1, <1>3

\* New directories count as their entries.
LEMMA GrowSize ==
  ASSUME NEW fs, WellFormed(fs), Typed(fs), NEW M, Unused(fs, M)
  PROVE  /\ Typed(Grow(fs, M))
         /\ SizeOf(Grow(fs, M)) = SizeOf(fs) + BytesOf(M)
         /\ BytesOf(M) \in Nat
<1> DEFINE new == Grow(fs, M)
           f   == [p \in M |-> Entry(p)]
           d   == [p \in Counted |-> IF p \in M THEN f[p] ELSE 0]
<1>1. /\ FileNames(new) = FileNames(fs) /\ new.files = fs.files
      /\ new.dirs = fs.dirs \cup M /\ new.unknownFiles = fs.unknownFiles
  BY DEF Grow, FileNames
<1>2. M \subseteq Counted
  BY DEF Unused, WellFormed, Counted
<1>3. \A p \in M : f[p] \in Nat
  BY <1>2, CountedLemma
<1> HIDE DEF new
<1>4. Typed(new)
  BY <1>1 DEF Typed, Unused
<1>5. \A p \in Counted : Cost(new)[p] = Cost(fs)[p] + d[p]
  <2> SUFFICES ASSUME NEW p \in Counted PROVE Cost(new)[p] = Cost(fs)[p] + d[p]
    OBVIOUS
  <2>1. FileCost(new, p) = FileCost(fs, p)
    BY <1>1 DEF FileCost
  <2>2. Cost(fs)[p] \in Nat /\ Entry(p) \in Nat
    BY CostType, CountedLemma
  <2>3. CASE p \in M
    <3>1. Cost(fs)[p] = 0 /\ Cost(new)[p] = Entry(p)
      BY <1>1, <2>3 DEF Cost, Unused
    <3> QED BY <2>2, <2>3, <3>1
  <2>4. CASE p \notin M
    <3>1. Cost(new)[p] = Cost(fs)[p]
      BY <1>1, <2>1, <2>4 DEF Cost
    <3> QED BY <2>2, <2>4, <3>1
  <2> QED BY <2>3, <2>4
<1>6. BytesOf(M) = SumFunctionOnSet(f, M) /\ IsFiniteSet(M)
  BY <1>2, CountedLemma, FS_Subset DEF BytesOf
<1>7. /\ \A p \in M : f[p] \in Int
      /\ \A p \in Counted : d[p] = IF p \in M THEN f[p] ELSE 0
      /\ \A p \in Counted : d[p] \in Int
  BY <1>3
<1> HIDE DEF f, d
<1>8. SumFunctionOnSet(d, Counted) = SumFunctionOnSet(f, M)
  BY <1>2, <1>7, CountedLemma, SumWithin
<1>9. \A p \in Counted : Cost(fs)[p] \in Int
  BY CostType
<1>10. SumFunctionOnSet(Cost(new), Counted)
         = SumFunctionOnSet(Cost(fs), Counted) + SumFunctionOnSet(d, Counted)
  <2>1. \A p \in Counted : Cost(fs)[p] \in Int /\ d[p] \in Int
                           /\ Cost(new)[p] = Cost(fs)[p] + d[p]
    BY <1>5, <1>7, <1>9
  <2>2. \A p \in Counted : Cost(new)[p] \in Int
    BY <2>1
  <2> QED BY <2>1, <2>2, CountedLemma, SumAdd
<1>11. SumFunctionOnSet(f, M) \in Nat
  BY <1>3, <1>6, SumNatural
<1> QED BY <1>4, <1>6, <1>8, <1>10, <1>11 DEF SizeOf, new

-------------------------------------------------------------------------------
(* What a write leaves. *)

\* The directories a write makes are free, whether it is refused for its size
\* or not.
Fits(fs, w) == Unused(fs, NewParents(fs, w)) /\ w.path \notin NewParents(fs, w)

\* What a write makes was neither a directory nor a file.
LEMMA FreeLemma ==
  ASSUME NEW fs, WellFormed(fs), NEW used, NEW w \in Request, w.path \notin fs.dirs,
         w.createParents => WalkError(fs, used, Parent(w.path)) = ""
  PROVE  Fits(fs, w)
<1>1. w.path \in Path /\ w.path # <<>> /\ Parent(w.path) \in Path
  BY EndsLemma DEF Request, WellFormed
<1>2. CASE w.createParents
  <2> DEFINE P == Parent(w.path)
             M == MissingDirectories(fs, P)
  <2>1. NewParents(fs, w) = M
    BY <1>2 DEF NewParents
  <2>2. \A q \in M : q \notin FileNames(fs)
    BY <1>1, <1>2, WalkLemma
  <2>3. M = {q \in Up(P) : q \notin fs.dirs} /\ Up(P) \subseteq Path
    BY <1>1, MissingUp, UpLemma
  <2>4. w.path \notin Up(P)
    BY <1>1, AboveLemma DEF Up
  <2> HIDE DEF M, P
  <2> QED BY <2>1, <2>2, <2>3, <2>4 DEF Fits, Unused
<1>3. CASE ~w.createParents
  BY <1>3 DEF NewParents, Fits, Unused
<1> QED BY <1>2, <1>3

\* A write leaves the tree that was asked for.
LEMMA WrittenTree ==
  ASSUME NEW fs, WellFormed(fs), Typed(fs), NEW w \in Request,
         w.path \notin fs.dirs, Fits(fs, w)
  PROVE  TreeOf(Written(fs, w)) = Ideal!Put(TreeOf(fs), w)
<1> DEFINE M    == NewParents(fs, w)
           S    == IF w.createParents THEN Ideal!Above(w.path) ELSE {}
           made == Ideal!MakeDirectories(TreeOf(fs), S)
           new  == Written(fs, w)
<1>1. w.path \in Path /\ w.path # <<>> /\ Parent(w.path) \in Path
  BY EndsLemma DEF Request, WellFormed
<1>2. S \subseteq Path /\ M = {q \in S : q \notin fs.dirs \cup FileNames(fs)}
  <2>1. CASE w.createParents
    <3>1. S = Up(Parent(w.path)) /\ S \subseteq Path
      BY <1>1, <2>1, UpLemma
    <3>2. M = {q \in Up(Parent(w.path)) : q \notin fs.dirs}
      BY <1>1, <2>1, MissingUp DEF NewParents
    <3>3. M \cap FileNames(fs) = {}
      BY DEF Fits, Unused
    <3> HIDE DEF S, M
    <3> QED BY <3>1, <3>2, <3>3
  <2>2. CASE ~w.createParents
    BY <2>2 DEF NewParents
  <2> QED BY <2>1, <2>2
<1> HIDE DEF S
<1>3. made = TreeOf(Grow(fs, M))
  BY <1>2, GrowTree
<1>4. w.path \notin M
  BY DEF Fits
<1>5. /\ FileNames(new) = FileNames(fs) \cup {w.path}
      /\ \A q \in FileNames(fs) \ {w.path} : new.files[q] = fs.files[q]
      /\ new.files[w.path] = IF w.append /\ w.path \in FileNames(fs)
                             THEN fs.files[w.path] \o w.contents ELSE w.contents
      /\ new.dirs = fs.dirs \cup M
      /\ \A q \in Path \ {w.path} : q \in new.unknownFiles <=> q \in fs.unknownFiles
      /\ w.path \in new.unknownFiles <=> ResultUnknown(fs, w)
  BY DEF Written, FileNames
<1>6. /\ FileNames(Grow(fs, M)) = FileNames(fs) /\ Grow(fs, M).files = fs.files
      /\ Grow(fs, M).dirs = fs.dirs \cup M /\ Grow(fs, M).unknownFiles = fs.unknownFiles
  BY DEF Grow, FileNames
<1> HIDE DEF new, M
<1>7. ASSUME NEW q \in Path, q # w.path PROVE TreeOf(new)[q] = made[q]
  <2>1. q \in FileNames(new) <=> q \in FileNames(fs)
    BY <1>5, <1>7
  <2>2. made[q] = TreeOf(Grow(fs, M))[q]
    BY <1>3
  <2>3. CASE q \in FileNames(fs)
    <3>1. /\ new.files[q] = fs.files[q]
          /\ (q \in new.unknownFiles) = (q \in fs.unknownFiles)
      BY <1>5, <1>7, <2>3
    <3>2. made[q] = [kind |-> "file", contents |-> fs.files[q],
                     unknown |-> q \in fs.unknownFiles]
      BY <1>6, <2>2, <2>3 DEF TreeOf
    <3>3. TreeOf(new)[q] = [kind |-> "file", contents |-> new.files[q],
                            unknown |-> q \in new.unknownFiles]
      BY <2>1, <2>3 DEF TreeOf
    <3> QED BY <3>1, <3>2, <3>3
  <2>4. CASE q \notin FileNames(fs)
    <3>1. made[q] = [kind |-> IF q \in fs.dirs \cup M THEN "directory" ELSE "missing"]
      BY <1>6, <2>2, <2>4 DEF TreeOf
    <3>2. TreeOf(new)[q] = [kind |-> IF q \in new.dirs THEN "directory" ELSE "missing"]
      BY <2>1, <2>4 DEF TreeOf
    <3> QED BY <1>5, <3>1, <3>2
  <2> QED BY <2>3, <2>4
<1>8. made[w.path] = TreeOf(fs)[w.path]
  BY <1>1, <1>3, <1>4, <1>6 DEF TreeOf
<1>9. TreeOf(new)[w.path] = Ideal!FileAfter(TreeOf(fs)[w.path], w)
  <2> DEFINE n   == TreeOf(fs)[w.path]
             old == IF w.append /\ Ideal!IsFile(n) THEN n
                    ELSE [contents |-> <<>>, unknown |-> FALSE]
  <2>1. /\ Ideal!IsFile(n) <=> w.path \in FileNames(fs)
        /\ w.path \in FileNames(fs) => /\ n.contents = fs.files[w.path]
                                       /\ n.unknown = (w.path \in fs.unknownFiles)
    BY <1>1, TreeLemma
  <2>2. w.unknown \in BOOLEAN /\ w.contents \in Seq(Chunk)
    BY PathAssumption DEF Request
  <2>3. Ideal!FileAfter(n, w) = [kind |-> "file", contents |-> old.contents \o w.contents,
                                 unknown |-> w.unknown \/ old.unknown]
    BY DEF Ideal!FileAfter
  <2>4. TreeOf(new)[w.path] = [kind |-> "file", contents |-> new.files[w.path],
                               unknown |-> w.path \in new.unknownFiles]
    BY <1>1, <1>5 DEF TreeOf
  <2> HIDE DEF n
  <2>5. /\ old.contents \o w.contents = new.files[w.path]
        /\ (w.unknown \/ old.unknown) = (w.path \in new.unknownFiles)
    <3>1. CASE w.append /\ w.path \in FileNames(fs)
      <4>1. old = n
        BY <2>1, <3>1
      <4>2. old.contents \o w.contents = new.files[w.path]
        BY <1>5, <2>1, <3>1, <4>1
      <4>3. ResultUnknown(fs, w) <=> w.unknown \/ w.path \in fs.unknownFiles
        BY <3>1 DEF ResultUnknown
      <4>4. (w.unknown \/ w.path \in fs.unknownFiles) = (w.path \in new.unknownFiles)
        BY <1>5, <4>3
      <4>5. old.unknown = (w.path \in fs.unknownFiles)
        BY <2>1, <3>1, <4>1
      <4> HIDE DEF old
      <4>6. (w.unknown \/ old.unknown) = (w.path \in new.unknownFiles)
        BY <4>4, <4>5, Zenon
      <4> QED BY <4>2, <4>6
    <3>2. CASE ~(w.append /\ w.path \in FileNames(fs))
      <4>1. old.contents = <<>> /\ old.unknown = FALSE
        BY <2>1, <3>2
      <4>2. old.contents \o w.contents = new.files[w.path]
        BY <1>5, <2>2, <3>2, <4>1, ConcatEmptySeq
      <4>3. ResultUnknown(fs, w) <=> w.unknown
        BY <3>2 DEF ResultUnknown, WellFormed
      <4>4. (w.unknown \/ FALSE) = (w.path \in new.unknownFiles)
        BY <1>5, <4>3
      <4>5. old.unknown = FALSE
        BY <4>1
      <4> HIDE DEF old
      <4>6. (w.unknown \/ old.unknown) = (w.path \in new.unknownFiles)
        BY <4>4, <4>5, Zenon
      <4> QED BY <4>2, <4>6
    <3> QED BY <3>1, <3>2
  <2> QED BY <2>3, <2>4, <2>5 DEF n
<1>10. Ideal!Put(TreeOf(fs), w) = [made EXCEPT ![w.path] = Ideal!FileAfter(@, w)]
  BY DEF Ideal!Put, S
<1>11. TreeOf(new) = [q \in Path |-> TreeOf(new)[q]] /\ made = [q \in Path |-> made[q]]
  BY DEF TreeOf, Ideal!MakeDirectories
<1> HIDE DEF made
<1> QED BY <1>1, <1>7, <1>8, <1>9, <1>10, <1>11 DEF new

\* A write is charged for what it leaves.
LEMMA WrittenSize ==
  ASSUME NEW fs, WellFormed(fs), Typed(fs), NEW w \in Request,
         w.path \notin fs.dirs, Fits(fs, w)
  PROVE  /\ Typed(Written(fs, w))
         /\ SizeOf(Written(fs, w)) = ResultBytes(fs, SizeOf(fs), w)
         /\ ContentBytes(fs, SizeOf(fs), w) \in Int
         /\ ResultBytes(fs, SizeOf(fs), w) \in Int
<1> DEFINE M    == NewParents(fs, w)
           mid  == Grow(fs, M)
           new  == Written(fs, w)
           p    == w.path
           len  == Len(w.contents)
           e    == Entry(p)
<1>1. /\ p \in Path /\ p \in Counted
      /\ w.contents \in Seq(Chunk) /\ len \in Nat /\ e \in Nat
      /\ Unused(fs, M) /\ p \notin M
  <2>1. p \in Path /\ w.contents \in Seq(Chunk) /\ p # <<>>
    BY PathAssumption DEF Request, WellFormed
  <2> QED BY <2>1, CountedLemma, LenProperties DEF Counted, Fits
<1>2. /\ FileNames(new) = FileNames(fs) \cup {p}
      /\ \A q \in FileNames(fs) \ {p} : new.files[q] = fs.files[q]
      /\ new.files[p] = IF w.append /\ p \in FileNames(fs)
                             THEN fs.files[p] \o w.contents ELSE w.contents
      /\ new.dirs = fs.dirs \cup M
      /\ \A q \in Path \ {p} : q \in new.unknownFiles <=> q \in fs.unknownFiles
      /\ p \in new.unknownFiles <=> ResultUnknown(fs, w)
  BY DEF Written, FileNames
<1>3. /\ FileNames(mid) = FileNames(fs) /\ mid.files = fs.files
      /\ mid.dirs = fs.dirs \cup M /\ mid.unknownFiles = fs.unknownFiles
  BY DEF Grow, FileNames
<1>4. /\ Typed(mid) /\ SizeOf(mid) = SizeOf(fs) + BytesOf(M) /\ BytesOf(M) \in Nat
  BY <1>1, GrowSize
<1>5. SizeOf(fs) \in Nat
  BY CostType
<1> HIDE DEF M, mid, new, p, len
<1>6. p \in FileNames(fs) => fs.files[p] \in Seq(Chunk) /\ Len(fs.files[p]) \in Nat
  BY LenProperties DEF Typed
<1>7. /\ new.files[p] \in Seq(Chunk)
      /\ Len(new.files[p]) = IF w.append /\ p \in FileNames(fs)
                             THEN Len(fs.files[p]) + len ELSE len
  <2>1. p \in FileNames(fs) =>
          /\ fs.files[p] \o w.contents \in Seq(Chunk)
          /\ Len(fs.files[p] \o w.contents) = Len(fs.files[p]) + len
    BY <1>1, <1>6, ConcatProperties DEF len
  <2> QED BY <1>1, <1>2, <2>1 DEF len
<1>8. Typed(new)
  BY <1>1, <1>2, <1>7 DEF Typed, Unused
<1>9. \A q \in Counted \ {p} : Cost(new)[q] = Cost(mid)[q]
  <2> SUFFICES ASSUME NEW q \in Counted \ {p} PROVE Cost(new)[q] = Cost(mid)[q]
    OBVIOUS
  <2>1. q \in Path /\ (q \in FileNames(new) <=> q \in FileNames(mid))
    BY <1>2, <1>3, CountedLemma
  <2>2. CASE q \in FileNames(new)
    <3>1. new.files[q] = mid.files[q] /\ (q \in new.unknownFiles <=> q \in mid.unknownFiles)
      BY <1>2, <1>3, <2>1, <2>2
    <3>2. FileCost(new, q) = FileCost(mid, q)
      BY <3>1 DEF FileCost
    <3> QED BY <2>1, <2>2, <3>2 DEF Cost
  <2>3. CASE q \notin FileNames(new)
    BY <1>2, <1>3, <2>1, <2>3 DEF Cost
  <2> QED BY <2>2, <2>3
<1>10. Cost(new)[p] = e + (Len(new.files[p]) + (IF ResultUnknown(fs, w) THEN e ELSE 0))
  BY <1>1, <1>2 DEF Cost, FileCost
<1>11. Cost(mid)[p] = IF p \in FileNames(fs)
                      THEN e + (Len(fs.files[p]) + (IF p \in fs.unknownFiles THEN e ELSE 0))
                      ELSE 0
  <2>1. p \notin mid.dirs
    BY <1>1, <1>3 DEF p
  <2> QED BY <1>1, <1>3, <2>1 DEF Cost, FileCost
<1>12. SizeOf(new) = SizeOf(mid) + (Cost(new)[p] - Cost(mid)[p])
  <2>1. \A q \in Counted : Cost(mid)[q] \in Int /\ Cost(new)[q] \in Int
    BY <1>4, <1>8, CostType
  <2> QED BY <1>1, <1>9, <2>1, CountedLemma, SumOne DEF SizeOf
<1>13. p \in fs.unknownFiles => p \in FileNames(fs)
  BY DEF WellFormed
<1>14. ResultUnknown(fs, w) \in BOOLEAN /\ w.append \in BOOLEAN
  BY DEF ResultUnknown, Request
<1>15. ContentBytes(fs, SizeOf(fs), w) =
         SizeOf(fs) + BytesOf(M) + len
         + (IF p \notin FileNames(fs) THEN e
            ELSE IF w.append THEN 0 ELSE - Len(fs.files[p]))
  BY DEF ContentBytes, M, p, len
<1>16. ResultBytes(fs, SizeOf(fs), w) =
         ContentBytes(fs, SizeOf(fs), w)
         + (IF ResultUnknown(fs, w) THEN e ELSE 0)
         - (IF p \in fs.unknownFiles THEN e ELSE 0)
  BY DEF ResultBytes, p
<1> HIDE DEF e
<1>17. /\ ContentBytes(fs, SizeOf(fs), w) \in Int
       /\ ResultBytes(fs, SizeOf(fs), w) \in Int
  BY <1>1, <1>4, <1>5, <1>6, <1>15, <1>16
<1>18. SizeOf(new) = ResultBytes(fs, SizeOf(fs), w)
  <2> DEFINE r   == IF ResultUnknown(fs, w) THEN e ELSE 0
             u   == IF p \in fs.unknownFiles THEN e ELSE 0
             old == Len(fs.files[p])
             b   == BytesOf(M)
             all == SizeOf(fs)
  <2>1. r \in Int /\ u \in Int /\ e \in Int /\ len \in Int /\ b \in Int /\ all \in Int
    BY <1>1, <1>4, <1>5
  <2>2. /\ Cost(new)[p] = e + (Len(new.files[p]) + r)
        /\ SizeOf(new) = all + b + (Cost(new)[p] - Cost(mid)[p])
        /\ ResultBytes(fs, all, w) = ContentBytes(fs, all, w) + r - u
    BY <1>4, <1>10, <1>12, <1>16
  <2>3. p \in FileNames(fs) => old \in Int /\ Cost(mid)[p] = e + (old + u)
    BY <1>6, <1>11
  <2>4. p \notin FileNames(fs) => u = 0 /\ Cost(mid)[p] = 0
    BY <1>11, <1>13
  <2>5. ContentBytes(fs, all, w) =
          all + b + len + (IF p \notin FileNames(fs) THEN e
                           ELSE IF w.append THEN 0 ELSE - old)
    BY <1>15
  <2>6. Len(new.files[p]) = IF w.append /\ p \in FileNames(fs) THEN old + len ELSE len
    BY <1>7
  <2> HIDE DEF r, u, old, b, all
  <2>7. ASSUME p \in FileNames(fs), w.append
        PROVE  SizeOf(new) = ResultBytes(fs, all, w)
    BY <2>1, <2>2, <2>3, <2>5, <2>6, <2>7
  <2>8. ASSUME p \in FileNames(fs), ~w.append
        PROVE  SizeOf(new) = ResultBytes(fs, all, w)
    BY <2>1, <2>2, <2>3, <2>5, <2>6, <2>8
  <2>9. ASSUME p \notin FileNames(fs)
        PROVE  SizeOf(new) = ResultBytes(fs, all, w)
    BY <2>1, <2>2, <2>4, <2>5, <2>6, <2>9
  <2>10. SizeOf(new) = ResultBytes(fs, all, w)
    BY <2>7, <2>8, <2>9
  <2> QED BY <2>10 DEF all
<1> QED BY <1>8, <1>17, <1>18 DEF new

\* Max, of a set of numbers that is not empty.
LEMMA MaxLemma ==
  ASSUME NEW S \in SUBSET Int, IsFiniteSet(S), S # {}
  PROVE  Max(S) \in S /\ \A x \in S : Max(S) >= x
<1>1. \E m \in S : \A x \in S : m >= x
  BY Greatest
<1> QED BY <1>1, Zenon DEF Max

-------------------------------------------------------------------------------
(* What a refusal for the size means. *)

\* The levels are those below the last directory.
LEMMA LevelsLemma ==
  ASSUME NEW fs, WellFormed(fs), NEW p \in Path
  PROVE  \E m \in 0..Len(p) : MissingLevels(fs, p) = (m + 1)..Len(p)
<1> DEFINE there == {k \in 0..Len(p) : Prefix(p, k) \in fs.dirs}
<1>1. Len(p) \in Nat
  BY LengthLemma
<1>2. there \in SUBSET Int /\ IsFiniteSet(there)
  <2>1. 0 \in Int /\ Len(p) \in Int
    BY <1>1
  <2>2. IsFiniteSet(0..Len(p))
    BY <2>1, FS_Interval
  <2>3. there \in SUBSET (0..Len(p)) /\ there \in SUBSET Int
    BY <2>1
  <2> HIDE DEF there
  <2> QED BY <2>2, <2>3, FS_Subset
<1>3. 0 \in there
  BY <1>1, EndsLemma DEF WellFormed
<1>4. PICK m \in there : \A x \in there : m >= x
  <2> HIDE DEF there
  <2> QED BY <1>2, <1>3, Greatest
<1>5. m \in 0..Len(p)
  BY <1>4
<1>6. ASSUME NEW k \in 0..Len(p)
      PROVE  Prefix(p, k) \notin fs.dirs <=> k \in (m + 1)..Len(p)
  <2>1. CASE k <= m
    <3>1. Prefix(p, k) \in fs.dirs
      <4>1. m \in 0..Len(p) /\ Prefix(p, m) \in fs.dirs /\ k \in 0..m
        BY <1>1, <1>4, <2>1
      <4> QED BY <4>1, DirectoriesAbove
    <3> QED BY <1>1, <1>5, <2>1, <3>1
  <2>2. CASE k > m
    BY <1>1, <1>4, <1>5, <2>2
  <2> QED BY <1>1, <1>5, <2>1, <2>2
<1>7. MissingLevels(fs, p) = {k \in 0..Len(p) : Prefix(p, k) \notin fs.dirs}
  BY MissingUp
<1>8. (m + 1)..Len(p) \subseteq 0..Len(p)
  BY <1>1, <1>5
<1>9. MissingLevels(fs, p) = (m + 1)..Len(p)
  BY <1>6, <1>7, <1>8
<1> QED BY <1>5, <1>9

\* What is above a path, and neither a directory nor a file.
Clear(fs, p) == {q \in Up(p) : q \notin fs.dirs \cup FileNames(fs)}

\* The bytes of fewer paths are not more.
LEMMA BytesLemma ==
  ASSUME NEW S \in SUBSET Path, NEW T \in SUBSET S
  PROVE  BytesOf(S) \in Nat /\ BytesOf(T) \in Nat /\ BytesOf(T) <= BytesOf(S)
<1> DEFINE f == [p \in S |-> Entry(p)]
           g == [p \in T |-> Entry(p)]
<1>1. IsFiniteSet(S) /\ IsFiniteSet(T)
  BY PathAssumption, FS_Subset
<1>2. /\ \A p \in S : f[p] \in Nat
      /\ \A p \in T : g[p] \in Nat /\ f[p] = g[p]
  BY CountedLemma
<1>3. BytesOf(S) = SumFunctionOnSet(f, S) /\ BytesOf(T) = SumFunctionOnSet(g, T)
  BY DEF BytesOf
<1> HIDE DEF f, g
<1>4. SumFunctionOnSet(f, S) \in Nat /\ SumFunctionOnSet(g, T) \in Nat
  BY <1>1, <1>2, SumNatural
<1>5. SumFunctionOnSet(f, T) = SumFunctionOnSet(g, T)
  BY <1>1, <1>2, SumSame
<1>6. SumFunctionOnSet(f, T) <= SumFunctionOnSet(f, S)
  BY <1>1, <1>2, SumPart
<1> QED BY <1>3, <1>4, <1>5, <1>6

\* The walk says "not directory" where there is a file or the device on the
\* way.  Where it stops for the limit the way below is clear, and what it has
\* collected of it is too much already.
LEMMA WalkRefused ==
  ASSUME NEW fs, WellFormed(fs), Typed(fs), NEW p \in Path
  PROVE  \/ WalkError(fs, SizeOf(fs), p) = ""
         \/ /\ WalkError(fs, SizeOf(fs), p) = "not directory"
            /\ \E q \in Up(p) : q = Device \/ q \in FileNames(fs)
         \/ /\ WalkError(fs, SizeOf(fs), p) = "limit"
            /\ SizeOf(fs) + BytesOf(Clear(fs, p)) > MaximumBytes
<1> DEFINE levels   == MissingLevels(fs, p)
           below(k) == {Prefix(p, j) : j \in levels \cap k..Len(p)}
           blocked  == Blocked(fs, p, levels)
           tooMany  == {k \in levels : SizeOf(fs) + BytesOf(below(k)) > MaximumBytes}
           stops    == blocked \cup tooMany
           k        == Max(stops)
<1>1. WalkError(fs, SizeOf(fs), p) =
        IF stops = {} THEN "" ELSE IF k \in blocked THEN "not directory" ELSE "limit"
  BY DEF WalkError
<1>2. Len(p) \in Nat /\ levels \subseteq 0..Len(p)
  BY LengthLemma DEF MissingLevels
<1>3. /\ blocked \subseteq levels /\ tooMany \subseteq levels
      /\ stops = blocked \cup tooMany /\ stops \subseteq levels
      /\ \A j \in tooMany : SizeOf(fs) + BytesOf(below(j)) > MaximumBytes
      /\ \A j \in levels : j \in blocked <=>
           Prefix(p, j) = Device \/ Prefix(p, j) \in FileNames(fs)
  BY DEF Blocked
<1> HIDE DEF blocked, tooMany, stops, k
<1> SUFFICES ASSUME stops # {}
             PROVE  \/ /\ k \in blocked
                       /\ \E q \in Up(p) : q = Device \/ q \in FileNames(fs)
                    \/ /\ k \notin blocked
                       /\ SizeOf(fs) + BytesOf(Clear(fs, p)) > MaximumBytes
  BY <1>1
<1>4. stops \in SUBSET Int /\ IsFiniteSet(stops)
  <2>1. IsFiniteSet(0..Len(p)) /\ stops \subseteq 0..Len(p)
    <3>1. IsFiniteSet(0..Len(p))
      <4>1. 0 \in Int /\ Len(p) \in Int
        BY <1>2
      <4> QED BY <4>1, FS_Interval
    <3>2. stops \subseteq levels
      BY <1>3
    <3> HIDE DEF levels
    <3> QED BY <1>2, <3>1, <3>2
  <2>2. stops \in SUBSET (0..Len(p)) /\ stops \in SUBSET Int
    BY <1>2, <2>1
  <2> QED BY <2>1, <2>2, FS_Subset
<1>5. k \in stops /\ \A j \in stops : k >= j
  BY <1>4, MaxLemma DEF k
<1>6. k \in levels /\ k \in 0..Len(p)
  BY <1>2, <1>3, <1>5
<1>7. CASE k \in blocked
  <2>1. Prefix(p, k) = Device \/ Prefix(p, k) \in FileNames(fs)
    BY <1>3, <1>6, <1>7
  <2>2. Prefix(p, k) \in Up(p)
    BY <1>6 DEF Up
  <2> QED BY <1>7, <2>1, <2>2
<1>8. CASE k \notin blocked
  <2>1. SizeOf(fs) + BytesOf(below(k)) > MaximumBytes
    BY <1>3, <1>5, <1>8
  <2>2. below(k) \subseteq Clear(fs, p)
    <3> SUFFICES ASSUME NEW j \in levels \cap k..Len(p) PROVE Prefix(p, j) \in Clear(fs, p)
      OBVIOUS
    <3>1. j \in 0..Len(p) /\ Prefix(p, j) \notin fs.dirs
      BY MissingUp
    <3>2. j \notin blocked
      <4>1. j >= k /\ j \in Int /\ k \in Int
        BY <1>2, <1>6
      <4> QED BY <1>3, <1>5, <1>8, <4>1
    <3>3. Prefix(p, j) \notin FileNames(fs)
      BY <1>3, <3>2
    <3> QED BY <3>1, <3>3 DEF Clear, Up
  <2>3. Clear(fs, p) \subseteq Path
    BY UpLemma DEF Clear
  <2> HIDE DEF below
  <2>4. /\ BytesOf(below(k)) <= BytesOf(Clear(fs, p))
        /\ BytesOf(below(k)) \in Nat /\ BytesOf(Clear(fs, p)) \in Nat
    BY <2>2, <2>3, BytesLemma
  <2>5. SizeOf(fs) + BytesOf(Clear(fs, p)) > MaximumBytes
    BY CostType, <2>1, <2>4, PathAssumption
  <2> QED BY <1>8, <2>5
<1> QED BY <1>7, <1>8

\* A walk that does not fail leaves room for the directories it has collected.
LEMMA WalkAllowed ==
  ASSUME NEW fs, WellFormed(fs), Typed(fs), SizeOf(fs) <= MaximumBytes, NEW p \in Path
  PROVE  WalkError(fs, SizeOf(fs), p) = "" =>
           /\ MissingDirectories(fs, p) = Clear(fs, p)
           /\ Unused(fs, MissingDirectories(fs, p))
           /\ SizeOf(fs) + BytesOf(MissingDirectories(fs, p)) <= MaximumBytes
<1> DEFINE levels   == MissingLevels(fs, p)
           below(k) == {Prefix(p, j) : j \in levels \cap k..Len(p)}
           tooMany  == {k \in levels : SizeOf(fs) + BytesOf(below(k)) > MaximumBytes}
           all      == MissingDirectories(fs, p)
<1>1. WalkError(fs, SizeOf(fs), p) = "" =>
        tooMany = {} /\ Blocked(fs, p, levels) = {}
  BY DEF WalkError
<1> SUFFICES ASSUME tooMany = {}, Blocked(fs, p, levels) = {}
             PROVE  /\ all = Clear(fs, p) /\ Unused(fs, all)
                    /\ SizeOf(fs) + BytesOf(all) <= MaximumBytes
  BY <1>1
<1>2. \A q \in all : q \notin FileNames(fs)
  BY DEF Blocked, MissingDirectories
<1>3. all = {q \in Up(p) : q \notin fs.dirs} /\ Up(p) \subseteq Path
  BY MissingUp, UpLemma
<1>4. all = Clear(fs, p) /\ Unused(fs, all)
  <2> HIDE DEF all
  <2> QED BY <1>2, <1>3 DEF Clear, Unused
<1>5. SizeOf(fs) + BytesOf(all) <= MaximumBytes
  <2>1. Len(p) \in Nat
    BY LengthLemma
  <2>2. PICK m \in 0..Len(p) : levels = (m + 1)..Len(p)
    BY LevelsLemma
  <2>3. CASE m = Len(p)
    <3>1. levels = {}
      BY <2>1, <2>2, <2>3
    <3>2. all = {}
      BY <3>1 DEF MissingDirectories
    <3>3. BytesOf(all) = 0
      <4> HIDE DEF all
      <4> QED BY <3>2, SumEmpty DEF BytesOf
    <3> HIDE DEF all
    <3> QED BY <3>3, CostType
  <2>4. CASE m # Len(p)
    <3>1. m + 1 \in levels
      BY <2>1, <2>2, <2>4
    <3>2. levels \cap (m + 1)..Len(p) = levels
      BY <2>2
    <3>3. below(m + 1) = all
      BY <3>2 DEF MissingDirectories
    <3>4. ~(SizeOf(fs) + BytesOf(below(m + 1)) > MaximumBytes)
      BY <3>1
    <3>5. all \subseteq Path
      BY <1>4 DEF Unused
    <3> HIDE DEF all, below
    <3>6. BytesOf(all) \in Nat
      BY <3>5, BytesLemma
    <3> QED BY <3>3, <3>4, <3>6, CostType, PathAssumption
  <2> QED BY <2>3, <2>4
<1> QED BY <1>4, <1>5

\* ensureDir makes the directories that are asked for, or refuses for a reason
\* the tree shows.
LEMMA DirectoryAnswer ==
  ASSUME NEW fs, WellFormed(fs), Typed(fs), SizeOf(fs) <= MaximumBytes, NEW p \in Path
  PROVE  LET error == WalkError(fs, SizeOf(fs), p)
             new   == WithDirectories(fs, p)
         IN  /\ error = "" =>
                  /\ Ideal!DirectoryAllowed(TreeOf(fs), p)
                  /\ TreeOf(new) = Ideal!MakeDirectories(TreeOf(fs), Ideal!UpTo(p))
                  /\ Typed(new) /\ SizeOf(new) <= MaximumBytes
                  /\ SizeOf(new) = SizeOf(fs) + BytesOf(MissingDirectories(fs, p))
             /\ error # "" => Ideal!DirectoryRefused(TreeOf(fs), p, error)
<1> DEFINE error == WalkError(fs, SizeOf(fs), p)
           new   == WithDirectories(fs, p)
           M     == MissingDirectories(fs, p)
           C     == Clear(fs, p)
           made  == Ideal!MakeDirectories(TreeOf(fs), Ideal!UpTo(p))
<1>1. Ideal!UpTo(p) = Up(p) /\ Up(p) \subseteq Path
  BY UpLemma
<1>2. Unused(fs, C) /\ made = TreeOf(Grow(fs, C))
  BY <1>1, GrowTree DEF Clear
<1>3. /\ Typed(Grow(fs, C))
      /\ SizeOf(Grow(fs, C)) = SizeOf(fs) + BytesOf(C)
  BY <1>2, GrowSize
<1>4. Ideal!Size(made) = SizeOf(fs) + BytesOf(C)
  <2>1. FileNames(Grow(fs, C)) \cap Grow(fs, C).dirs = {}
    BY <1>2 DEF Grow, FileNames, Unused, WellFormed
  <2> HIDE DEF C, made
  <2> QED BY <1>2, <1>3, <2>1, SizeLemma
<1>5. ASSUME error = ""
      PROVE  /\ Ideal!DirectoryAllowed(TreeOf(fs), p)
             /\ TreeOf(new) = made
             /\ Typed(new) /\ SizeOf(new) <= MaximumBytes
             /\ SizeOf(new) = SizeOf(fs) + BytesOf(M)
  <2>1. M = C /\ SizeOf(fs) + BytesOf(M) <= MaximumBytes
    BY <1>5, WalkAllowed
  <2>2. new = Grow(fs, M)
    BY DEF WithDirectories, Grow
  <2>3. WellFormed(new)
    BY <1>5, DirectoriesKeep
  <2>4. p \in new.dirs
    BY MissingLemma DEF WithDirectories
  <2> HIDE DEF error, new, M, C, made
  <2>5. TreeOf(new) = made /\ Typed(new) /\ SizeOf(new) = SizeOf(fs) + BytesOf(M)
    BY <1>2, <1>3, <2>1, <2>2
  <2>6. Ideal!Legal(made) /\ made[p] = Ideal!Directory
    BY <2>3, <2>4, <2>5, LegalLemma, TreeLemma
  <2>7. Ideal!Size(made) <= MaximumBytes
    BY <1>4, <2>1
  <2> QED BY <2>1, <2>5, <2>6, <2>7 DEF Ideal!DirectoryAllowed, made
<1>6. ASSUME error # "" PROVE Ideal!DirectoryRefused(TreeOf(fs), p, error)
  <2>1. \/ error = "not directory" /\ \E q \in Up(p) : q = Device \/ q \in FileNames(fs)
        \/ error = "limit" /\ SizeOf(fs) + BytesOf(C) > MaximumBytes
    BY <1>6, WalkRefused
  <2>2. \A q \in Up(p) : q \in FileNames(fs) => Ideal!IsFile(TreeOf(fs)[q])
    BY <1>1, TreeLemma
  <2> HIDE DEF error, C
  <2> QED BY <1>1, <1>4, <2>1, <2>2 DEF Ideal!DirectoryRefused, made
<1> QED BY <1>5, <1>6

\* A path below a clear way is missing, and a write that is refused for the
\* directories above it would need at least their bytes.
LEMMA PutSize ==
  ASSUME NEW fs, WellFormed(fs), Typed(fs), NEW w \in Request,
         w.path \notin fs.dirs \cup FileNames(fs), w.createParents
  PROVE  LET size == Ideal!Size(Ideal!Put(TreeOf(fs), w))
         IN  size \in Int /\ size >= SizeOf(fs) + BytesOf(Clear(fs, Parent(w.path)))
<1> DEFINE C    == Clear(fs, Parent(w.path))
           mid  == Grow(fs, C)
           made == Ideal!MakeDirectories(TreeOf(fs), Ideal!Above(w.path))
           put  == Ideal!Put(TreeOf(fs), w)
           p    == w.path
           node == Ideal!FileAfter(Ideal!Missing, w)
           f    == [q \in Counted |-> Ideal!NodeSize(q, made[q])]
           g    == [q \in Counted |-> Ideal!NodeSize(q, put[q])]
<1>1. /\ p \in Path /\ p \in Counted /\ Parent(p) \in Path /\ p # <<>>
      /\ w.contents \in Seq(Chunk) /\ w.unknown \in BOOLEAN
  <2>1. p \in Path /\ w.contents \in Seq(Chunk) /\ p # <<>> /\ w.unknown \in BOOLEAN
    BY PathAssumption DEF Request, WellFormed
  <2> QED BY <2>1, EndsLemma DEF Counted
<1>2. Ideal!Above(p) = Up(Parent(p)) /\ Up(Parent(p)) \subseteq Path
  BY <1>1, UpLemma
<1>3. Unused(fs, C) /\ made = TreeOf(mid)
  BY <1>2, GrowTree DEF Clear
<1>4. /\ Typed(mid) /\ SizeOf(mid) = SizeOf(fs) + BytesOf(C)
      /\ FileNames(mid) \cap mid.dirs = {}
  <2>1. FileNames(mid) \cap mid.dirs = {}
    BY <1>3 DEF Grow, FileNames, Unused, WellFormed
  <2> QED BY <1>3, <2>1, GrowSize
<1>5. made[p] = Ideal!Missing
  <2>1. p \notin C
    BY <1>1, AboveLemma DEF Clear, Up
  <2>2. p \notin FileNames(mid) \cup mid.dirs
    BY <2>1 DEF Grow, FileNames
  <2> HIDE DEF mid, made
  <2> QED BY <1>1, <1>3, <2>2 DEF TreeOf, Ideal!Missing
<1>6. /\ put[p] = node
      /\ \A q \in Path \ {p} : put[q] = made[q]
  <2>1. put = [made EXCEPT ![p] = Ideal!FileAfter(@, w)]
    BY DEF Ideal!Put
  <2>2. made = [q \in Path |-> made[q]]
    BY DEF Ideal!MakeDirectories
  <2> HIDE DEF made, put, p
  <2> QED BY <1>1, <1>5, <2>1, <2>2
<1>7. Ideal!NodeSize(p, node) \in Nat
  <2> DEFINE old == IF w.append /\ Ideal!IsFile(Ideal!Missing) THEN Ideal!Missing
                    ELSE [contents |-> <<>>, unknown |-> FALSE]
  <2>1. node = [kind |-> "file", contents |-> old.contents \o w.contents,
                unknown |-> w.unknown \/ old.unknown]
    BY DEF Ideal!FileAfter
  <2>2. ~Ideal!IsFile(Ideal!Missing)
    BY DEF Ideal!IsFile, Ideal!Missing
  <2>3. old.contents = <<>>
    BY <2>2
  <2> HIDE DEF old
  <2>4. node.kind = "file" /\ node.contents = w.contents
    BY <1>1, <2>1, <2>3, ConcatEmptySeq
  <2>5. node # Ideal!Missing /\ Ideal!IsFile(node)
    BY <2>4 DEF Ideal!Missing, Ideal!IsFile
  <2>6. Len(node.contents) \in Nat /\ Entry(p) \in Nat
    BY <1>1, <2>4, CountedLemma, LenProperties
  <2>7. Ideal!NodeSize(p, node)
          = Entry(p) + (Len(node.contents) + (IF node.unknown THEN Entry(p) ELSE 0))
    BY <2>5, SamePaths DEF Ideal!NodeSize
  <2> HIDE DEF node, p
  <2> QED BY <2>6, <2>7
<1> HIDE DEF node
<1>8. /\ \A q \in Counted : f[q] \in Nat
      /\ SumFunctionOnSet(f, Counted) = SizeOf(mid)
  <2>1. \A q \in Counted : f[q] = Cost(mid)[q]
    BY <1>3, <1>4, SizeLemma
  <2>2. SumFunctionOnSet(f, Counted) = SumFunctionOnSet(Cost(mid), Counted)
    <3> HIDE DEF f
    <3> QED BY <2>1, CountedLemma, SumSame
  <2> HIDE DEF f, mid
  <2> QED BY <1>4, <2>1, <2>2, CostType DEF SizeOf
<1>9. f[p] = 0
  BY <1>1, <1>5 DEF Ideal!NodeSize
<1>10. /\ g[p] = Ideal!NodeSize(p, node)
       /\ \A q \in Counted \ {p} : g[q] = f[q]
  BY <1>1, <1>6, CountedLemma
<1>11. Ideal!Size(put) = SumFunctionOnSet(g, Counted)
  BY SameSums DEF Ideal!Size, Counted
<1> HIDE DEF f, g, C, mid, put
<1>12. SumFunctionOnSet(g, Counted) = SumFunctionOnSet(f, Counted) + (g[p] - f[p])
  <2>1. \A q \in Counted : f[q] \in Int /\ g[q] \in Int
    BY <1>7, <1>8, <1>10
  <2> QED BY <1>1, <1>10, <2>1, CountedLemma, SumOne
<1>13. SizeOf(mid) \in Nat
  BY <1>4, CostType
<1>14. Ideal!Size(put) \in Int /\ Ideal!Size(put) >= SizeOf(mid)
  <2> DEFINE n == Ideal!NodeSize(p, node)
  <2>1. n \in Nat /\ g[p] - f[p] = n - 0
    BY <1>7, <1>9, <1>10
  <2> HIDE DEF n
  <2>2. Ideal!Size(put) = SizeOf(mid) + n
    BY <1>8, <1>11, <1>12, <2>1
  <2> QED BY <1>13, <2>1, <2>2
<1> QED BY <1>4, <1>14 DEF put, C

\* The larger of the two sizes that a write is held against.
LEMMA PairLemma ==
  ASSUME NEW a \in Int, NEW b \in Int
  PROVE  /\ Max({a, b}) \in Int
         /\ Max({a, b}) = a \/ Max({a, b}) = b
         /\ Max({a, b}) >= a /\ Max({a, b}) >= b
<1>1. {a, b} \in SUBSET Int /\ {a, b} # {}
  OBVIOUS
<1>2. IsFiniteSet({a, b})
  <2>1. IsFiniteSet({a}) /\ IsFiniteSet({a} \cup {b})
    BY FS_EmptySet, FS_AddElement, FS_Singleton
  <2>2. {a} \cup {b} = {a, b}
    OBVIOUS
  <2> QED BY <2>1, <2>2
<1>3. Max({a, b}) \in {a, b} /\ \A x \in {a, b} : Max({a, b}) >= x
  BY <1>1, <1>2, MaxLemma
<1> QED BY <1>3

\* A write that passes every check does what was asked for, in the limit.
LEMMA WriteDone ==
  ASSUME NEW fs, WellFormed(fs), Typed(fs), NEW w \in Request, w.path # Device
  PROVE  WriteError(fs, SizeOf(fs), w) = "" =>
           /\ Ideal!WriteAllowed(TreeOf(fs), w)
           /\ TreeOf(Written(fs, w)) = Ideal!Put(TreeOf(fs), w)
           /\ Typed(Written(fs, w))
           /\ SizeOf(Written(fs, w)) = ResultBytes(fs, SizeOf(fs), w)
           /\ SizeOf(Written(fs, w)) <= MaximumBytes
<1> DEFINE c    == ContentBytes(fs, SizeOf(fs), w)
           r    == ResultBytes(fs, SizeOf(fs), w)
           top  == Max({c, r})
           new  == Written(fs, w)
           walk == w.createParents => WalkError(fs, SizeOf(fs), Parent(w.path)) = ""
<1>0. WriteError(fs, SizeOf(fs), w) = "" =>
        /\ w.path \notin fs.dirs /\ walk
        /\ ~(top > MaximumBytes) /\ WellFormed(new)
  BY WriteKeeps DEF WriteError
<1> HIDE DEF walk, top
<1> SUFFICES ASSUME w.path \notin fs.dirs, walk,
                    ~(top > MaximumBytes), WellFormed(new)
             PROVE  /\ Ideal!WriteAllowed(TreeOf(fs), w)
                    /\ TreeOf(new) = Ideal!Put(TreeOf(fs), w)
                    /\ Typed(new) /\ SizeOf(new) = r /\ SizeOf(new) <= MaximumBytes
  BY <1>0
<1>1. Fits(fs, w)
  BY FreeLemma DEF walk
<1>2. TreeOf(new) = Ideal!Put(TreeOf(fs), w)
  BY <1>1, WrittenTree
<1>3. Typed(new) /\ SizeOf(new) = r /\ c \in Int /\ r \in Int
  BY <1>1, WrittenSize
<1>4. TreeOf(fs)[w.path] # Ideal!Directory
  BY TreeLemma DEF Request
<1> HIDE DEF c, r, new
<1>5. SizeOf(new) <= MaximumBytes
  <2>1. top >= r /\ top \in Int
    BY <1>3, PairLemma, Zenon DEF top
  <2> QED BY <1>3, <2>1, PathAssumption
<1>6. Ideal!Legal(TreeOf(new))
  BY LegalLemma
<1>7. Ideal!Size(TreeOf(new)) <= MaximumBytes
  BY <1>5, SizeLemma DEF WellFormed
<1> QED BY <1>2, <1>3, <1>4, <1>5, <1>6, <1>7 DEF Ideal!WriteAllowed

\* A write that is refused could not be done in the tree, or needs more than
\* the limit.
LEMMA WriteDenied ==
  ASSUME NEW fs, WellFormed(fs), Typed(fs), SizeOf(fs) <= MaximumBytes,
         NEW w \in Request, w.path # Device
  PROVE  LET error == WriteError(fs, SizeOf(fs), w)
         IN  error # "" => Ideal!WriteRefused(TreeOf(fs), w, error)
<1> DEFINE error == WriteError(fs, SizeOf(fs), w)
           tree  == TreeOf(fs)
           p     == w.path
           P     == Parent(p)
           walk  == WalkError(fs, SizeOf(fs), P)
           c     == ContentBytes(fs, SizeOf(fs), w)
           r     == ResultBytes(fs, SizeOf(fs), w)
           top   == Max({c, r})
           n     == tree[p]
           mark  == w.unknown \/ (Ideal!IsFile(n) /\ n.unknown)
           v     == [w EXCEPT !.unknown = mark]
<1> SUFFICES error # "" => Ideal!WriteRefused(tree, w, error)
  OBVIOUS
<1>1. p \in Path /\ P \in Path
  BY EndsLemma DEF Request
<1>2. error = IF p \in fs.dirs THEN "is directory"
              ELSE IF w.createParents /\ walk # "" THEN walk
              ELSE IF ~w.createParents /\ P \notin fs.dirs THEN "not exist"
              ELSE IF top > MaximumBytes THEN "limit" ELSE ""
  BY DEF WriteError
<1>3. mark = (w.unknown \/ p \in fs.unknownFiles)
  <2>1. /\ Ideal!IsFile(n) <=> p \in FileNames(fs)
        /\ p \in FileNames(fs) => n.unknown = (p \in fs.unknownFiles)
    BY <1>1, TreeLemma
  <2>2. p \in fs.unknownFiles => p \in FileNames(fs)
    BY DEF WellFormed
  <2>3. CASE p \in FileNames(fs)
    <3>1. n.unknown = (p \in fs.unknownFiles)
      BY <2>1, <2>3
    <3>2. Ideal!IsFile(n)
      BY <2>1, <2>3
    <3> HIDE DEF n
    <3>3. CASE p \in fs.unknownFiles
      <4>1. n.unknown = TRUE
        BY <3>1, <3>3
      <4> QED BY <3>2, <3>3, <4>1
    <3>4. CASE p \notin fs.unknownFiles
      <4>1. n.unknown = FALSE
        <5>1. (p \in fs.unknownFiles) = FALSE
          BY <3>4
        <5> QED BY <3>1, <5>1, Zenon
      <4> QED BY <3>2, <3>4, <4>1
    <3> QED BY <3>3, <3>4
  <2>4. CASE p \notin FileNames(fs)
    <3>1. ~Ideal!IsFile(n) /\ p \notin fs.unknownFiles
      BY <2>1, <2>2, <2>4
    <3> HIDE DEF n
    <3> QED BY <3>1, Zenon
  <2> QED BY <2>3, <2>4
<1>4. Ideal!SizeNeeded(tree, w) = Ideal!Size(Ideal!Put(tree, v))
  BY DEF Ideal!SizeNeeded
<1> HIDE DEF mark
<1>5. /\ v \in Request
      /\ v.path = p /\ v.contents = w.contents /\ v.append = w.append
      /\ v.createParents = w.createParents /\ v.unknown = mark
  <2>1. mark \in BOOLEAN /\ w.unknown \in BOOLEAN
    BY <1>3 DEF Request
  <2> QED BY <2>1 DEF Request
<1> HIDE DEF v, n, tree, top
<1>6. CASE p \in fs.dirs
  <2>1. tree[p] = Ideal!Directory
    BY <1>1, <1>6, TreeLemma DEF tree
  <2>2. error = "is directory"
    BY <1>2, <1>6
  <2> HIDE DEF error
  <2> QED BY <2>1, <2>2 DEF Ideal!WriteRefused, tree
<1>7. CASE p \notin fs.dirs /\ w.createParents /\ walk # ""
  <2>1. p # <<>> /\ Ideal!Above(p) = Up(P) /\ Up(P) \subseteq Path
    BY <1>1, <1>7, UpLemma DEF WellFormed
  <2>2. error = walk
    BY <1>2, <1>7
  <2>3. \/ walk = "not directory" /\ \E q \in Up(P) : q = Device \/ q \in FileNames(fs)
        \/ walk = "limit" /\ SizeOf(fs) + BytesOf(Clear(fs, P)) > MaximumBytes
    BY <1>1, <1>7, WalkRefused
  <2> HIDE DEF error, walk
  <2>4. CASE walk = "not directory" /\ \E q \in Up(P) : q = Device \/ q \in FileNames(fs)
    <3>1. \E q \in Up(P) : q = Device \/ Ideal!IsFile(tree[q])
      BY <2>1, <2>4, TreeLemma DEF tree
    <3> QED BY <1>7, <2>1, <2>2, <2>4, <3>1 DEF Ideal!WriteRefused, tree
  <2>5. CASE walk = "limit" /\ SizeOf(fs) + BytesOf(Clear(fs, P)) > MaximumBytes
    <3>1. p \notin FileNames(fs)
      <4> SUFFICES ASSUME p \in FileNames(fs) PROVE FALSE
        OBVIOUS
      <4>1. P \in fs.dirs
        BY <2>1 DEF WellFormed
      <4>2. \A k \in 0..Len(P) : Prefix(P, k) \in fs.dirs
        <5>1. Len(P) \in Nat /\ Prefix(P, Len(P)) = P
          BY <1>1, LengthLemma, EndsLemma
        <5> HIDE DEF P
        <5>2. Len(P) \in 0..Len(P)
          BY <5>1
        <5> QED BY <1>1, <4>1, <5>1, <5>2, DirectoriesAbove
      <4>3. Clear(fs, P) = {}
        BY <4>2 DEF Clear, Up
      <4>4. BytesOf(Clear(fs, P)) = 0
        BY <4>3, SumEmpty DEF BytesOf
      <4> QED BY <2>5, <4>4, CostType, PathAssumption
    <3>2. /\ Ideal!Size(Ideal!Put(tree, v)) \in Int
          /\ Ideal!Size(Ideal!Put(tree, v)) >= SizeOf(fs) + BytesOf(Clear(fs, P))
      BY <1>5, <1>7, <3>1, PutSize DEF tree
    <3>3. Ideal!SizeNeeded(tree, w) > MaximumBytes
      <4>1. SizeOf(fs) \in Int /\ BytesOf(Clear(fs, P)) \in Int /\ MaximumBytes \in Int
        <5>1. Clear(fs, P) \subseteq Path
          BY <2>1 DEF Clear
        <5>2. BytesOf(Clear(fs, P)) \in Nat
          BY <5>1, BytesLemma
        <5>3. SizeOf(fs) \in Nat /\ MaximumBytes \in Nat
          BY CostType, PathAssumption
        <5> QED BY <5>2, <5>3
      <4> QED BY <1>4, <2>5, <3>2, <4>1
    <3> QED BY <2>2, <2>5, <3>3 DEF Ideal!WriteRefused, tree
  <2> QED BY <2>3, <2>4, <2>5
<1>8. CASE p \notin fs.dirs /\ ~w.createParents /\ P \notin fs.dirs
  <2>1. error = "not exist"
    BY <1>2, <1>8
  <2>2. tree[Ideal!Parent(p)] # Ideal!Directory
    BY <1>1, <1>8, SamePaths, TreeLemma DEF tree
  <2> HIDE DEF error
  <2> QED BY <1>8, <2>1, <2>2 DEF Ideal!WriteRefused, tree
<1>9. CASE /\ p \notin fs.dirs /\ (w.createParents => walk = "")
           /\ ~w.createParents => P \in fs.dirs
           /\ top > MaximumBytes
  <2> DEFINE cv  == ContentBytes(fs, SizeOf(fs), v)
             rv  == ResultBytes(fs, SizeOf(fs), v)
             new == Written(fs, v)
             e   == Entry(p)
  <2>1. error = "limit"
    BY <1>2, <1>9
  <2>2. Fits(fs, w) /\ Fits(fs, v)
    <3>1. Fits(fs, w)
      BY <1>9, FreeLemma
    <3> QED BY <1>5, <3>1 DEF Fits, NewParents
  <2>3. /\ Ideal!Put(tree, v) = TreeOf(new)
        /\ SizeOf(new) = rv /\ cv \in Int /\ rv \in Int
        /\ c \in Int /\ r \in Int
    BY <1>5, <1>9, <2>2, WrittenTree, WrittenSize DEF tree
  <2>4. FileNames(new) \cap new.dirs = {}
    BY <1>5, <1>9, <2>2 DEF Fits, Unused, Written, FileNames, WellFormed
  <2>5. Ideal!SizeNeeded(tree, w) = rv
    <3> HIDE DEF new, rv
    <3> QED BY <1>4, <2>3, <2>4, SizeLemma
  <2>6. cv = c
    BY <1>5 DEF ContentBytes, NewParents
  <2>7. /\ rv = cv + (IF w.unknown \/ p \in fs.unknownFiles THEN e ELSE 0)
                   - (IF p \in fs.unknownFiles THEN e ELSE 0)
        /\ r = c + (IF w.unknown \/ (w.append /\ p \in fs.unknownFiles) THEN e ELSE 0)
                 - (IF p \in fs.unknownFiles THEN e ELSE 0)
    <3>1. ResultUnknown(fs, v) <=> w.unknown \/ p \in fs.unknownFiles
      BY <1>3, <1>5 DEF ResultUnknown
    <3>2. rv = cv + (IF ResultUnknown(fs, v) THEN e ELSE 0)
                  - (IF p \in fs.unknownFiles THEN e ELSE 0)
      BY <1>5 DEF ResultBytes
    <3>3. r = c + (IF ResultUnknown(fs, w) THEN e ELSE 0)
                - (IF p \in fs.unknownFiles THEN e ELSE 0)
      BY DEF ResultBytes
    <3> HIDE DEF rv, cv, r, c, e
    <3>4. rv = cv + (IF w.unknown \/ p \in fs.unknownFiles THEN e ELSE 0)
                  - (IF p \in fs.unknownFiles THEN e ELSE 0)
      BY <3>1, <3>2
    <3>5. r = c + (IF w.unknown \/ (w.append /\ p \in fs.unknownFiles) THEN e ELSE 0)
                - (IF p \in fs.unknownFiles THEN e ELSE 0)
      BY <3>3 DEF ResultUnknown
    <3> QED BY <3>4, <3>5
  <2>8. e \in Nat /\ MaximumBytes \in Int
    BY <1>1, CountedLemma, PathAssumption
  <2> HIDE DEF rv, cv, r, c, e, error
  <2>9. rv >= c /\ rv >= r
    BY <2>3, <2>6, <2>7, <2>8
  <2>10. rv > MaximumBytes
    <3>1. top = c \/ top = r
      BY <2>3, PairLemma, Zenon DEF top
    <3>2. top > MaximumBytes
      BY <1>9
    <3> QED BY <2>3, <2>8, <2>9, <3>1, <3>2
  <2> QED BY <2>1, <2>5, <2>10 DEF Ideal!WriteRefused, tree
<1>10. error # "" => \/ p \in fs.dirs
                     \/ p \notin fs.dirs /\ w.createParents /\ walk # ""
                     \/ p \notin fs.dirs /\ ~w.createParents /\ P \notin fs.dirs
                     \/ /\ p \notin fs.dirs /\ (w.createParents => walk = "")
                        /\ ~w.createParents => P \in fs.dirs
                        /\ top > MaximumBytes
  BY <1>2
<1> QED BY <1>6, <1>7, <1>8, <1>9, <1>10 DEF tree

-------------------------------------------------------------------------------
(* The bytes that are counted are those of the tree. *)

Sized(s) ==
  /\ Typed(Maps(s))
  /\ materializedBytes[s] = SizeOf(Maps(s)) /\ SizeOf(Maps(s)) <= MaximumBytes
BudgetInv ==
  /\ MemoryFSInv
  /\ materializedBytes = [s \in Slot |-> materializedBytes[s]]
  /\ \A s \in Slot : Sized(s)

\* u is what v was.
Copied(u, v) == Maps(u)' = Maps(v) /\ materializedBytes'[u] = materializedBytes[v]

\* s alone is changed, to the maps fs; t, if it is another one, keeps what s was.
Changed(s, fs, bytes) == Maps(s)' = fs /\ materializedBytes'[s] = bytes
Alone(s)     == \A u \in Slot \ {s} : Copied(u, u)
Forked(s, t) == Copied(t, s) /\ \A u \in Slot \ {s, t} : Copied(u, u)

HasWritten(s, w) ==
  /\ w.path # Device /\ Error(s, w) = ""
  /\ Changed(s, Written(Maps(s), w), ResultBytes(Maps(s), materializedBytes[s], w))
HasMade(s, p) ==
  /\ PathKind(Maps(s), p) = "missing" /\ WalkError(Maps(s), materializedBytes[s], p) = ""
  /\ Changed(s, WithDirectories(Maps(s), p),
             materializedBytes[s] + BytesOf(MissingDirectories(Maps(s), p)))

\* What the tree of every file system becomes in a step.
Outcome ==
  \/ \A u \in Slot : Copied(u, u)
  \/ \E s \in Slot :
       \/ \E t \in Slot \ {s} : Copied(t, s) /\ Alone(t)
       \/ \E w \in Request : HasWritten(s, w) /\ Alone(s)
       \/ \E w \in Request, t \in Slot \ {s} :
            HasWritten(s, w) /\ w.path \notin FileNames(Maps(s)) /\ Forked(s, t)
       \/ \E p \in Path, t \in Slot \ {s} : HasMade(s, p) /\ Forked(s, t)

\* A step on the file system s of which a snapshot is kept in t.
LEMMA ForkLemma ==
  ASSUME MemoryFSInv, NEW s \in Slot, NEW t \in Slot \ {s}, NEW fs, NEW bytes,
         materializedBytes = [u \in Slot |-> materializedBytes[u]],
         Store(s, RefsCloned(s, t), MarksCloned(s, t), fs),
         materializedBytes' = [materializedBytes EXCEPT
                                 ![s] = bytes, ![t] = materializedBytes[s]]
  PROVE  Changed(s, fs, bytes) /\ Forked(s, t)
<1>1. /\ Maps(s)' = fs
      /\ \A u \in Slot \ {s} : Maps(u)' = heap[RefsCloned(s, t)[u]]
  <2>1. /\ RefsCloned(s, t) \in [Slot -> Addr]
        /\ MarksCloned(s, t) \in [Slot -> BOOLEAN]
        /\ Marked(RefsCloned(s, t), MarksCloned(s, t))
    BY CloneLemma DEF MemoryFSInv
  <2> QED BY <2>1, StoreLemma DEF MemoryFSInv, Memory
<1>2. Maps(t)' = Maps(s) /\ \A u \in Slot \ {s, t} : Maps(u)' = Maps(u)
  <2>1. \A u \in Slot : RefsCloned(s, t)[u] = IF u = t THEN ref[s] ELSE ref[u]
    BY CloneLemma DEF MemoryFSInv
  <2> QED BY <1>1, <2>1 DEF Maps
<1>3. /\ materializedBytes'[s] = bytes /\ materializedBytes'[t] = materializedBytes[s]
      /\ \A u \in Slot \ {s, t} : materializedBytes'[u] = materializedBytes[u]
  OBVIOUS
<1> QED BY <1>1, <1>2, <1>3 DEF Changed, Forked, Copied

\* A call that is refused leaves every file system as it was.
LEMMA RefusedLemma ==
  ASSUME UNCHANGED <<heap, ref, materializedBytes>>
  PROVE  \A u \in Slot : Copied(u, u)
BY DEF Copied, Maps

\* One write, and one copy.
LEMMA OneWrite ==
  ASSUME BudgetInv, NEW s \in Slot, NEW w \in Request, Write(s, w)
  PROVE  HasWritten(s, w) /\ Alone(s)
<1>1. /\ Maps(s)' = Written(Maps(s), w)
      /\ \A u \in Slot \ {s} : Maps(u)' = heap[ref[u]]
  <2>1. Store(s, ref, shared, Written(Maps(s), w))
    BY DEF Write
  <2>2. /\ ref \in [Slot -> Addr] /\ shared \in [Slot -> BOOLEAN]
        /\ heap = [a \in Addr |-> heap[a]] /\ Marked(ref, shared)
    BY DEF BudgetInv, MemoryFSInv, Memory
  <2> QED BY <2>1, <2>2, StoreLemma
<1>2. /\ materializedBytes'[s] = ResultBytes(Maps(s), materializedBytes[s], w)
      /\ \A u \in Slot \ {s} : materializedBytes'[u] = materializedBytes[u]
  BY DEF BudgetInv, Write
<1> QED BY <1>1, <1>2 DEF HasWritten, Changed, Alone, Copied, Maps, Write

\* A path that is forked has a copy of the tree.
LEMMA OneClone ==
  ASSUME BudgetInv, NEW s \in Slot, NEW t \in Slot \ {s}, Clone(s, t)
  PROVE  Copied(t, s) /\ Alone(t)
<1>1. \A u \in Slot : heap'[ref'[u]] = heap[ref'[u]]
  BY CloneLemma DEF BudgetInv, MemoryFSInv, Memory, Clone, Collected
<1>2. \A u \in Slot : ref'[u] = IF u = t THEN ref[s] ELSE ref[u]
  BY CloneLemma DEF BudgetInv, MemoryFSInv, Clone
<1>3. /\ materializedBytes'[t] = materializedBytes[s]
      /\ \A u \in Slot \ {t} : materializedBytes'[u] = materializedBytes[u]
  BY DEF BudgetInv, Clone
<1> QED BY <1>1, <1>2, <1>3 DEF Copied, Alone, Maps

\* Every step is a step or a stutter of the trees.
LEMMA OutcomeLemma ==
  ASSUME BudgetInv, [Next]_vars
  PROVE  Outcome /\ materializedBytes' = [s \in Slot |-> materializedBytes'[s]]
<1>1. CASE UNCHANGED vars
  <2>1. UNCHANGED <<heap, ref, materializedBytes>>
    BY <1>1 DEF vars
  <2>2. \A u \in Slot : Copied(u, u)
    BY <2>1, RefusedLemma
  <2>3. materializedBytes' = [s \in Slot |-> materializedBytes'[s]]
    BY <2>1 DEF BudgetInv
  <2> QED BY <2>2, <2>3 DEF Outcome
<1>2. CASE Next
  <2>1. PICK s \in Slot :
      \/ \E t \in Slot \ {s} : Clone(s, t)
      \/ \E p \in Path :
           \/ \E append \in BOOLEAN : OpenOutput(s, p, append)
           \/ OpenInputOutput(s, p)
           \/ \E contents \in Content, append, unknown \in BOOLEAN :
                Deliver(s, p, contents, append, unknown)
           \/ \E contents \in Content, unknown \in BOOLEAN :
                ProcessFile(s, p, contents, unknown)
           \/ \E t \in Slot \ {s} :
                \/ \E append \in BOOLEAN : DiscoverOutput(s, t, p, append)
                \/ DiscoverInput(s, t, p)
                \/ DiscoverInputOutput(s, t, p)
                \/ ChangeDirectory(s, t, p)
    BY <1>2 DEF Next
  <2>2. ASSUME NEW t \in Slot \ {s}, Clone(s, t)
        PROVE  Outcome /\ materializedBytes' = [u \in Slot |-> materializedBytes'[u]]
    <3>1. materializedBytes' = [u \in Slot |-> materializedBytes'[u]]
      BY <2>2 DEF Clone, BudgetInv
    <3>2. Copied(t, s) /\ Alone(t)
      BY <2>2, OneClone
    <3> QED BY <3>1, <3>2 DEF Outcome
  <2>3. ASSUME NEW p \in Path,
               \/ \E append \in BOOLEAN : OpenOutput(s, p, append)
               \/ OpenInputOutput(s, p)
               \/ \E contents \in Content, append, unknown \in BOOLEAN :
                    Deliver(s, p, contents, append, unknown)
               \/ \E contents \in Content, unknown \in BOOLEAN :
                    ProcessFile(s, p, contents, unknown)
        PROVE  Outcome /\ materializedBytes' = [u \in Slot |-> materializedBytes'[u]]
    <3>1. PICK w \in Request : Write(s, w)
      BY <2>3, RequestLemma, PathAssumption
         DEF OpenOutput, OpenInputOutput, Deliver, ProcessFile
    <3>2. materializedBytes' = [u \in Slot |-> materializedBytes'[u]]
      BY <3>1 DEF Write, BudgetInv
    <3>3. HasWritten(s, w) /\ Alone(s)
      BY <3>1, OneWrite
    <3> QED BY <3>2, <3>3 DEF Outcome
  <2>4. ASSUME NEW p \in Path, NEW t \in Slot \ {s},
               \/ \E append \in BOOLEAN : DiscoverOutput(s, t, p, append)
               \/ DiscoverInput(s, t, p)
               \/ DiscoverInputOutput(s, t, p)
        PROVE  Outcome /\ materializedBytes' = [u \in Slot |-> materializedBytes'[u]]
    <3>1. p \notin FileNames(Maps(s))
      <4>1. CASE \E append \in BOOLEAN : DiscoverOutput(s, t, p, append)
        <5>1. PICK append \in BOOLEAN :
                Error(s, Plain(p, <<>>, append, FALSE)) = "not exist"
          BY <4>1 DEF DiscoverOutput
        <5> DEFINE w == Plain(p, <<>>, append, FALSE)
        <5>2. w.path = p /\ w.createParents = FALSE
          BY DEF Plain
        <5> HIDE DEF w
        <5>3. p \notin Maps(s).dirs /\ Parent(p) \notin Maps(s).dirs
          <6>1. WriteError(Maps(s), materializedBytes[s], w) = "not exist"
            BY <5>1 DEF Error, w
          <6> QED BY <5>2, <6>1 DEF WriteError
        <5> QED BY <5>3 DEF BudgetInv, MemoryFSInv, TreeShape, WellFormed
      <4> QED BY <2>4, <4>1 DEF DiscoverInput, DiscoverInputOutput
    <3>2. PICK w \in Request :
            w.path = p /\ w.path # Device /\ WriteOrSnapshot(s, t, w)
      BY <2>4, RequestLemma, PathAssumption
         DEF DiscoverOutput, DiscoverInput, DiscoverInputOutput
    <3>3. materializedBytes' = [u \in Slot |-> materializedBytes'[u]]
      BY <3>2 DEF WriteOrSnapshot, BudgetInv
    <3>4. CASE Error(s, w) = ""
      <4>1. HasWritten(s, w) /\ Forked(s, t)
        <5> DEFINE fs    == Written(Maps(s), w)
                   bytes == ResultBytes(Maps(s), materializedBytes[s], w)
        <5>1. /\ Store(s, RefsCloned(s, t), MarksCloned(s, t), fs)
              /\ materializedBytes' = [materializedBytes EXCEPT
                                         ![s] = bytes, ![t] = materializedBytes[s]]
          BY <3>2, <3>4 DEF WriteOrSnapshot
        <5> HIDE DEF fs, bytes
        <5>2. Changed(s, fs, bytes) /\ Forked(s, t)
          BY <5>1, ForkLemma DEF BudgetInv
        <5> QED BY <3>2, <3>4, <5>2 DEF HasWritten, fs, bytes
      <4> QED BY <3>1, <3>2, <3>3, <4>1 DEF Outcome
    <3>5. CASE Error(s, w) # ""
      BY <3>2, <3>3, <3>5, RefusedLemma DEF WriteOrSnapshot, Outcome
    <3> QED BY <3>4, <3>5
  <2>5. ASSUME NEW p \in Path, NEW t \in Slot \ {s}, ChangeDirectory(s, t, p)
        PROVE  Outcome /\ materializedBytes' = [u \in Slot |-> materializedBytes'[u]]
    <3>1. materializedBytes' = [u \in Slot |-> materializedBytes'[u]]
      BY <2>5 DEF ChangeDirectory, DirectoryOrSnapshot, BudgetInv
    <3>2. CASE WalkError(Maps(s), materializedBytes[s], p) = ""
      <4> DEFINE fs    == WithDirectories(Maps(s), p)
                 bytes == materializedBytes[s] + BytesOf(MissingDirectories(Maps(s), p))
      <4>1. /\ Store(s, RefsCloned(s, t), MarksCloned(s, t), fs)
            /\ materializedBytes' = [materializedBytes EXCEPT
                                       ![s] = bytes, ![t] = materializedBytes[s]]
            /\ PathKind(Maps(s), p) = "missing"
        BY <2>5, <3>2 DEF ChangeDirectory, DirectoryOrSnapshot
      <4> HIDE DEF fs, bytes
      <4>2. Changed(s, fs, bytes) /\ Forked(s, t)
        BY <4>1, ForkLemma DEF BudgetInv
      <4>3. HasMade(s, p) /\ Forked(s, t)
        BY <3>2, <4>1, <4>2 DEF HasMade, fs, bytes
      <4> QED BY <3>1, <4>3 DEF Outcome
    <3>3. CASE WalkError(Maps(s), materializedBytes[s], p) # ""
      BY <2>5, <3>1, <3>3, RefusedLemma DEF ChangeDirectory, DirectoryOrSnapshot, Outcome
    <3> QED BY <3>2, <3>3
  <2> QED BY <2>1, <2>2, <2>3, <2>4, <2>5
<1> QED BY <1>1, <1>2

\* What a write or new directories leave is counted exactly, and in the limit.
LEMMA SizedLemma ==
  ASSUME BudgetInv, NEW s \in Slot
  PROVE  /\ \A w \in Request : HasWritten(s, w) =>
              /\ Sized(s)'
              /\ Ideal!WriteAllowed(TreeOf(Maps(s)), w)
              /\ TreeOf(Maps(s)') = Ideal!Put(TreeOf(Maps(s)), w)
         /\ \A p \in Path : HasMade(s, p) =>
              /\ Sized(s)'
              /\ Ideal!DirectoryAllowed(TreeOf(Maps(s)), p)
              /\ TreeOf(Maps(s)') =
                   Ideal!MakeDirectories(TreeOf(Maps(s)), Ideal!UpTo(p))
         /\ \A u \in Slot : Copied(u, s) => Sized(u)' /\ TreeOf(Maps(u)') = TreeOf(Maps(s))
<1> DEFINE fs == Maps(s)
<1>1. /\ WellFormed(fs) /\ Typed(fs) /\ SizeOf(fs) <= MaximumBytes
      /\ materializedBytes[s] = SizeOf(fs)
  BY DEF BudgetInv, MemoryFSInv, TreeShape, Sized
<1>2. ASSUME NEW w \in Request, HasWritten(s, w)
      PROVE  /\ Sized(s)'
             /\ Ideal!WriteAllowed(TreeOf(fs), w)
             /\ TreeOf(Maps(s)') = Ideal!Put(TreeOf(fs), w)
  <2>1. /\ w.path # Device /\ WriteError(fs, SizeOf(fs), w) = ""
        /\ Maps(s)' = Written(fs, w)
        /\ materializedBytes'[s] = ResultBytes(fs, SizeOf(fs), w)
    BY <1>1, <1>2 DEF HasWritten, Changed, Error
  <2> HIDE DEF fs
  <2>2. /\ Ideal!WriteAllowed(TreeOf(fs), w)
        /\ TreeOf(Written(fs, w)) = Ideal!Put(TreeOf(fs), w)
        /\ Typed(Written(fs, w))
        /\ SizeOf(Written(fs, w)) = ResultBytes(fs, SizeOf(fs), w)
        /\ SizeOf(Written(fs, w)) <= MaximumBytes
    BY <1>1, <2>1, WriteDone
  <2> QED BY <2>1, <2>2 DEF Sized
<1>3. ASSUME NEW p \in Path, HasMade(s, p)
      PROVE  /\ Sized(s)'
             /\ Ideal!DirectoryAllowed(TreeOf(fs), p)
             /\ TreeOf(Maps(s)') = Ideal!MakeDirectories(TreeOf(fs), Ideal!UpTo(p))
  <2>1. /\ WalkError(fs, SizeOf(fs), p) = ""
        /\ Maps(s)' = WithDirectories(fs, p)
        /\ materializedBytes'[s] = SizeOf(fs) + BytesOf(MissingDirectories(fs, p))
    BY <1>1, <1>3 DEF HasMade, Changed
  <2> HIDE DEF fs
  <2>2. /\ Ideal!DirectoryAllowed(TreeOf(fs), p)
        /\ TreeOf(WithDirectories(fs, p))
             = Ideal!MakeDirectories(TreeOf(fs), Ideal!UpTo(p))
        /\ Typed(WithDirectories(fs, p)) /\ SizeOf(WithDirectories(fs, p)) <= MaximumBytes
        /\ SizeOf(WithDirectories(fs, p))
             = SizeOf(fs) + BytesOf(MissingDirectories(fs, p))
    BY <1>1, <2>1, DirectoryAnswer
  <2> QED BY <2>1, <2>2 DEF Sized
<1>4. ASSUME NEW u \in Slot, Copied(u, s)
      PROVE  Sized(u)' /\ TreeOf(Maps(u)') = TreeOf(fs)
  <2>1. Maps(u)' = fs /\ materializedBytes'[u] = SizeOf(fs)
    BY <1>1, <1>4 DEF Copied
  <2> HIDE DEF fs
  <2> QED BY <1>1, <2>1 DEF Sized
<1> QED BY <1>2, <1>3, <1>4

\* Every step counts what it changes.
LEMMA BudgetNext ==
  ASSUME BudgetInv, [Next]_vars
  PROVE  BudgetInv'
<1>1. Outcome /\ materializedBytes' = [s \in Slot |-> materializedBytes'[s]]
  BY OutcomeLemma
<1>2. MemoryFSInv'
  BY NextLemma DEF BudgetInv
<1>3. \A u \in Slot : \/ \E v \in Slot : Copied(u, v)
                      \/ \E w \in Request : HasWritten(u, w)
                      \/ \E p \in Path : HasMade(u, p)
  BY <1>1 DEF Outcome, Alone, Forked
<1>4. \A u \in Slot : Sized(u)'
  BY <1>3, SizedLemma
<1> QED BY <1>1, <1>2, <1>4 DEF BudgetInv

\* The first file system counts nothing.
LEMMA BudgetInit ==
  ASSUME Init
  PROVE  BudgetInv /\ \A s \in Slot : TreeOf(Maps(s)) = Ideal!Empty
<1> DEFINE fs == [files |-> << >>, dirs |-> {<<>>}, unknownFiles |-> {}]
<1>1. MemoryFSInv
  BY InitLemma
<1>2. \A s \in Slot : Maps(s) = fs /\ materializedBytes[s] = 0
  BY MemoryFSAssumption DEF Init, Maps
<1>3. FileNames(fs) = {} /\ fs.dirs = {<<>>}
  <2>1. DOMAIN << >> = {}
    OBVIOUS
  <2> QED BY <2>1 DEF FileNames
<1>4. Typed(fs)
  BY <1>3, PathAssumption DEF Typed
<1>5. TreeOf(fs) = Ideal!Empty
  BY <1>3 DEF TreeOf, Ideal!Empty, Ideal!Directory, Ideal!Missing
<1> HIDE DEF fs
<1>6. SizeOf(fs) = 0
  <2>1. \A p \in Counted : Cost(fs)[p] = 0
    BY <1>3 DEF Cost, Counted
  <2> QED BY <2>1, CountedLemma, SumZero DEF SizeOf
<1>7. \A s \in Slot : Sized(s)
  BY <1>2, <1>4, <1>6, PathAssumption DEF Sized
<1>8. materializedBytes = [s \in Slot |-> materializedBytes[s]]
  BY DEF Init
<1> QED BY <1>1, <1>2, <1>5, <1>7, <1>8 DEF BudgetInv

\* The bytes a file system counts are those of its files, directories and
\* marks, and never more than its limit (writeValueMode, ensureDir, clone).
THEOREM BytesExactTheorem == Spec => []BytesExact
<1>1. BudgetInv => BytesExact
  <2> SUFFICES ASSUME BudgetInv, NEW s \in Slot
               PROVE  /\ materializedBytes[s] = Ideal!Size(TreeOf(Maps(s)))
                      /\ materializedBytes[s] <= MaximumBytes
    BY DEF BytesExact
  <2>1. FileNames(Maps(s)) \cap Maps(s).dirs = {}
    BY DEF BudgetInv, MemoryFSInv, TreeShape, WellFormed
  <2>2. materializedBytes[s] = SizeOf(Maps(s)) /\ SizeOf(Maps(s)) <= MaximumBytes
    BY DEF BudgetInv, Sized
  <2> QED BY <2>1, <2>2, SizeLemma
<1>2. Init => BudgetInv
  BY BudgetInit
<1>3. BudgetInv /\ [Next]_vars => BudgetInv'
  BY BudgetNext
<1> QED BY <1>1, <1>2, <1>3, PTL DEF Spec

\* In every state a call would do exactly what is asked of it, or be refused
\* for a reason that the tree shows (writeValueMode, ensureDir).
THEOREM AnswersTheorem == Spec => []Answers
<1>1. BudgetInv => Answers
  <2> SUFFICES ASSUME BudgetInv, NEW s \in Slot
               PROVE  LET fs   == Maps(s)
                          tree == TreeOf(fs)
                      IN  /\ \A w \in Request :
                               w.path # Device =>
                                 IF Error(s, w) = ""
                                 THEN /\ Ideal!WriteAllowed(tree, w)
                                      /\ TreeOf(Written(fs, w)) = Ideal!Put(tree, w)
                                 ELSE Ideal!WriteRefused(tree, w, Error(s, w))
                          /\ \A p \in Path :
                               LET error == WalkError(fs, materializedBytes[s], p)
                               IN  IF error = "" THEN Ideal!DirectoryAllowed(tree, p)
                                   ELSE Ideal!DirectoryRefused(tree, p, error)
    BY DEF Answers
  <2> DEFINE fs == Maps(s)
  <2>1. /\ WellFormed(fs) /\ Typed(fs) /\ SizeOf(fs) <= MaximumBytes
        /\ materializedBytes[s] = SizeOf(fs)
        /\ \A w : Error(s, w) = WriteError(fs, SizeOf(fs), w)
    BY DEF BudgetInv, MemoryFSInv, TreeShape, Sized, Error
  <2> HIDE DEF fs
  <2>2. ASSUME NEW w \in Request, w.path # Device
        PROVE  IF WriteError(fs, SizeOf(fs), w) = ""
               THEN /\ Ideal!WriteAllowed(TreeOf(fs), w)
                    /\ TreeOf(Written(fs, w)) = Ideal!Put(TreeOf(fs), w)
               ELSE Ideal!WriteRefused(TreeOf(fs), w, WriteError(fs, SizeOf(fs), w))
    BY <2>1, <2>2, WriteDone, WriteDenied
  <2>3. ASSUME NEW p \in Path
        PROVE  IF WalkError(fs, SizeOf(fs), p) = ""
               THEN Ideal!DirectoryAllowed(TreeOf(fs), p)
               ELSE Ideal!DirectoryRefused(TreeOf(fs), p, WalkError(fs, SizeOf(fs), p))
    BY <2>1, <2>3, DirectoryAnswer
  <2> QED BY <2>1, <2>2, <2>3 DEF fs
<1>2. Init => BudgetInv
  BY BudgetInit
<1>3. BudgetInv /\ [Next]_vars => BudgetInv'
  BY BudgetNext
<1> QED BY <1>1, <1>2, <1>3, PTL DEF Spec

Trees == [s \in Slot |-> TreeOf(Maps(s))]

\* A step changes the trees as the specification of the trees allows it.
LEMMA TreesNext ==
  ASSUME BudgetInv, [Next]_vars
  PROVE  [Ideal!Next]_Trees
<1> DEFINE T(u) == TreeOf(Maps(u))
           N(u) == TreeOf(Maps(u)')
<1>1. Trees = [u \in Slot |-> T(u)] /\ Trees' = [u \in Slot |-> N(u)]
  BY DEF Trees
<1>2. Outcome
  BY OutcomeLemma
<1>3. \A u, v \in Slot : Copied(u, v) => N(u) = T(v)
  BY SizedLemma
<1> HIDE DEF T, N
<1>4. CASE \A u \in Slot : Copied(u, u)
  <2>1. Trees' = Trees
    BY <1>1, <1>3, <1>4
  <2> QED BY <2>1
<1>5. ASSUME NEW s \in Slot, NEW t \in Slot \ {s}, Copied(t, s), Alone(t)
      PROVE  Ideal!Next
  <2>1. Trees' = [Trees EXCEPT ![t] = Trees[s]]
    BY <1>1, <1>3, <1>5 DEF Alone
  <2> QED BY <2>1 DEF Ideal!Next, Ideal!Becomes, Trees
<1>6. ASSUME NEW s \in Slot, NEW w \in Request, HasWritten(s, w), Alone(s)
      PROVE  Ideal!Next
  <2>1. /\ Ideal!WriteAllowed(Trees[s], w)
        /\ N(s) = Ideal!Put(Trees[s], w)
    BY <1>1, <1>6, SizedLemma DEF T, N
  <2>2. Trees' = [Trees EXCEPT ![s] = Ideal!Put(Trees[s], w)]
    BY <1>1, <1>3, <1>6, <2>1 DEF Alone
  <2> QED BY <2>1, <2>2, SamePaths DEF Ideal!Next, Ideal!Becomes, Trees
<1>7. ASSUME NEW s \in Slot, NEW t \in Slot \ {s}, NEW w \in Request,
             HasWritten(s, w), w.path \notin FileNames(Maps(s)), Forked(s, t)
      PROVE  Ideal!Next
  <2>1. /\ Ideal!WriteAllowed(Trees[s], w)
        /\ N(s) = Ideal!Put(Trees[s], w)
    BY <1>1, <1>7, SizedLemma DEF T, N
  <2>2. ~Ideal!IsFile(Trees[s][w.path])
    <3>1. w.path \in Path /\ WellFormed(Maps(s)) /\ Trees[s] = TreeOf(Maps(s))
      BY DEF Request, BudgetInv, MemoryFSInv, TreeShape, Trees
    <3> QED BY <1>7, <3>1, TreeLemma
  <2>3. Trees' = [Trees EXCEPT ![s] = Ideal!Put(Trees[s], w), ![t] = Trees[s]]
    BY <1>1, <1>3, <1>7, <2>1 DEF Forked
  <2> QED BY <2>1, <2>2, <2>3, SamePaths DEF Ideal!Next, Ideal!Fork, Trees
<1>8. ASSUME NEW s \in Slot, NEW t \in Slot \ {s}, NEW p \in Path,
             HasMade(s, p), Forked(s, t)
      PROVE  Ideal!Next
  <2>1. /\ Ideal!DirectoryAllowed(Trees[s], p)
        /\ N(s) = Ideal!MakeDirectories(Trees[s], Ideal!UpTo(p))
    BY <1>1, <1>8, SizedLemma DEF T, N
  <2>2. Trees[s][p] = Ideal!Missing
    <3>1. WellFormed(Maps(s)) /\ Trees[s] = TreeOf(Maps(s))
      BY DEF BudgetInv, MemoryFSInv, TreeShape, Trees
    <3>2. p \notin Maps(s).dirs \cup FileNames(Maps(s))
      BY <1>8 DEF HasMade, PathKind
    <3> QED BY <3>1, <3>2, TreeLemma
  <2>3. Trees' = [Trees EXCEPT ![s] = Ideal!MakeDirectories(Trees[s], Ideal!UpTo(p)),
                               ![t] = Trees[s]]
    BY <1>1, <1>3, <1>8, <2>1 DEF Forked
  <2> QED BY <2>1, <2>2, <2>3 DEF Ideal!Next, Ideal!Fork, Trees
<1> QED BY <1>2, <1>4, <1>5, <1>6, <1>7, <1>8 DEF Outcome

\* The file systems of the paths of a simulation, with their shared maps and
\* their marks, are trees of their own, of which a call changes one, or a new
\* copy of one, completely or not at all (clone, ensureMutable, writeValueMode).
THEOREM ImplementsTheorem == Spec => Implements
<1>1. Init => BudgetInv /\ Ideal!Init
  BY BudgetInit DEF Ideal!Init
<1>2. BudgetInv /\ [Next]_vars => BudgetInv'
  BY BudgetNext
<1>3. BudgetInv /\ [Next]_vars => [Ideal!Next]_[s \in Slot |-> TreeOf(Maps(s))]
  BY TreesNext DEF Trees
<1> QED BY <1>1, <1>2, <1>3, PTL DEF Spec, Implements, Ideal!Spec
===============================================================================
