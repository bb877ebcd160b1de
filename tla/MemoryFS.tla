------------------------------- MODULE MemoryFS -------------------------------
(***************************************************************************)
(* The virtual file system (internal/runtime/fs.go) and the calls that     *)
(* change it: redirections, substitutions of files and processes, cd.      *)
(*                                                                         *)
(* clone shares the three maps of a file system and sets one mark on both  *)
(* sides; ensureMutable copies them, with the contents of all files,       *)
(* before the first write.  The maps of a file system are one cell here.   *)
(***************************************************************************)
EXTENDS VirtualPaths

CONSTANTS
  Slot,  \* the places a path's file system is kept in
  Addr,  \* the cells that maps are kept in
  Free   \* the content of a cell that no file system points to

VARIABLES
  heap,              \* the maps in each cell: files, dirs, unknownFiles
  ref,               \* the cell of each file system
  shared,            \* memoryFS.shared
  materializedBytes  \* memoryFS.materializedBytes

vars == <<heap, ref, shared, materializedBytes>>

ASSUME MemoryFSAssumption == Addr \subseteq Nat /\ 1 \in Addr

Maps(s) == heap[ref[s]]
FileNames(fs) == DOMAIN fs.files

-------------------------------------------------------------------------------
(* Reading. *)

PathKind(fs, p) ==
  IF p = Device THEN "device"
  ELSE IF p \in fs.dirs THEN "directory"
  ELSE IF p \in FileNames(fs) THEN "file" ELSE "missing"

-------------------------------------------------------------------------------
(* missingDirectories walks up from a path and stops at the first level    *)
(* with a directory.  It fails at the first level that is a file or the    *)
(* device, or from which on the levels below are too many bytes.           *)

\* Mutant: a file on the way is not noticed.
Blocked_DeviceOnly(fs, p, levels) == {k \in levels : Prefix(p, k) = Device}

Blocked(fs, p, levels) ==
  {k \in levels : Prefix(p, k) = Device \/ Prefix(p, k) \in FileNames(fs)}

MissingLevels(fs, p) ==
  {k \in 0..Len(p) : \A j \in k..Len(p) : Prefix(p, j) \notin fs.dirs}
MissingDirectories(fs, p) == {Prefix(p, k) : k \in MissingLevels(fs, p)}

BytesOf(S) == SumFunctionOnSet([p \in S |-> Entry(p)], S)

\* "" if the directories above can be made.
WalkError(fs, used, p) ==
  LET levels  == MissingLevels(fs, p)
      blocked == Blocked(fs, p, levels)
      tooMany == {k \in levels :
                    used + BytesOf({Prefix(p, j) : j \in levels \cap k..Len(p)})
                      > MaximumBytes}
  IN  IF blocked \cup tooMany = {} THEN ""
      ELSE IF Max(blocked \cup tooMany) \in blocked THEN "not directory" ELSE "limit"

-------------------------------------------------------------------------------
(* writeValueMode: the error, or "" and what is there after it. *)

\* Mutant: only the last directory is made.
NewParents_Last(fs, w) == IF w.createParents THEN {Parent(w.path)} \ fs.dirs ELSE {}

NewParents(fs, w) == IF w.createParents THEN MissingDirectories(fs, Parent(w.path)) ELSE {}

\* Mutant: what was unknown of a file is forgotten when it is appended to.
ResultUnknown_Latest(fs, w) == w.unknown

ResultUnknown(fs, w) == w.unknown \/ (w.append /\ w.path \in fs.unknownFiles)

\* Mutant: an append is charged like a file that is replaced.
ContentBytes_Replaced(fs, used, w) ==
  used + BytesOf(NewParents(fs, w)) + Len(w.contents)
  + (IF w.path \notin FileNames(fs) THEN Entry(w.path) ELSE - Len(fs.files[w.path]))

\* With the file and its directories, without its mark.
ContentBytes(fs, used, w) ==
  used + BytesOf(NewParents(fs, w)) + Len(w.contents)
  + (IF w.path \notin FileNames(fs) THEN Entry(w.path)
     ELSE IF w.append THEN 0 ELSE - Len(fs.files[w.path]))

ResultBytes(fs, used, w) ==
  ContentBytes(fs, used, w)
  + (IF ResultUnknown(fs, w) THEN Entry(w.path) ELSE 0)
  - (IF w.path \in fs.unknownFiles THEN Entry(w.path) ELSE 0)

WriteError(fs, used, w) ==
  LET walk == WalkError(fs, used, Parent(w.path))
  IN  IF w.path \in fs.dirs THEN "is directory"
      ELSE IF w.createParents /\ walk # "" THEN walk
      ELSE IF ~w.createParents /\ Parent(w.path) \notin fs.dirs THEN "not exist"
      ELSE IF Max({ContentBytes(fs, used, w), ResultBytes(fs, used, w)}) > MaximumBytes
           THEN "limit" ELSE ""

Written(fs, w) ==
  [ files |-> [p \in FileNames(fs) \cup {w.path} |->
                 IF p # w.path THEN fs.files[p]
                 ELSE IF w.append /\ p \in FileNames(fs)
                      THEN fs.files[p] \o w.contents ELSE w.contents],
    dirs  |-> fs.dirs \cup NewParents(fs, w),
    unknownFiles |-> IF ResultUnknown(fs, w) THEN fs.unknownFiles \cup {w.path}
                                             ELSE fs.unknownFiles \ {w.path} ]

WithDirectories(fs, p) ==
  [ files |-> fs.files, dirs |-> fs.dirs \cup MissingDirectories(fs, p),
    unknownFiles |-> fs.unknownFiles ]

-------------------------------------------------------------------------------
(* ensureMutable and the write after it, on file systems that point to     *)
(* the cells r and have the marks m.                                       *)

Collected(h, r) == [a \in Addr |-> IF \E s \in Slot : r[s] = a THEN h[a] ELSE Free]

\* Mutant: the maps are written in place.
Store_InPlace(s, r, m, fs) ==
  /\ ref' = r
  /\ shared' = [m EXCEPT ![s] = FALSE]
  /\ heap' = Collected([heap EXCEPT ![r[s]] = fs], r)

Store(s, r, m, fs) ==
  LET others == {r[u] : u \in Slot \ {s}}
  IN  \E a \in Addr :
        /\ IF m[s] THEN a \notin others /\ \A b \in Addr \ others : a <= b
                   ELSE a = r[s]
        /\ ref' = [r EXCEPT ![s] = a]
        /\ shared' = [m EXCEPT ![s] = FALSE]
        /\ heap' = Collected([heap EXCEPT ![a] = fs], ref')

\* clone, from s to t.
RefsCloned(s, t) == [ref EXCEPT ![t] = ref[s]]

\* Mutant: only the copy is marked.
MarksCloned_CopyOnly(s, t) == [shared EXCEPT ![t] = TRUE]

MarksCloned(s, t) == [shared EXCEPT ![s] = TRUE, ![t] = TRUE]

Clone(s, t) ==
  /\ ref' = RefsCloned(s, t)
  /\ shared' = MarksCloned(s, t)
  /\ heap' = Collected(heap, ref')
  /\ materializedBytes' = [materializedBytes EXCEPT ![t] = materializedBytes[s]]

-------------------------------------------------------------------------------
(* One call of writeValueMode. *)

Error(s, w) == WriteError(Maps(s), materializedBytes[s], w)

Write(s, w) ==
  /\ w.path # Device /\ Error(s, w) = ""
  /\ Store(s, ref, shared, Written(Maps(s), w))
  /\ materializedBytes' = [materializedBytes EXCEPT
                             ![s] = ResultBytes(Maps(s), @, w)]

\* A snapshot of s is kept in t, and s goes on with the write or the
\* directories.  If they are refused the snapshot is dropped: what stays is
\* the mark on s.
WriteOrSnapshot(s, t, w) ==
  \/ /\ Error(s, w) = ""
     /\ Store(s, RefsCloned(s, t), MarksCloned(s, t), Written(Maps(s), w))
     /\ materializedBytes' = [materializedBytes EXCEPT
          ![s] = ResultBytes(Maps(s), @, w), ![t] = materializedBytes[s]]
  \/ /\ Error(s, w) # ""
     /\ shared' = [shared EXCEPT ![s] = TRUE]
     /\ UNCHANGED <<heap, ref, materializedBytes>>

DirectoryOrSnapshot(s, t, p) ==
  LET error == WalkError(Maps(s), materializedBytes[s], p)
  IN  \/ /\ error = ""
         /\ Store(s, RefsCloned(s, t), MarksCloned(s, t), WithDirectories(Maps(s), p))
         /\ materializedBytes' = [materializedBytes EXCEPT
              ![s] = @ + BytesOf(MissingDirectories(Maps(s), p)),
              ![t] = materializedBytes[s]]
      \/ /\ error # ""
         /\ shared' = [shared EXCEPT ![s] = TRUE]
         /\ UNCHANGED <<heap, ref, materializedBytes>>

-------------------------------------------------------------------------------
(* The callers.  A step of a simulation that discovers candidates follows  *)
(* both outcomes where a file or directory may or may not exist.           *)

Plain(p, contents, append, unknown) ==
  [path |-> p, contents |-> contents, append |-> append, unknown |-> unknown,
   createParents |-> FALSE]
Abstract(p, append, unknown) ==
  [Plain(p, <<>>, append, unknown) EXCEPT !.createParents = TRUE]

\* prepareOutputRedirection: >, >|, &>, and >>, &>> with append.
OpenOutput(s, p, append) == Write(s, Plain(p, <<>>, append, FALSE))
DiscoverOutput(s, t, p, append) ==
  /\ p # Device /\ Error(s, Plain(p, <<>>, append, FALSE)) = "not exist"
  /\ WriteOrSnapshot(s, t, Abstract(p, append, FALSE))

\* prepareRedirections, < of a file that is not there; inputOnlySubstitution.
DiscoverInput(s, t, p) ==
  /\ p # Device /\ p \notin FileNames(Maps(s))
  /\ WriteOrSnapshot(s, t, Abstract(p, FALSE, TRUE))

\* prepareRedirections, <>.
OpenInputOutput(s, p) ==
  /\ p \notin FileNames(Maps(s))
  /\ Write(s, Plain(p, <<>>, FALSE, FALSE))
DiscoverInputOutput(s, t, p) ==
  /\ p \notin FileNames(Maps(s))
  /\ DiscoverOutput(s, t, p, FALSE)

\* applyOutputTargets: the output of the statement for which p was opened.
Deliver(s, p, contents, append, unknown) ==
  /\ p \in FileNames(Maps(s))
  /\ Write(s, Plain(p, contents, append, unknown))

\* evaluateProcessSubstitutionPaths: the file of a process is a new one in "/".
ProcessFile(s, p, contents, unknown) ==
  /\ PathKind(Maps(s), p) = "missing" /\ Parent(p) = <<>>
  /\ Write(s, Plain(p, contents, FALSE, unknown))

\* cd to a directory that is not there.
ChangeDirectory(s, t, p) ==
  /\ PathKind(Maps(s), p) = "missing"
  /\ DirectoryOrSnapshot(s, t, p)

-------------------------------------------------------------------------------
\* The file system of newState, and clones of it in all other slots.
Init ==
  /\ ref = [s \in Slot |-> 1]
  /\ heap = [a \in Addr |->
       IF a = 1 THEN [files |-> << >>, dirs |-> {<<>>}, unknownFiles |-> {}] ELSE Free]
  /\ shared = [s \in Slot |-> TRUE]
  /\ materializedBytes = [s \in Slot |-> 0]

Next ==
  \E s \in Slot :
    \/ \E t \in Slot \ {s} : Clone(s, t)
    \/ \E p \in Path :
         \/ \E append \in BOOLEAN : OpenOutput(s, p, append)
         \/ OpenInputOutput(s, p)
         \/ \E contents \in Content, append, unknown \in BOOLEAN :
              Deliver(s, p, contents, append, unknown)
         \/ \E contents \in Content, unknown \in BOOLEAN :
              ProcessFile(s, p, contents, unknown)
         \/ \E t \in Slot \ {s} :
              \/ \E append \in BOOLEAN : DiscoverOutput(s, t, p, append)
              \/ DiscoverInput(s, t, p)
              \/ DiscoverInputOutput(s, t, p)
              \/ ChangeDirectory(s, t, p)

Spec == Init /\ [][Next]_vars
-------------------------------------------------------------------------------
(* Properties. *)

TreeOf(fs) ==
  [p \in Path |->
     IF p \in FileNames(fs)
     THEN [kind |-> "file", contents |-> fs.files[p], unknown |-> p \in fs.unknownFiles]
     ELSE [kind |-> IF p \in fs.dirs THEN "directory" ELSE "missing"]]

Ideal == INSTANCE VirtualFiles WITH trees <- [s \in Slot |-> TreeOf(Maps(s))]

\* memoryFS implements trees of which each call changes one, or a new copy of
\* one, completely or not at all.
Implements == Ideal!Spec

\* Whatever was written before, a call is refused for a reason the tree shows
\* and otherwise does exactly what was asked (writeValueMode, ensureDir).
Answers ==
  \A s \in Slot :
    LET fs   == Maps(s)
        tree == TreeOf(fs)
    IN  /\ \A w \in Request :
             w.path # Device =>
               IF Error(s, w) = ""
               THEN Ideal!WriteAllowed(tree, w) /\ TreeOf(Written(fs, w)) = Ideal!Put(tree, w)
               ELSE Ideal!WriteRefused(tree, w, Error(s, w))
        /\ \A p \in Path :
             LET error == WalkError(fs, materializedBytes[s], p)
             IN  IF error = "" THEN Ideal!DirectoryAllowed(tree, p)
                 ELSE Ideal!DirectoryRefused(tree, p, error)

WellFormed(fs) ==
  /\ <<>> \in fs.dirs
  /\ Device \notin fs.dirs \cup FileNames(fs)
  /\ FileNames(fs) \cap fs.dirs = {}
  /\ fs.unknownFiles \subseteq FileNames(fs)
  /\ \A p \in (fs.dirs \cup FileNames(fs)) \ {<<>>} : Parent(p) \in fs.dirs

\* No name is a file and a directory, each is in a directory, and only files are
\* marked as unknown: pathKind, readDir, readFile and the conditions, which look
\* at the maps in different orders, agree.
TreeShape == \A s \in Slot : WellFormed(Maps(s))

\* The bytes that the memory budget reads are those of the tree.
BytesExact ==
  \A s \in Slot :
    /\ materializedBytes[s] = Ideal!Size(TreeOf(Maps(s)))
    /\ materializedBytes[s] <= MaximumBytes

\* What is there stays, as what it is: the file a redirection has opened can be
\* written when the statement has ended, whatever the statement did.  A slot may
\* also be given a copy of another slot's file system.
Kept(old, new) ==
  \A p \in Path : PathKind(old, p) # "missing" => PathKind(new, p) = PathKind(old, p)
FilesStay ==
  [][\A s \in Slot : Kept(Maps(s), Maps(s)') \/ \E t \in Slot : Maps(s)' = Maps(t)]_vars
===============================================================================
