--------------------------- MODULE AssignmentsLemmas ---------------------------
(***************************************************************************)
(* What the proofs about Assignments rest on: the parts of its inductive   *)
(* invariant, what the operations on variables, states, paths and the      *)
(* journal do to them, and that a step which leaves the outer frames alone *)
(* keeps what the invariant says of those.                                 *)
(*                                                                         *)
(* None of the four properties is inductive.  What has to be said besides: *)
(* which State objects belong to which list of statements (Owned), so that *)
(* no statement touches what another path holds; that the paths of a list  *)
(* are what its budget has counted (Budgets); and how a state is related   *)
(* to what was seen of it before, when a list started its statement        *)
(* (SinceStatement) or a call assigned temporarily (StateSinceCall): a     *)
(* name that was written no more often has the version it had.  What the   *)
(* journal holds is related in the same way to what was seen, so that      *)
(* undoing keeps these relations.                                          *)
(***************************************************************************)
EXTENDS Assignments, FoldsProofs, SequenceTheorems, TLAPS

-------------------------------------------------------------------------------
(* States, what is saved of them, and frames. *)

\* What is saved of a name, in the variables and in their ghost.
IsEntry(e) ==
  /\ e = [v |-> e.v, exists |-> e.exists, unknown |-> e.unknown, slots |-> e.slots]
  /\ IsValue(e.v) /\ e.exists \in BOOLEAN /\ e.unknown \in BOOLEAN
  /\ IF e.exists
     THEN e.slots = IF e.v.kind = "Indexed" THEN Normalize(e.slots, Len(e.v.list)) ELSE Dense
     ELSE e.v = Zero /\ ~e.unknown /\ e.slots = Dense
AgreeingEntries(e, t) ==
  /\ t.exists = e.exists /\ t.unknown \in BOOLEAN
  /\ IsValue(t.v) /\ Shape(t.v) = Shape(e.v)
  /\ ~e.unknown => t.v = e.v /\ t.slots = e.slots

Counts == [Name -> Nat]
IsState(s) ==
  /\ DOMAIN s = {"vars", "truth", "other", "failure", "written", "renewed"}
  /\ IsVars(s.vars) /\ Owners(s.vars) \subseteq Name
  /\ HasValues(s.truth) /\ Agrees(s.vars, s.truth)
  /\ s.other \in Nat /\ s.failure \in Nat
  /\ s.written \in Counts /\ s.renewed \in Counts
IsHeap(h) == IsSeq(h) /\ \A i \in DOMAIN h : IsState(h[i]) /\ h[i].failure <= Len(h)

IsRecord(h, r) ==
  /\ r.state \in DOMAIN h /\ r.name \in Name /\ r.written \in Nat
  /\ IsEntry(r.entry) /\ AgreeingEntries(r.entry, r.truth)
  /\ r.version \in 0 .. h[r.state].vars.revision
IsJournal(h, js) == IsSeq(js) /\ \A m \in DOMAIN js : IsRecord(h, js[m])

IsSaved(saved) ==
  /\ DOMAIN saved \subseteq Name /\ IsFiniteSet(DOMAIN saved)
  /\ \A n \in DOMAIN saved :
       IsEntry(saved[n].entry) /\ AgreeingEntries(saved[n].entry, saved[n].truth)

IsListFrame(f) ==
  /\ DOMAIN f = {"kind", "todo", "next", "budget", "checkpoint", "previous", "before"}
  /\ f.kind = "list" /\ IsSeq(f.todo) /\ IsSeq(f.next)
  /\ f.checkpoint \in Nat
  /\ IsSeq(f.before)
  /\ \A i \in DOMAIN f.before : f.before[i].written \in Counts /\ f.before[i].renewed \in Counts
IsCallFrame(f) ==
  /\ f.kind = "call" /\ IsSaved(f.saved)
  /\ f.written \in Counts /\ f.renewed \in Counts

IsListAt(fs, k) == fs[k].kind = "list"
AtWork(fs, ph, k) == k < Len(fs) \/ ph # "list"
IsStack(fs, ph) ==
  /\ IsSeq(fs)
  /\ \A k \in DOMAIN fs : IF IsListAt(fs, k) THEN IsListFrame(fs[k]) ELSE IsCallFrame(fs[k])
  /\ \A k \in DOMAIN fs : IsListAt(fs, k) /\ AtWork(fs, ph, k) => fs[k].todo # <<>>
  /\ fs # <<>> => IsListAt(fs, 1)
  /\ ph \in {"list", "statement", "body", "return"}
  /\ ph # "return" => fs # <<>> /\ (ph = "body") = ~IsListAt(fs, Len(fs))

-------------------------------------------------------------------------------
(* Whose state is whose. *)

\* The paths a list holds that nobody is at work on.
Idle(fs, ph, k) ==
  IF ~IsListAt(fs, k) THEN <<>>
  ELSE IF AtWork(fs, ph, k) THEN fs[k].next \o Tail(fs[k].todo) ELSE fs[k].next \o fs[k].todo
\* The index of the innermost list, and the state that it evaluates.
Inner(fs) == CHOOSE k \in DOMAIN fs : IsListAt(fs, k) /\ \A l \in DOMAIN fs : IsListAt(fs, l) => l <= k
SelfOf(fs) == Head(fs[Inner(fs)].todo).state
\* The paths that are evaluated, or that were and are handed back.
Flying(fs, ph, res) ==
  IF ph = "return" THEN res.paths
  ELSE IF ph = "list" THEN <<>> ELSE <<Path(SelfOf(fs), "completed")>>
Group(fs, ph, res, k) == IF k = 0 THEN Flying(fs, ph, res) ELSE Idle(fs, ph, k)

\* The states of a path.  Paths are sound when they have none in common, and
\* settled when none that is completed has still two.
Parts(h, p) == {p.state, h[p.state].failure} \ {None}
IsPath(h, p) ==
  LET f == h[p.state].failure IN
  /\ p = Path(p.state, p.status) /\ p.state \in DOMAIN h
  /\ f # None => f \in DOMAIN h /\ f # p.state /\ h[f].failure = None
Sound(h, paths) ==
  /\ IsSeq(paths) /\ \A a \in DOMAIN paths : IsPath(h, paths[a])
  /\ \A a, b \in DOMAIN paths : a # b => Parts(h, paths[a]) \cap Parts(h, paths[b]) = {}
Settled(h, paths) ==
  \A a \in DOMAIN paths : paths[a].status = "completed" => h[paths[a].state].failure = None
Disjoint(h, p, q) == Chain(h, p) \cap Chain(h, q) = {}

Owned(h, fs, ph, res) ==
  \A k \in 0 .. Len(fs) :
    /\ Sound(h, Group(fs, ph, res, k))
    /\ k # 0 \/ ph # "return" => Settled(h, Group(fs, ph, res, k))
    /\ \A l \in 0 .. Len(fs) :
         k # l => Disjoint(h, Group(fs, ph, res, k), Group(fs, ph, res, l))

BudgetAt(h, fs, ph, k) ==
  LET busy == AtWork(fs, ph, k) IN
  /\ fs[k].budget.bytes = SumOver(h, Idle(fs, ph, k)) + (IF busy THEN fs[k].previous ELSE 0)
  /\ fs[k].budget.count = Len(Idle(fs, ph, k)) + (IF busy THEN 1 ELSE 0)
  /\ fs[k].previous \in Int
Budgets(h, fs, ph) == \A k \in 1 .. Len(fs) : IsListAt(fs, k) => BudgetAt(h, fs, ph, k)

\* The records a list may undo are its own: inner lists have later ones, and
\* none is of a state that an outer list holds.
Checkpoints(fs, js) ==
  \A k \in 1 .. Len(fs) : IsListAt(fs, k) =>
    /\ fs[k].checkpoint <= Len(js)
    /\ \A l \in 1 .. Len(fs) : k < l /\ IsListAt(fs, l) => fs[k].checkpoint <= fs[l].checkpoint
RecordsApart(h, fs, ph, js) ==
  \A k, l \in 1 .. Len(fs) : k < l /\ IsListAt(fs, l) =>
    \A m \in fs[l].checkpoint + 1 .. Len(js) : js[m].state \notin Chain(h, Idle(fs, ph, k))

-------------------------------------------------------------------------------
(* What was seen of a state before. *)

\* A name of a state, as it was seen with these counts.
NotBefore(s, n, written, renewed) == s.written[n] >= written /\ s.renewed[n] >= renewed

SinceStatement(h, f) ==
  \A i \in DOMAIN f.before :
    /\ i \in DOMAIN h
    /\ \A n \in Name :
         /\ NotBefore(h[i], n, f.before[i].written[n], f.before[i].renewed[n])
         /\ Untouched(h[i], n, f.before[i].written, f.before[i].renewed) =>
              /\ Entry(h[i].vars, n) = Entry(f.before[i].vars, n)
              /\ Version(h[i].vars, n) = Version(f.before[i].vars, n)
RecordSinceStatement(h, f, r) ==
  r.state \in DOMAIN f.before =>
    LET b == f.before[r.state] IN
    /\ r.written >= b.written[r.name]
    /\ r.written = b.written[r.name] /\ h[r.state].renewed[r.name] = b.renewed[r.name] =>
         /\ r.entry = Entry(b.vars, r.name)
         /\ r.version = Version(b.vars, r.name)
StatementSeen(h, f, js) ==
  /\ SinceStatement(h, f)
  /\ \A m \in f.checkpoint + 1 .. Len(js) : RecordSinceStatement(h, f, js[m])

\* The names a call assigned, which are put back unless they were written.
Lasting(f) == {n \in DOMAIN f.saved : f.saved[n].applied # 0}
StateSinceCall(s, f) ==
  \A n \in Lasting(f) :
    /\ NotBefore(s, n, f.written[n], f.renewed[n])
    /\ s.vars.revision >= f.saved[n].applied
    /\ s.renewed[n] = f.renewed[n] =>
         (s.written[n] = f.written[n] <=> Version(s.vars, n) = f.saved[n].applied)
RecordSinceCall(h, f, r) ==
  r.name \in Lasting(f) =>
    /\ r.written >= f.written[r.name]
    /\ h[r.state].renewed[r.name] >= f.renewed[r.name]
    /\ h[r.state].renewed[r.name] = f.renewed[r.name] =>
         (r.written = f.written[r.name] <=> r.version = f.saved[r.name].applied)

\* The states that may be on a path when call k ends, and the records that
\* may be undone before.
Live(h, fs, ph, res, k) ==
  UNION {Chain(h, Group(fs, ph, res, l)) : l \in {0} \cup k + 1 .. Len(fs)}
Undoable(fs, js, k) ==
  UNION {fs[l].checkpoint + 1 .. Len(js) : l \in {x \in k + 1 .. Len(fs) : IsListAt(fs, x)}}
CallSeen(h, fs, ph, res, js, k) ==
  /\ \A n \in Lasting(fs[k]) : fs[k].saved[n].applied \in Nat
  /\ \A i \in Live(h, fs, ph, res, k) : StateSinceCall(h[i], fs[k])
  /\ \A m \in Undoable(fs, js, k) : RecordSinceCall(h, fs[k], js[m])

SeenAt(h, fs, ph, res, js, k) ==
  IF IsListAt(fs, k) THEN StatementSeen(h, fs[k], js) ELSE CallSeen(h, fs, ph, res, js, k)
Seen(h, fs, ph, res, js) == \A k \in 1 .. Len(fs) : SeenAt(h, fs, ph, res, js, k)

Inv(h, fs, ph, res, js) ==
  /\ IsHeap(h) /\ IsJournal(h, js) /\ IsStack(fs, ph)
  /\ Owned(h, fs, ph, res) /\ Budgets(h, fs, ph)
  /\ Checkpoints(fs, js) /\ RecordsApart(h, fs, ph, js)
  /\ Seen(h, fs, ph, res, js)
IInv == Inv(states, frames, phase, result, journal)
-------------------------------------------------------------------------------
(* Sequences.  IsSeq says of a sequence what the theorems about sequences    *)
(* need, without a set that its elements are in.                             *)

\* What is a sequence over some set is one over its own elements.
LEMMA SeqIs ==
  ASSUME NEW S, NEW t \in Seq(S)
  PROVE  IsSeq(t)
  BY SeqOfRange DEF IsSeq

\* A sequence is a function on the numbers up to its length.
LEMMA SeqDomain ==
  ASSUME NEW t, IsSeq(t)
  PROVE  /\ Len(t) \in Nat /\ DOMAIN t = 1 .. Len(t) /\ t \in Seq(Range(t))
         /\ t = <<>> <=> Len(t) = 0
         /\ \A i \in 1 .. Len(t) : t[i] \in Range(t)
<1>1. t \in Seq(Range(t))
  BY DEF IsSeq
<1>2. Len(t) \in Nat /\ DOMAIN t = 1 .. Len(t)
  BY <1>1, LenProperties
<1>3. t = <<>> <=> Len(t) = 0
  BY <1>1, EmptySeq
<1> QED
  BY <1>1, <1>2, <1>3, ElementOfSeq

\* Functions on the numbers up to some length are sequences.
LEMMA FunctionIsSeq ==
  ASSUME NEW n \in Nat, NEW f, f = [i \in 1 .. n |-> f[i]]
  PROVE  IsSeq(f) /\ Len(f) = n /\ DOMAIN f = 1 .. n
<1>1. f \in [1 .. n -> Range(f)]
  BY DEF Range
<1>2. f \in Seq(Range(f))
  BY <1>1, SeqDef
<1>3. DOMAIN f = 1 .. n
  BY <1>1
<1>4. Len(f) \in Nat /\ DOMAIN f = 1 .. Len(f)
  BY <1>2, LenProperties
<1> QED
  BY <1>2, <1>3, <1>4 DEF IsSeq

\* The empty sequence, and sequences of one element.
LEMMA ShortSeqs ==
  ASSUME NEW x
  PROVE  /\ IsSeq(<<>>) /\ Len(<<>>) = 0
         /\ IsSeq(<<x>>) /\ Len(<<x>>) = 1 /\ <<x>>[1] = x
<1>1. <<>> \in Seq({x}) /\ <<x>> \in Seq({x})
  OBVIOUS
<1> QED
  BY <1>1, SeqIs

\* One sequence after the other.
LEMMA ConcatIs ==
  ASSUME NEW s, IsSeq(s), NEW t, IsSeq(t)
  PROVE  /\ IsSeq(s \o t) /\ Len(s \o t) = Len(s) + Len(t)
         /\ \A i \in 1 .. Len(s) : (s \o t)[i] = s[i]
         /\ \A i \in 1 .. Len(t) : (s \o t)[Len(s) + i] = t[i]
         /\ s \o <<>> = s /\ <<>> \o s = s
<1> DEFINE S == Range(s) \cup Range(t)
<1>1. s \in Seq(S) /\ t \in Seq(S)
  BY SeqMonotonic, SeqDomain
<1>2. /\ s \o t \in Seq(S) /\ Len(s \o t) = Len(s) + Len(t)
      /\ \A i \in 1 .. Len(s) + Len(t) :
           (s \o t)[i] = IF i <= Len(s) THEN s[i] ELSE t[i - Len(s)]
  BY <1>1, ConcatProperties
<1>3. IsSeq(s \o t)
  BY <1>2, SeqIs
<1>4. Len(s) \in Nat /\ Len(t) \in Nat
  BY SeqDomain
<1>5. ASSUME NEW i \in 1 .. Len(t)
      PROVE  (s \o t)[Len(s) + i] = t[i]
  <2>1. Len(s) + i \in 1 .. Len(s) + Len(t) /\ ~(Len(s) + i <= Len(s))
    BY <1>4
  <2>2. (Len(s) + i) - Len(s) = i
    BY <1>4
  <2> QED
    BY <1>2, <2>1, <2>2
<1>6. \A i \in 1 .. Len(s) : (s \o t)[i] = s[i]
  BY <1>2, <1>4
<1>7. s \o <<>> = s /\ <<>> \o s = s
  BY <1>1, ConcatEmptySeq
<1> QED
  BY <1>2, <1>3, <1>5, <1>6, <1>7

\* Three sequences.
LEMMA ConcatThree ==
  ASSUME NEW s, IsSeq(s), NEW t, IsSeq(t), NEW u, IsSeq(u)
  PROVE  (s \o t) \o u = s \o (t \o u)
<1> DEFINE S == Range(s) \cup Range(t) \cup Range(u)
<1>1. s \in Seq(S) /\ t \in Seq(S) /\ u \in Seq(S)
  BY SeqMonotonic, SeqDomain
<1> QED
  BY <1>1, ConcatAssociative

\* A sequence with one element more.
LEMMA AppendIs ==
  ASSUME NEW s, IsSeq(s), NEW x
  PROVE  /\ Append(s, x) = s \o <<x>>
         /\ IsSeq(Append(s, x)) /\ Len(Append(s, x)) = Len(s) + 1
         /\ \A i \in 1 .. Len(s) : Append(s, x)[i] = s[i]
         /\ Append(s, x)[Len(s) + 1] = x
<1> DEFINE S == Range(s) \cup {x}
<1>1. s \in Seq(S) /\ x \in S
  BY SeqMonotonic, SeqDomain
<1>2. Append(s, x) = s \o <<x>>
  BY <1>1, AppendIsConcat
<1>3. Append(s, x) \in Seq(S)
  BY <1>1, AppendProperties
<1>4. IsSeq(Append(s, x))
  BY <1>3, SeqIs
<1> QED
  BY <1>1, <1>2, <1>4, AppendProperties

\* A sequence and its first element.
LEMMA HeadIs ==
  ASSUME NEW s, IsSeq(s), s # <<>>
  PROVE  /\ IsSeq(Tail(s)) /\ Len(Tail(s)) = Len(s) - 1 /\ Len(s) \in Nat \ {0}
         /\ Head(s) = s[1] /\ s = <<Head(s)>> \o Tail(s)
         /\ \A i \in 1 .. Len(Tail(s)) : Tail(s)[i] = s[i + 1]
<1>1. s \in Seq(Range(s)) /\ Len(s) \in Nat \ {0} /\ DOMAIN s = 1 .. Len(s)
  BY SeqDomain
<1>2. /\ Head(s) \in Range(s) /\ Tail(s) \in Seq(Range(s)) /\ Len(Tail(s)) = Len(s) - 1
      /\ \A i \in 1 .. Len(Tail(s)) : Tail(s)[i] = s[i + 1]
  BY <1>1, HeadTailProperties
<1>3. IsSeq(Tail(s))
  BY <1>2, SeqIs
<1>4. Head(s) = s[1]
  BY <1>1
<1>5. s = <<Head(s)>> \o Tail(s)
  <2> DEFINE t == <<Head(s)>> \o Tail(s)
  <2>1. <<Head(s)>> \in Seq(Range(s)) /\ Len(<<Head(s)>>) = 1 /\ <<Head(s)>>[1] = s[1]
    BY <1>2, <1>4
  <2>2. /\ t \in Seq(Range(s)) /\ Len(t) = 1 + (Len(s) - 1)
        /\ \A i \in 1 .. 1 + (Len(s) - 1) : t[i] = IF i <= 1 THEN <<Head(s)>>[i] ELSE Tail(s)[i - 1]
    BY <1>2, <2>1, ConcatProperties
  <2>3. ASSUME NEW i \in 1 .. Len(s)
        PROVE  t[i] = s[i]
    <3>1. CASE i = 1
      BY <1>1, <2>1, <2>2, <3>1
    <3>2. CASE i # 1
      <4>1. i - 1 \in 1 .. Len(Tail(s)) /\ (i - 1) + 1 = i /\ ~(i <= 1)
        BY <1>1, <1>2, <3>2
      <4>2. i \in 1 .. 1 + (Len(s) - 1)
        BY <1>1
      <4> QED
        BY <1>2, <2>2, <4>1, <4>2
    <3> QED
      BY <3>1, <3>2
  <2>4. Len(t) = Len(s)
    BY <1>1, <2>2
  <2> HIDE DEF t
  <2> QED
    BY <1>1, <2>2, <2>3, <2>4, SeqEqual DEF t
<1> QED
  BY <1>1, <1>2, <1>3, <1>4, <1>5

\* A part of a sequence.
LEMMA SubSeqIs ==
  ASSUME NEW s, IsSeq(s), NEW m \in Nat \ {0}, NEW n \in Int, n <= Len(s)
  PROVE  /\ IsSeq(SubSeq(s, m, n))
         /\ Len(SubSeq(s, m, n)) = IF m <= n THEN n - m + 1 ELSE 0
         /\ \A i \in 1 .. n - m + 1 : SubSeq(s, m, n)[i] = s[m + i - 1]
<1>1. Len(s) \in Nat /\ \A i \in 1 .. Len(s) : s[i] \in Range(s)
  BY SeqDomain
<1>2. \A i \in m .. n : s[i] \in Range(s)
  BY <1>1
<1>3. m \in Int
  OBVIOUS
<1>4. /\ SubSeq(s, m, n) \in Seq(Range(s))
      /\ Len(SubSeq(s, m, n)) = IF m <= n THEN n - m + 1 ELSE 0
      /\ \A i \in 1 .. n - m + 1 : SubSeq(s, m, n)[i] = s[m + i - 1]
  BY <1>2, <1>3, SubSeqProperties
<1>5. IsSeq(SubSeq(s, m, n))
  BY <1>4, SeqIs
<1> QED
  BY <1>4, <1>5

\* The part of a sequence up to some place.
LEMMA PrefixIs ==
  ASSUME NEW s, IsSeq(s), NEW n \in 0 .. Len(s)
  PROVE  /\ IsSeq(SubSeq(s, 1, n)) /\ Len(SubSeq(s, 1, n)) = n
         /\ \A i \in 1 .. n : SubSeq(s, 1, n)[i] = s[i]
<1>1. Len(s) \in Nat
  BY SeqDomain
<1>2. /\ IsSeq(SubSeq(s, 1, n)) /\ Len(SubSeq(s, 1, n)) = IF 1 <= n THEN n - 1 + 1 ELSE 0
      /\ \A i \in 1 .. n - 1 + 1 : SubSeq(s, 1, n)[i] = s[1 + i - 1]
  BY <1>1, SubSeqIs
<1> QED
  BY <1>1, <1>2

\* A sequence without its last element.
LEMMA FrontIs ==
  ASSUME NEW s, IsSeq(s), s # <<>>
  PROVE  /\ IsSeq(Front(s)) /\ Len(Front(s)) = Len(s) - 1
         /\ \A i \in 1 .. Len(s) - 1 : Front(s)[i] = s[i]
<1>1. Len(s) - 1 \in 0 .. Len(s)
  BY SeqDomain
<1> QED
  BY <1>1, PrefixIs DEF Front

\* A sequence with another element at one place.
LEMMA ExceptIs ==
  ASSUME NEW s, IsSeq(s), NEW i \in DOMAIN s, NEW x
  PROVE  /\ IsSeq([s EXCEPT ![i] = x]) /\ Len([s EXCEPT ![i] = x]) = Len(s)
         /\ [s EXCEPT ![i] = x][i] = x
         /\ \A j \in DOMAIN s : j # i => [s EXCEPT ![i] = x][j] = s[j]
<1> DEFINE f == [s EXCEPT ![i] = x]
<1>1. DOMAIN s = 1 .. Len(s) /\ Len(s) \in Nat
  BY SeqDomain
<1>2. f = [j \in 1 .. Len(s) |-> f[j]]
  BY <1>1
<1>3. f[i] = x /\ \A j \in DOMAIN s : j # i => f[j] = s[j]
  BY <1>1
<1> HIDE DEF f
<1>4. IsSeq(f) /\ Len(f) = Len(s)
  BY <1>1, <1>2, FunctionIsSeq
<1> QED
  BY <1>3, <1>4 DEF f

\* Sequences with the same elements are the same.
LEMMA SameSeq ==
  ASSUME NEW s, IsSeq(s), NEW t, IsSeq(t), Len(s) = Len(t),
         \A i \in 1 .. Len(s) : s[i] = t[i]
  PROVE  s = t
<1> DEFINE S == Range(s) \cup Range(t)
<1>1. s \in Seq(S) /\ t \in Seq(S)
  BY SeqMonotonic, SeqDomain
<1> QED
  BY <1>1, SeqEqual

\* The elements of a sequence, and of two of them.
LEMMA RangeIs ==
  ASSUME NEW s, IsSeq(s), NEW t, IsSeq(t)
  PROVE  Range(s \o t) = Range(s) \cup Range(t)
<1> DEFINE S == Range(s) \cup Range(t)
<1>1. s \in Seq(S) /\ t \in Seq(S)
  BY SeqMonotonic, SeqDomain
<1> QED
  BY <1>1, RangeConcatenation

\* Of the places of a sequence that something holds for, one is the first.
LEMMA FirstPlace ==
  ASSUME NEW n \in Nat, NEW Bad \in SUBSET (1 .. n), Bad # {}
  PROVE  \E m \in Bad : \A k \in 1 .. m - 1 : k \notin Bad
<1> DEFINE S == {-k : k \in Bad}
<1>1. S \in SUBSET Int /\ S # {}
  <2>1. \A k \in Bad : -k \in Int
    OBVIOUS
  <2>2. PICK k \in Bad : TRUE
    OBVIOUS
  <2>3. -k \in S
    BY <2>2
  <2> QED
    BY <2>1, <2>3
<1>2. IsFiniteSet(S)
  <2>1. IsFiniteSet((-n) .. 0)
    <3>1. -n \in Int /\ 0 \in Int
      OBVIOUS
    <3> QED
      BY <3>1, FS_Interval
  <2>2. S \subseteq (-n) .. 0
    OBVIOUS
  <2> QED
    BY <2>1, <2>2, FS_Subset
<1>3. PICK x \in S : \A y \in S : x >= y
  BY <1>1, <1>2, Greatest
<1>4. PICK m \in Bad : x = -m
  BY <1>3
<1>5. \A k \in Bad : -m >= -k
  BY <1>3, <1>4
<1>6. \A k \in 1 .. m - 1 : k \notin Bad
  BY <1>5
<1> QED
  BY <1>6

\* Counting up and counting down.
LEMMA CountUp ==
  ASSUME NEW n \in Nat, NEW Good, 0 \in Good, \A k \in 1 .. n : k - 1 \in Good => k \in Good
  PROVE  n \in Good
<1> DEFINE Bad == {k \in 1 .. n : k \notin Good}
<1>1. Bad \in SUBSET (1 .. n)
  OBVIOUS
<1>2. \A k \in 1 .. n : k \in Bad \/ k \in Good
  OBVIOUS
<1>3. \A k \in Bad : k \notin Good
  OBVIOUS
<1> HIDE DEF Bad
<1>4. Bad = {}
  <2> SUFFICES ASSUME Bad # {} PROVE FALSE
    OBVIOUS
  <2>1. PICK m \in Bad : \A k \in 1 .. m - 1 : k \notin Bad
    BY <1>1, FirstPlace
  <2>2. m \in 1 .. n /\ (m - 1 = 0 \/ m - 1 \in 1 .. m - 1)
    BY <1>1, <2>1
  <2>3. m - 1 \in Good
    BY <1>2, <2>1, <2>2
  <2> QED
    BY <1>3, <2>1, <2>2, <2>3
<1>5. n = 0 \/ n \in 1 .. n
  OBVIOUS
<1> QED
  BY <1>2, <1>4, <1>5

\* What holds at n + 1, and of a number when it does of the next, holds at 1.
LEMMA CountDown ==
  ASSUME NEW n \in Nat, NEW Good, n + 1 \in Good, \A k \in 1 .. n : k + 1 \in Good => k \in Good
  PROVE  1 \in Good
<1> DEFINE Up == {k \in 0 .. n : n + 1 - k \in Good}
<1>1. 0 \in Up
  OBVIOUS
<1>2. ASSUME NEW k \in 1 .. n, k - 1 \in Up
      PROVE  k \in Up
  <2>1. n + 1 - k \in 1 .. n /\ (n + 1 - k) + 1 = n + 1 - (k - 1) /\ k \in 0 .. n
    OBVIOUS
  <2>2. n + 1 - k \in Good
    BY <1>2, <2>1
  <2> QED
    BY <2>1, <2>2
<1> HIDE DEF Up
<1>3. n \in Up
  BY <1>1, <1>2, CountUp
<1> QED
  BY <1>3 DEF Up

-------------------------------------------------------------------------------
(* The variables: what a write, an unset and the undoing of a write leave.   *)

\* The elements an array has, in the form they are kept.
Sparse(v, slots) == IF v.kind = "Indexed" THEN Normalize(slots, Len(v.list)) ELSE Dense

\* p are the variables vs but for n, of which they have the entry e, written last.
NewEntry(v, unknown, slots) ==
  [v |-> v, exists |-> TRUE, unknown |-> unknown, slots |-> Sparse(v, slots)]
NoEntry == [v |-> Zero, exists |-> FALSE, unknown |-> FALSE, slots |-> Dense]
Sets(p, vs, n, e) ==
  /\ Entry(p, n) = e /\ Lookup(p, n) = e.v /\ Slots(p, n) = e.slots
  /\ Unknown(p, n) = e.unknown
  /\ Version(p, n) = vs.revision + 1 /\ p.revision = vs.revision + 1
  /\ DOMAIN p.data = IF e.exists THEN DOMAIN vs.data \cup {n} ELSE DOMAIN vs.data \ {n}
  /\ Owners(p) \subseteq Owners(vs) \cup {n}
  /\ \A m : m # n => /\ Lookup(p, m) = Lookup(vs, m) /\ Slots(p, m) = Slots(vs, m)
                     /\ Unknown(p, m) = Unknown(vs, m)
                     /\ Entry(p, m) = Entry(vs, m) /\ Version(p, m) = Version(vs, m)

\* A write of n does this.
LEMMA PutSets ==
  ASSUME NEW vs, NEW n, NEW v, NEW unknown \in BOOLEAN, NEW slots
  PROVE  Sets(Put(vs, n, v, unknown, slots), vs, n, NewEntry(v, unknown, slots))
<1> DEFINE p == Put(vs, n, v, unknown, slots)
           e == NewEntry(v, unknown, slots)
<1>1. /\ p.data = With(vs.data, n, v)
      /\ p.unknown = IF unknown THEN vs.unknown \cup {n} ELSE vs.unknown \ {n}
      /\ p.indexed = IF Sparse(v, slots) = Dense THEN Without(vs.indexed, n)
                     ELSE With(vs.indexed, n, Sparse(v, slots))
      /\ p.versions = With(vs.versions, n, vs.revision + 1)
      /\ p.revision = vs.revision + 1
  BY DEF Put, Sparse
<1>0. e.v = v /\ e.exists = TRUE /\ e.unknown = unknown /\ e.slots = Sparse(v, slots)
  BY DEF NewEntry
<1> HIDE DEF p
<1>2. DOMAIN p.data = DOMAIN vs.data \cup {n} /\ Owners(p) \subseteq Owners(vs) \cup {n}
  BY <1>1 DEF With, Owners
<1>3. Lookup(p, n) = v /\ \A m : m # n => Lookup(p, m) = Lookup(vs, m)
  BY <1>1 DEF With, Lookup, At
<1>4. Version(p, n) = vs.revision + 1 /\ \A m : m # n => Version(p, m) = Version(vs, m)
  BY <1>1 DEF With, Version, At
<1>5. Unknown(p, n) = unknown /\ \A m : m # n => Unknown(p, m) = Unknown(vs, m)
  BY <1>1 DEF Unknown
<1>6. Slots(p, n) = Sparse(v, slots) /\ \A m : m # n => Slots(p, m) = Slots(vs, m)
  <2>1. CASE Sparse(v, slots) = Dense
    BY <1>1, <2>1 DEF Without, Restrict, Slots, At
  <2>2. CASE Sparse(v, slots) # Dense
    BY <1>1, <2>2 DEF With, Slots, At
  <2> QED
    BY <2>1, <2>2
<1>7. \A m : m # n => (m \in DOMAIN p.data) = (m \in DOMAIN vs.data)
  BY <1>2
<1>8. Entry(p, n) = e
  BY <1>2, <1>3, <1>5, <1>6 DEF Entry, NewEntry
<1>9. \A m : m # n => Entry(p, m) = Entry(vs, m)
  BY <1>3, <1>5, <1>6, <1>7 DEF Entry
<1> HIDE DEF e
<1>10. Sets(p, vs, n, e)
  BY <1>0, <1>1, <1>2, <1>3, <1>4, <1>5, <1>6, <1>8, <1>9 DEF Sets
<1> QED
  BY <1>10 DEF p, e

\* An unset of n leaves no entry.
LEMMA DeleteSets ==
  ASSUME NEW vs, NEW n
  PROVE  Sets(Delete(vs, n), vs, n, NoEntry)
<1> DEFINE p == Delete(vs, n)
<1>1. /\ p.data = Without(vs.data, n) /\ p.unknown = vs.unknown \ {n}
      /\ p.indexed = Without(vs.indexed, n)
      /\ p.versions = With(vs.versions, n, vs.revision + 1)
      /\ p.revision = vs.revision + 1
  BY DEF Delete
<1>0. NoEntry.v = Zero /\ NoEntry.exists = FALSE /\ NoEntry.unknown = FALSE
      /\ NoEntry.slots = Dense
  BY DEF NoEntry
<1> HIDE DEF p
<1>2. DOMAIN p.data = DOMAIN vs.data \ {n} /\ Owners(p) \subseteq Owners(vs) \cup {n}
  BY <1>1 DEF Without, With, Restrict, Owners
<1>3. Lookup(p, n) = Zero /\ \A m : m # n => Lookup(p, m) = Lookup(vs, m)
  BY <1>1 DEF Without, Restrict, Lookup, At
<1>4. Version(p, n) = vs.revision + 1 /\ \A m : m # n => Version(p, m) = Version(vs, m)
  BY <1>1 DEF With, Version, At
<1>5. Unknown(p, n) = FALSE /\ \A m : m # n => Unknown(p, m) = Unknown(vs, m)
  BY <1>1 DEF Unknown
<1>6. Slots(p, n) = Dense /\ \A m : m # n => Slots(p, m) = Slots(vs, m)
  BY <1>1 DEF Without, Restrict, Slots, At
<1>7. (n \in DOMAIN p.data) = FALSE
      /\ \A m : m # n => (m \in DOMAIN p.data) = (m \in DOMAIN vs.data)
  BY <1>2
<1>8. Entry(p, n) = NoEntry
  BY <1>3, <1>5, <1>6, <1>7 DEF Entry, NoEntry
<1>9. \A m : m # n => Entry(p, m) = Entry(vs, m)
  BY <1>3, <1>5, <1>6, <1>7 DEF Entry
<1>10. Sets(p, vs, n, NoEntry)
  BY <1>0, <1>1, <1>2, <1>3, <1>4, <1>5, <1>6, <1>8, <1>9 DEF Sets
<1> QED
  BY <1>10 DEF p

\* Normalizing is done once and for all.
LEMMA NormalizeOnce ==
  ASSUME NEW slots, NEW n
  PROVE  Normalize(Normalize(slots, n), n) = Normalize(slots, n)
<1>1. CASE slots = Dense \/ n = 0 \/ Ones(n) \subseteq slots
  BY <1>1 DEF Normalize
<1>2. CASE ~(slots = Dense \/ n = 0 \/ Ones(n) \subseteq slots)
  <2>1. Normalize(slots, n) = slots \cap Ones(n)
    BY <1>2 DEF Normalize
  <2>2. ~(Ones(n) \subseteq slots \cap Ones(n)) /\ (slots \cap Ones(n)) \cap Ones(n) = slots \cap Ones(n)
    BY <1>2
  <2> QED
    BY <2>1, <2>2 DEF Normalize
<1> QED
  BY <1>1, <1>2

-------------------------------------------------------------------------------
(* The bytes of the variables. *)

\* What a value costs is a number.
LEMMA ValueBytesType ==
  ASSUME NEW v, IsValue(v)
  PROVE  ValueBytes(v) \in Nat
<1>1. CASE v.kind = "Indexed"
  <2> DEFINE f == [i \in DOMAIN v.list |-> EntryBytes + Len(v.list[i])]
  <2>1. \A i \in DOMAIN v.list : f[i] \in Nat
    <3>1. EntryBytes \in Nat
      BY AssignmentsAssumption
    <3>2. \A i \in DOMAIN v.list : Len(v.list[i]) \in Nat
      BY SeqDomain DEF IsValue
    <3> QED
      BY <3>1, <3>2
  <2>2. IsFiniteSet(DOMAIN v.list)
    <3>1. Len(v.list) \in Nat /\ DOMAIN v.list = 1 .. Len(v.list)
      BY SeqDomain DEF IsValue
    <3>2. 1 \in Int /\ Len(v.list) \in Int
      BY <3>1
    <3> QED
      BY <3>1, <3>2, FS_Interval
  <2>3. ValueBytes(v) = SumFunctionOnSet(f, DOMAIN v.list)
    BY <1>1 DEF ValueBytes, TotalCost
  <2> HIDE DEF f
  <2> QED
    BY <2>1, <2>2, <2>3, SumNatural
<1>2. CASE v.kind = "Associative"
  <2> DEFINE f == [k \in DOMAIN v.map |-> EntryBytes + 1 + Len(v.map[k])]
  <2>1. \A k \in DOMAIN v.map : f[k] \in Nat
    <3>1. EntryBytes \in Nat
      BY AssignmentsAssumption
    <3>2. \A k \in DOMAIN v.map : Len(v.map[k]) \in Nat
      BY SeqDomain DEF IsValue
    <3>3. \A len \in Nat : EntryBytes + 1 + len \in Nat
      BY <3>1
    <3> QED
      BY <3>2, <3>3, Zenon
  <2>2. IsFiniteSet(DOMAIN v.map)
    BY DEF IsValue
  <2>3. ValueBytes(v) = SumFunctionOnSet(f, DOMAIN v.map)
    BY <1>2 DEF ValueBytes, TotalCost
  <2> HIDE DEF f
  <2> QED
    BY <2>1, <2>2, <2>3, SumNatural
<1>3. CASE v.kind \notin {"Indexed", "Associative"}
  <2>1. ValueBytes(v) = Len(v.str)
    BY <1>3 DEF ValueBytes
  <2> QED
    BY <2>1, SeqDomain DEF IsValue
<1> QED
  BY <1>1, <1>2, <1>3

\* A sum without the summand of one element.
LEMMA SumWithout ==
  ASSUME NEW f, NEW D, IsFiniteSet(D), \A x \in D : f[x] \in Int,
         NEW n, NEW h, \A x \in D \ {n} : h[x] = f[x]
  PROVE  /\ SumFunctionOnSet(f, D) \in Int /\ (IF n \in D THEN f[n] ELSE 0) \in Int
         /\ SumFunctionOnSet(h, D \ {n})
              = SumFunctionOnSet(f, D) - (IF n \in D THEN f[n] ELSE 0)
<1> DEFINE E == D \ {n}
<1>1. IsFiniteSet(E)
  BY FS_Subset
<1>2. SumFunctionOnSet(h, E) = SumFunctionOnSet(f, E)
  BY <1>1, SumSame
<1>3. SumFunctionOnSet(f, D) \in Int /\ SumFunctionOnSet(f, E) \in Int
  BY <1>1, SumType
<1>4. SumFunctionOnSet(f, D) = (IF n \in D THEN f[n] ELSE 0) + SumFunctionOnSet(f, E)
  <2>1. CASE n \in D
    BY <2>1, SumRemove
  <2>2. CASE n \notin D
    <3>1. E = D
      BY <2>2
    <3> QED
      BY <1>3, <2>2, <3>1
  <2> QED
    BY <2>1, <2>2
<1>6. (IF n \in D THEN f[n] ELSE 0) \in Int
  OBVIOUS
<1> HIDE DEF E
<1>7. SumFunctionOnSet(h, E) = SumFunctionOnSet(f, D) - (IF n \in D THEN f[n] ELSE 0)
  BY <1>2, <1>3, <1>4, <1>6
<1> QED
  BY <1>3, <1>6, <1>7 DEF E

\* a is the sum without n, for all that have the summands of f otherwise.
Rest(f, D, n, a) ==
  \A h : (\A x \in D \ {n} : h[x] = f[x]) =>
    /\ SumFunctionOnSet(h, D \ {n}) = a
    /\ h[n] \in Int => SumFunctionOnSet(h, D \cup {n}) = a + h[n]
\* The sum of f without n is such an a.
LEMMA SumOther ==
  ASSUME NEW f, NEW D, IsFiniteSet(D), \A x \in D : f[x] \in Int, NEW n
  PROVE  Rest(f, D, n, SumFunctionOnSet(f, D) - (IF n \in D THEN f[n] ELSE 0))
<1> SUFFICES ASSUME NEW h, \A x \in D \ {n} : h[x] = f[x]
             PROVE  /\ SumFunctionOnSet(h, D \ {n})
                         = SumFunctionOnSet(f, D) - (IF n \in D THEN f[n] ELSE 0)
                    /\ h[n] \in Int => SumFunctionOnSet(h, D \cup {n})
                         = SumFunctionOnSet(f, D) - (IF n \in D THEN f[n] ELSE 0) + h[n]
  BY DEF Rest
<1>1. SumFunctionOnSet(h, D \ {n})
        = SumFunctionOnSet(f, D) - (IF n \in D THEN f[n] ELSE 0)
  BY SumWithout
<1>2. ASSUME h[n] \in Int
      PROVE  SumFunctionOnSet(h, D \cup {n})
               = SumFunctionOnSet(f, D) - (IF n \in D THEN f[n] ELSE 0) + h[n]
  <2>1. IsFiniteSet(D \cup {n})
    BY FS_AddElement
  <2>2. SumFunctionOnSet(f, D) \in Int /\ (IF n \in D THEN f[n] ELSE 0) \in Int
    BY SumWithout
  <2>3. \A x \in D \cup {n} : h[x] \in Int
    BY <1>2
  <2>4. (D \cup {n}) \ {n} = D \ {n} /\ n \in D \cup {n}
    OBVIOUS
  <2>5. SumFunctionOnSet(h, D \cup {n}) = h[n] + SumFunctionOnSet(h, (D \cup {n}) \ {n})
    BY <2>1, <2>3, <2>4, SumRemove
  <2> QED
    BY <1>1, <1>2, <2>2, <2>4, <2>5
<1> QED
  BY <1>1, <1>2

\* The summands of CountedBytes.
DataCosts(vs) == [n \in DOMAIN vs.data |-> EntryCost(n, vs.data[n])]
SlotCosts(vs) == [n \in DOMAIN vs.indexed |-> SlotCost(n, vs.indexed[n])]
Marks(S)      == [n \in S |-> NameEntry(n)]
\* CountedBytes is the sum over these four functions.
LEMMA CountedParts ==
  ASSUME NEW vs
  PROVE  CountedBytes(vs) = SumFunctionOnSet(DataCosts(vs), DOMAIN vs.data)
                          + SumFunctionOnSet(SlotCosts(vs), DOMAIN vs.indexed)
                          + SumFunctionOnSet(Marks(vs.unknown), vs.unknown)
                          + SumFunctionOnSet(Marks(DOMAIN vs.versions), DOMAIN vs.versions)
  BY Zenon DEF CountedBytes, TotalCost, DataCosts, SlotCosts, Marks

\* What a name and its elements cost.
LEMMA CostTypes ==
  ASSUME NEW n \in Name
  PROVE  /\ NameEntry(n) \in Nat
         /\ \A v : IsValue(v) => EntryCost(n, v) \in Nat
         /\ \A slots : \A len \in Nat :
              Normalize(slots, len) # Dense => SlotCost(n, Normalize(slots, len)) \in Nat
<1>1. EntryBytes \in Nat /\ NameBytes(n) \in Nat
  BY AssignmentsAssumption
<1>2. NameEntry(n) \in Nat
  BY <1>1 DEF NameEntry
<1>3. ASSUME NEW v, IsValue(v)
      PROVE  EntryCost(n, v) \in Nat
  <2>1. ValueBytes(v) \in Nat
    BY <1>3, ValueBytesType
  <2> QED
    BY <1>2, <2>1 DEF EntryCost
<1>4. ASSUME NEW slots, NEW len \in Nat, Normalize(slots, len) # Dense
      PROVE  SlotCost(n, Normalize(slots, len)) \in Nat
  <2>1. Normalize(slots, len) \subseteq Ones(len)
    BY <1>4 DEF Normalize
  <2>2. IsFiniteSet(Ones(len))
    <3>1. 0 \in Int /\ len - 1 \in Int
      OBVIOUS
    <3> QED
      BY <3>1, FS_Interval DEF Ones
  <2>3. Cardinality(Normalize(slots, len)) \in Nat
    BY <2>1, <2>2, FS_Subset, FS_CardinalityType
  <2>4. EntryBytes * Cardinality(Normalize(slots, len)) \in Nat
    BY <1>1, <2>3
  <2> QED
    BY <1>2, <2>4 DEF SlotCost
<1> QED
  BY <1>2, <1>3, <1>4

\* What the summands of the variables are.
LEMMA PartTypes ==
  ASSUME NEW vs, IsVars(vs), Owners(vs) \subseteq Name
  PROVE  /\ IsFiniteSet(DOMAIN vs.data) /\ IsFiniteSet(DOMAIN vs.indexed)
         /\ IsFiniteSet(vs.unknown) /\ IsFiniteSet(DOMAIN vs.versions)
         /\ DOMAIN vs.data \subseteq Name /\ DOMAIN vs.indexed \subseteq Name
         /\ vs.unknown \subseteq Name /\ DOMAIN vs.versions \subseteq Name
         /\ \A n \in DOMAIN vs.data :
              DataCosts(vs)[n] = EntryCost(n, vs.data[n]) /\ DataCosts(vs)[n] \in Int
         /\ \A n \in DOMAIN vs.indexed :
              SlotCosts(vs)[n] = SlotCost(n, vs.indexed[n]) /\ SlotCosts(vs)[n] \in Int
         /\ \A n \in vs.unknown :
              Marks(vs.unknown)[n] = NameEntry(n) /\ Marks(vs.unknown)[n] \in Int
         /\ \A n \in DOMAIN vs.versions : /\ Marks(DOMAIN vs.versions)[n] = NameEntry(n)
                                          /\ Marks(DOMAIN vs.versions)[n] \in Int
<1>1. /\ IsFiniteSet(DOMAIN vs.data) /\ IsFiniteSet(DOMAIN vs.versions)
      /\ vs.unknown \subseteq DOMAIN vs.data /\ DOMAIN vs.indexed \subseteq DOMAIN vs.data
  BY DEF IsVars
<1>2. IsFiniteSet(DOMAIN vs.indexed) /\ IsFiniteSet(vs.unknown)
  BY <1>1, FS_Subset
<1>3. DOMAIN vs.data \subseteq Name /\ DOMAIN vs.versions \subseteq Name
  BY DEF Owners
<1>4. ASSUME NEW n \in DOMAIN vs.data
      PROVE  DataCosts(vs)[n] = EntryCost(n, vs.data[n]) /\ DataCosts(vs)[n] \in Int
  <2>1. IsValue(vs.data[n]) /\ n \in Name
    BY <1>3 DEF IsVars, HasValues
  <2>2. EntryCost(n, vs.data[n]) \in Nat
    BY <2>1, CostTypes
  <2> QED
    BY <2>2 DEF DataCosts
<1>5. ASSUME NEW n \in DOMAIN vs.indexed
      PROVE  SlotCosts(vs)[n] = SlotCost(n, vs.indexed[n]) /\ SlotCosts(vs)[n] \in Int
  <2>1. n \in Name /\ vs.indexed[n] # Dense
        /\ vs.indexed[n] = Normalize(vs.indexed[n], Len(vs.data[n].list))
    BY <1>1, <1>3 DEF IsVars
  <2>2. IsSeq(vs.data[n].list)
    BY <1>1 DEF IsVars, HasValues, IsValue
  <2>3. Len(vs.data[n].list) \in Nat
    BY <2>2, SeqDomain
  <2>4. SlotCost(n, vs.indexed[n]) \in Nat
    BY <2>1, <2>3, CostTypes
  <2> QED
    BY <2>4 DEF SlotCosts
<1>6. \A n \in vs.unknown :
            Marks(vs.unknown)[n] = NameEntry(n) /\ Marks(vs.unknown)[n] \in Int
  <2>1. \A n \in vs.unknown : NameEntry(n) \in Nat
    BY <1>1, <1>3, CostTypes
  <2> QED
    BY <2>1 DEF Marks
<1>7. \A n \in DOMAIN vs.versions : /\ Marks(DOMAIN vs.versions)[n] = NameEntry(n)
                                    /\ Marks(DOMAIN vs.versions)[n] \in Int
  <2>1. \A n \in DOMAIN vs.versions : NameEntry(n) \in Nat
    BY <1>3, CostTypes
  <2> QED
    BY <2>1 DEF Marks
<1> QED
  BY <1>1, <1>2, <1>3, <1>4, <1>5, <1>6, <1>7

\* The parts of the bytes, and what they lose with a name.
LEMMA BytesWithout ==
  ASSUME NEW vs, IsVars(vs), Owners(vs) \subseteq Name, NEW n \in Name
  PROVE  \E a, b, c, d \in Int :
           /\ Rest(DataCosts(vs), DOMAIN vs.data, n, a)
           /\ Rest(SlotCosts(vs), DOMAIN vs.indexed, n, b)
           /\ Rest(Marks(vs.unknown), vs.unknown, n, c)
           /\ Rest(Marks(DOMAIN vs.versions), DOMAIN vs.versions, n, d)
           /\ CostOf(vs, n) \in Int /\ MarkCost(vs, n) \in Int /\ vs.bytes \in Int
           /\ vs.bytes - CostOf(vs, n) + MarkCost(vs, n) = a + b + c + d + NameEntry(n)
<1> DEFINE A == SumFunctionOnSet(DataCosts(vs), DOMAIN vs.data)
           B == SumFunctionOnSet(SlotCosts(vs), DOMAIN vs.indexed)
           C == SumFunctionOnSet(Marks(vs.unknown), vs.unknown)
           D == SumFunctionOnSet(Marks(DOMAIN vs.versions), DOMAIN vs.versions)
           ca == IF n \in DOMAIN vs.data THEN DataCosts(vs)[n] ELSE 0
           cb == IF n \in DOMAIN vs.indexed THEN SlotCosts(vs)[n] ELSE 0
           cc == IF n \in vs.unknown THEN Marks(vs.unknown)[n] ELSE 0
           cd == IF n \in DOMAIN vs.versions THEN Marks(DOMAIN vs.versions)[n] ELSE 0
<1>1. A \in Int /\ B \in Int /\ C \in Int /\ D \in Int
      /\ ca \in Int /\ cb \in Int /\ cc \in Int /\ cd \in Int
  BY PartTypes, SumType
<1>2. vs.bytes = A + B + C + D
  BY CountedParts DEF IsVars
<1>3. CostOf(vs, n) = ca + cb + cc
  <2>1. ca = (IF n \in DOMAIN vs.data THEN EntryCost(n, vs.data[n]) ELSE 0)
    BY PartTypes
  <2>2. cb = (IF n \in DOMAIN vs.indexed THEN SlotCost(n, vs.indexed[n]) ELSE 0)
    BY PartTypes
  <2>3. cc = (IF n \in vs.unknown THEN NameEntry(n) ELSE 0)
    BY PartTypes
  <2> QED
    BY <2>1, <2>2, <2>3, Zenon DEF CostOf
<1>4. NameEntry(n) \in Int /\ MarkCost(vs, n) = NameEntry(n) - cd
  <2>1. cd = IF n \in DOMAIN vs.versions THEN NameEntry(n) ELSE 0
    BY PartTypes
  <2>2. NameEntry(n) \in Int
    BY CostTypes
  <2> HIDE DEF cd
  <2> QED
    BY <2>1, <2>2 DEF MarkCost
<1>5. Rest(DataCosts(vs), DOMAIN vs.data, n, A - ca)
  BY PartTypes, SumOther
<1>6. Rest(SlotCosts(vs), DOMAIN vs.indexed, n, B - cb)
  BY PartTypes, SumOther
<1>7. Rest(Marks(vs.unknown), vs.unknown, n, C - cc)
  BY PartTypes, SumOther
<1>8. Rest(Marks(DOMAIN vs.versions), DOMAIN vs.versions, n, D - cd)
  BY PartTypes, SumOther
<1> HIDE DEF A, B, C, D, ca, cb, cc, cd
<1>9. /\ CostOf(vs, n) \in Int /\ MarkCost(vs, n) \in Int /\ vs.bytes \in Int
      /\ vs.bytes - CostOf(vs, n) + MarkCost(vs, n)
           = (A - ca) + (B - cb) + (C - cc) + (D - cd) + NameEntry(n)
  BY <1>1, <1>2, <1>3, <1>4
<1>10. A - ca \in Int /\ B - cb \in Int /\ C - cc \in Int /\ D - cd \in Int
  BY <1>1
<1> QED
  BY <1>5, <1>6, <1>7, <1>8, <1>9, <1>10

\* What the slots of a value are kept as, if at all.
LEMMA SparseFacts ==
  ASSUME NEW v, IsValue(v), NEW slots, Sparse(v, slots) # Dense
  PROVE  /\ v.kind = "Indexed" /\ Len(v.list) \in Nat
         /\ Sparse(v, slots) = Normalize(slots, Len(v.list))
         /\ Sparse(v, slots) = Normalize(Sparse(v, slots), Len(v.list))
         /\ \A n \in Name : SlotCost(n, Sparse(v, slots)) \in Nat
<1>1. v.kind = "Indexed" /\ Sparse(v, slots) = Normalize(slots, Len(v.list))
  BY DEF Sparse
<1>2. Len(v.list) \in Nat
  BY SeqDomain DEF IsValue
<1>3. Sparse(v, slots) = Normalize(Sparse(v, slots), Len(v.list))
  BY <1>1, NormalizeOnce
<1>4. \A n \in Name : SlotCost(n, Sparse(v, slots)) \in Nat
  BY <1>1, <1>2, CostTypes
<1> QED
  BY <1>1, <1>2, <1>3, <1>4

\* A write of a value keeps the form of the variables, and their bytes exact.
LEMMA PutVars ==
  ASSUME NEW vs, IsVars(vs), Owners(vs) \subseteq Name,
         NEW n \in Name, NEW v, IsValue(v), NEW unknown \in BOOLEAN, NEW slots,
         NEW p, p = Put(vs, n, v, unknown, slots)
  PROVE  IsVars(p) /\ Owners(p) \subseteq Name
<1> DEFINE sp == Sparse(v, slots)
<1>1. /\ p.data = With(vs.data, n, v)
      /\ p.unknown = IF unknown THEN vs.unknown \cup {n} ELSE vs.unknown \ {n}
      /\ p.indexed = IF sp = Dense THEN Without(vs.indexed, n) ELSE With(vs.indexed, n, sp)
      /\ p.versions = With(vs.versions, n, vs.revision + 1)
      /\ p.revision = vs.revision + 1
      /\ p.bytes = vs.bytes - CostOf(vs, n) + EntryCost(n, v) + MarkCost(vs, n)
                  + (IF sp = Dense THEN 0 ELSE SlotCost(n, sp))
                  + (IF unknown THEN NameEntry(n) ELSE 0)
  BY DEF Put, Sparse
<1>2. Owners(p) \subseteq Name
  <2>1. Sets(p, vs, n, NewEntry(v, unknown, slots))
    BY PutSets
  <2> QED
    BY <2>1 DEF Sets
<1>3. HasValues(p)
  BY <1>1 DEF IsVars, HasValues, With, Without, Restrict
<1>4. IsFiniteSet(DOMAIN p.data) /\ IsFiniteSet(DOMAIN p.versions)
  BY <1>1, PartTypes, FS_AddElement DEF With, Without, Restrict
<1>5. p.unknown \subseteq DOMAIN p.data /\ DOMAIN p.indexed \subseteq DOMAIN p.data
  <2>1. vs.unknown \subseteq DOMAIN vs.data /\ DOMAIN vs.indexed \subseteq DOMAIN vs.data
    BY DEF IsVars
  <2> QED
    BY <1>1, <2>1 DEF With, Without, Restrict
<1>6. \A m \in DOMAIN p.indexed :
        /\ p.data[m].kind = "Indexed" /\ p.indexed[m] # Dense
        /\ p.indexed[m] = Normalize(p.indexed[m], Len(p.data[m].list))
  <2> TAKE m \in DOMAIN p.indexed
  <2>1. CASE m = n
    <3>1. sp # Dense /\ p.indexed[m] = sp /\ p.data[m] = v
      BY <1>1, <2>1 DEF With, Without, Restrict
    <3> HIDE DEF sp
    <3> QED
      BY <3>1, SparseFacts DEF sp
  <2>2. CASE m # n
    <3>1. m \in DOMAIN vs.indexed /\ p.indexed[m] = vs.indexed[m]
      BY <1>1, <2>2 DEF With, Without, Restrict
    <3>2. m \in DOMAIN vs.data /\ p.data[m] = vs.data[m]
      BY <1>1, <2>2, <3>1 DEF IsVars, With, Without, Restrict
    <3> QED
      BY <3>1, <3>2 DEF IsVars
  <2> QED
    BY <2>1, <2>2
<1>7. p.revision \in Nat /\ \A m \in DOMAIN p.versions : p.versions[m] \in 1 .. p.revision
  <2>1. vs.revision \in Nat /\ \A m \in DOMAIN vs.versions : vs.versions[m] \in 1 .. vs.revision
    BY DEF IsVars
  <2>2. \A m \in DOMAIN p.versions : \/ p.versions[m] = vs.revision + 1
                                     \/ m \in DOMAIN vs.versions /\ p.versions[m] = vs.versions[m]
    BY <1>1 DEF With, Without, Restrict
  <2> QED
    BY <1>1, <2>1, <2>2
<1>8. p.bytes = CountedBytes(p)
  <2>1. PICK a \in Int, b \in Int, c \in Int, d \in Int :
          /\ Rest(DataCosts(vs), DOMAIN vs.data, n, a)
          /\ Rest(SlotCosts(vs), DOMAIN vs.indexed, n, b)
          /\ Rest(Marks(vs.unknown), vs.unknown, n, c)
          /\ Rest(Marks(DOMAIN vs.versions), DOMAIN vs.versions, n, d)
          /\ CostOf(vs, n) \in Int /\ MarkCost(vs, n) \in Int /\ vs.bytes \in Int
          /\ vs.bytes - CostOf(vs, n) + MarkCost(vs, n) = a + b + c + d + NameEntry(n)
    BY BytesWithout
  <2>2. EntryCost(n, v) \in Int /\ NameEntry(n) \in Int
    BY CostTypes
  <2>3. SumFunctionOnSet(DataCosts(p), DOMAIN p.data) = a + EntryCost(n, v)
    <3>1. DOMAIN p.data = DOMAIN vs.data \cup {n} /\ DataCosts(p)[n] = EntryCost(n, v)
          /\ \A x \in DOMAIN vs.data \ {n} : DataCosts(p)[x] = DataCosts(vs)[x]
      BY <1>1 DEF DataCosts, With, Without, Restrict
    <3> QED
      BY <2>1, <2>2, <3>1 DEF Rest
  <2>4. SumFunctionOnSet(SlotCosts(p), DOMAIN p.indexed)
          = b + (IF sp = Dense THEN 0 ELSE SlotCost(n, sp))
        /\ (IF sp = Dense THEN 0 ELSE SlotCost(n, sp)) \in Int
    <3>1. CASE sp = Dense
      <4>1. DOMAIN p.indexed = DOMAIN vs.indexed \ {n}
            /\ \A x \in DOMAIN vs.indexed \ {n} : SlotCosts(p)[x] = SlotCosts(vs)[x]
        BY <1>1, <3>1 DEF SlotCosts, With, Without, Restrict
      <4>2. SumFunctionOnSet(SlotCosts(p), DOMAIN p.indexed) = b
        BY <2>1, <4>1 DEF Rest
      <4> QED
        BY <3>1, <4>2
    <3>2. CASE sp # Dense
      <4>1. DOMAIN p.indexed = DOMAIN vs.indexed \cup {n} /\ SlotCosts(p)[n] = SlotCost(n, sp)
            /\ \A x \in DOMAIN vs.indexed \ {n} : SlotCosts(p)[x] = SlotCosts(vs)[x]
        BY <1>1, <3>2 DEF SlotCosts, With, Without, Restrict
      <4>2. SlotCost(n, sp) \in Int
        BY <3>2, SparseFacts
      <4>3. SumFunctionOnSet(SlotCosts(p), DOMAIN p.indexed) = b + SlotCost(n, sp)
        BY <2>1, <4>1, <4>2 DEF Rest
      <4> QED
        BY <3>2, <4>2, <4>3
    <3> QED
      BY <3>1, <3>2
  <2>5. SumFunctionOnSet(Marks(p.unknown), p.unknown)
          = c + (IF unknown THEN NameEntry(n) ELSE 0)
    <3>1. CASE unknown
      <4>1. p.unknown = vs.unknown \cup {n} /\ Marks(p.unknown)[n] = NameEntry(n)
            /\ \A x \in vs.unknown \ {n} : Marks(p.unknown)[x] = Marks(vs.unknown)[x]
        BY <1>1, <3>1 DEF Marks
      <4>2. SumFunctionOnSet(Marks(p.unknown), vs.unknown \cup {n}) = c + Marks(p.unknown)[n]
        BY <2>1, <2>2, <4>1 DEF Rest
      <4> QED
        BY <3>1, <4>1, <4>2
    <3>2. CASE ~unknown
      <4>1. p.unknown = vs.unknown \ {n}
            /\ \A x \in vs.unknown \ {n} : Marks(p.unknown)[x] = Marks(vs.unknown)[x]
        BY <1>1, <3>2 DEF Marks
      <4>2. SumFunctionOnSet(Marks(p.unknown), vs.unknown \ {n}) = c
        BY <2>1, <4>1 DEF Rest
      <4> QED
        BY <3>2, <4>1, <4>2, <2>1
    <3> QED
      BY <3>1, <3>2
  <2>6. SumFunctionOnSet(Marks(DOMAIN p.versions), DOMAIN p.versions) = d + NameEntry(n)
    <3>1. DOMAIN p.versions = DOMAIN vs.versions \cup {n}
          /\ Marks(DOMAIN p.versions)[n] = NameEntry(n)
          /\ \A x \in DOMAIN vs.versions \ {n} :
               Marks(DOMAIN p.versions)[x] = Marks(DOMAIN vs.versions)[x]
      BY <1>1 DEF Marks, With, Without, Restrict
    <3> QED
      BY <2>1, <2>2, <3>1 DEF Rest
  <2>7. (IF unknown THEN NameEntry(n) ELSE 0) \in Int
    BY <2>2
  <2> HIDE DEF sp
  <2>8. CountedBytes(p) = (a + EntryCost(n, v)) + (b + (IF sp = Dense THEN 0 ELSE SlotCost(n, sp)))
                        + (c + (IF unknown THEN NameEntry(n) ELSE 0)) + (d + NameEntry(n))
    BY <2>3, <2>4, <2>5, <2>6, CountedParts
  <2> DEFINE x == IF sp = Dense THEN 0 ELSE SlotCost(n, sp)
             y == IF unknown THEN NameEntry(n) ELSE 0
  <2>9. x \in Int /\ y \in Int
    BY <2>4, <2>7
  <2>10. /\ p.bytes = vs.bytes - CostOf(vs, n) + EntryCost(n, v) + MarkCost(vs, n) + x + y
         /\ CountedBytes(p) = (a + EntryCost(n, v)) + (b + x) + (c + y) + (d + NameEntry(n))
    BY <1>1, <2>8
  <2> HIDE DEF x, y
  <2> QED
    BY <2>1, <2>2, <2>9, <2>10
<1> HIDE DEF sp
<1> QED
  BY <1>2, <1>3, <1>4, <1>5, <1>6, <1>7, <1>8 DEF IsVars

\* So does an unset.
LEMMA DeleteVars ==
  ASSUME NEW vs, IsVars(vs), Owners(vs) \subseteq Name,
         NEW n \in Name, NEW p, p = Delete(vs, n)
  PROVE  IsVars(p) /\ Owners(p) \subseteq Name
<1>1. /\ p.data = Without(vs.data, n) /\ p.unknown = vs.unknown \ {n}
      /\ p.indexed = Without(vs.indexed, n)
      /\ p.versions = With(vs.versions, n, vs.revision + 1)
      /\ p.revision = vs.revision + 1
      /\ p.bytes = vs.bytes - CostOf(vs, n) + MarkCost(vs, n)
  BY DEF Delete
<1>2. Owners(p) \subseteq Name
  <2>1. Sets(p, vs, n, NoEntry)
    BY DeleteSets
  <2> QED
    BY <2>1 DEF Sets
<1>3. HasValues(p)
  BY <1>1 DEF IsVars, HasValues, With, Without, Restrict
<1>4. IsFiniteSet(DOMAIN p.data) /\ IsFiniteSet(DOMAIN p.versions)
  BY <1>1, PartTypes, FS_AddElement, FS_RemoveElement DEF With, Without, Restrict
<1>5. p.unknown \subseteq DOMAIN p.data /\ DOMAIN p.indexed \subseteq DOMAIN p.data
  <2>1. vs.unknown \subseteq DOMAIN vs.data /\ DOMAIN vs.indexed \subseteq DOMAIN vs.data
    BY DEF IsVars
  <2> QED
    BY <1>1, <2>1 DEF With, Without, Restrict
<1>6. \A m \in DOMAIN p.indexed :
        /\ p.data[m].kind = "Indexed" /\ p.indexed[m] # Dense
        /\ p.indexed[m] = Normalize(p.indexed[m], Len(p.data[m].list))
  <2> TAKE m \in DOMAIN p.indexed
  <2>1. m # n /\ m \in DOMAIN vs.indexed /\ p.indexed[m] = vs.indexed[m]
    BY <1>1 DEF With, Without, Restrict
  <2>2. m \in DOMAIN vs.data /\ p.data[m] = vs.data[m]
    BY <1>1, <2>1 DEF IsVars, With, Without, Restrict
  <2> QED
    BY <2>1, <2>2 DEF IsVars
<1>7. p.revision \in Nat /\ \A m \in DOMAIN p.versions : p.versions[m] \in 1 .. p.revision
  <2>1. vs.revision \in Nat /\ \A m \in DOMAIN vs.versions : vs.versions[m] \in 1 .. vs.revision
    BY DEF IsVars
  <2>2. \A m \in DOMAIN p.versions : \/ p.versions[m] = vs.revision + 1
                                     \/ m \in DOMAIN vs.versions /\ p.versions[m] = vs.versions[m]
    BY <1>1 DEF With, Without, Restrict
  <2> QED
    BY <1>1, <2>1, <2>2
<1>8. p.bytes = CountedBytes(p)
  <2>1. PICK a \in Int, b \in Int, c \in Int, d \in Int :
          /\ Rest(DataCosts(vs), DOMAIN vs.data, n, a)
          /\ Rest(SlotCosts(vs), DOMAIN vs.indexed, n, b)
          /\ Rest(Marks(vs.unknown), vs.unknown, n, c)
          /\ Rest(Marks(DOMAIN vs.versions), DOMAIN vs.versions, n, d)
          /\ CostOf(vs, n) \in Int /\ MarkCost(vs, n) \in Int /\ vs.bytes \in Int
          /\ vs.bytes - CostOf(vs, n) + MarkCost(vs, n) = a + b + c + d + NameEntry(n)
    BY BytesWithout
  <2>2. NameEntry(n) \in Int
    BY CostTypes
  <2>3. SumFunctionOnSet(DataCosts(p), DOMAIN p.data) = a
    <3>1. DOMAIN p.data = DOMAIN vs.data \ {n}
          /\ \A x \in DOMAIN vs.data \ {n} : DataCosts(p)[x] = DataCosts(vs)[x]
      BY <1>1 DEF DataCosts, With, Without, Restrict
    <3> QED
      BY <2>1, <3>1 DEF Rest
  <2>4. SumFunctionOnSet(SlotCosts(p), DOMAIN p.indexed) = b
    <3>1. DOMAIN p.indexed = DOMAIN vs.indexed \ {n}
          /\ \A x \in DOMAIN vs.indexed \ {n} : SlotCosts(p)[x] = SlotCosts(vs)[x]
      BY <1>1 DEF SlotCosts, With, Without, Restrict
    <3> QED
      BY <2>1, <3>1 DEF Rest
  <2>5. SumFunctionOnSet(Marks(p.unknown), p.unknown) = c
    <3>1. p.unknown = vs.unknown \ {n}
          /\ \A x \in vs.unknown \ {n} : Marks(p.unknown)[x] = Marks(vs.unknown)[x]
      BY <1>1 DEF Marks
    <3> QED
      BY <2>1, <3>1 DEF Rest
  <2>6. SumFunctionOnSet(Marks(DOMAIN p.versions), DOMAIN p.versions) = d + NameEntry(n)
    <3>1. DOMAIN p.versions = DOMAIN vs.versions \cup {n}
          /\ Marks(DOMAIN p.versions)[n] = NameEntry(n)
          /\ \A x \in DOMAIN vs.versions \ {n} :
               Marks(DOMAIN p.versions)[x] = Marks(DOMAIN vs.versions)[x]
      BY <1>1 DEF Marks, With, Without, Restrict
    <3> QED
      BY <2>1, <2>2, <3>1 DEF Rest
  <2>7. CountedBytes(p) = a + b + c + (d + NameEntry(n))
    BY <2>3, <2>4, <2>5, <2>6, CountedParts
  <2> QED
    BY <1>1, <2>1, <2>2, <2>7
<1> QED
  BY <1>2, <1>3, <1>4, <1>5, <1>6, <1>7, <1>8 DEF IsVars

-------------------------------------------------------------------------------
(* What is saved of a name, and put back. *)

\* Zero is a value.
LEMMA ZeroIs == IsValue(Zero)
<1>1. /\ Zero.str = <<>> /\ Zero.list = <<>> /\ DOMAIN Zero.list = {}
      /\ DOMAIN Zero.map = {}
  BY DEF Zero
<1>2. IsFiniteSet({})
  BY FS_EmptySet
<1>3. IsSeq(<<>>)
  BY ShortSeqs
<1> QED
  BY <1>1, <1>2, <1>3 DEF IsValue

\* Of variables of their form, what is saved of a name is an entry.
LEMMA EntryIs ==
  ASSUME NEW vs, IsVars(vs), NEW n
  PROVE  IsEntry(Entry(vs, n)) /\ IsValue(Lookup(vs, n))
<1> DEFINE e == Entry(vs, n)
<1>1. /\ e = [v |-> e.v, exists |-> e.exists, unknown |-> e.unknown, slots |-> e.slots]
      /\ e.v = Lookup(vs, n) /\ e.slots = Slots(vs, n)
      /\ e.exists \in BOOLEAN /\ (e.exists <=> n \in DOMAIN vs.data)
      /\ e.unknown \in BOOLEAN /\ (e.unknown <=> n \in vs.unknown)
  <2>1. /\ e = [v |-> e.v, exists |-> e.exists, unknown |-> e.unknown, slots |-> e.slots]
        /\ e.v = Lookup(vs, n) /\ e.slots = Slots(vs, n)
    BY DEF Entry
  <2>2. e.exists <=> n \in DOMAIN vs.data
    BY DEF Entry
  <2>3. e.unknown <=> n \in vs.unknown
    BY DEF Entry, Unknown
  <2>4. e.exists \in BOOLEAN
    BY DEF Entry
  <2>5. e.unknown \in BOOLEAN
    BY DEF Entry, Unknown
  <2> HIDE DEF e
  <2> QED
    BY <2>1, <2>2, <2>3, <2>4, <2>5
<1> HIDE DEF e
<1>2. CASE n \in DOMAIN vs.data
  <2>1. IsValue(Lookup(vs, n))
    BY <1>2 DEF IsVars, HasValues, Lookup, At
  <2>2. Slots(vs, n) = IF Lookup(vs, n).kind = "Indexed"
                       THEN Normalize(Slots(vs, n), Len(Lookup(vs, n).list)) ELSE Dense
    <3>1. CASE n \in DOMAIN vs.indexed
      BY <1>2, <3>1 DEF IsVars, Slots, Lookup, At
    <3>2. CASE n \notin DOMAIN vs.indexed
      BY <3>2 DEF Slots, At, Normalize
    <3> QED
      BY <3>1, <3>2
  <2>3. e.exists = TRUE /\ e.unknown \in BOOLEAN
    BY <1>1, <1>2
  <2>4. IsEntry(e)
    BY <1>1, <2>1, <2>2, <2>3 DEF IsEntry
  <2> QED
    BY <2>1, <2>4 DEF e
<1>3. CASE n \notin DOMAIN vs.data
  <2>1. n \notin vs.unknown /\ n \notin DOMAIN vs.indexed
    BY <1>3 DEF IsVars
  <2>2. Lookup(vs, n) = Zero /\ Slots(vs, n) = Dense
    BY <1>3, <2>1 DEF Lookup, Slots, At
  <2>3. e.exists = FALSE /\ e.unknown = FALSE
    BY <1>1, <1>3, <2>1
  <2>4. IsEntry(e)
    BY <1>1, <2>2, <2>3, ZeroIs DEF IsEntry
  <2> QED
    BY <2>2, <2>4, ZeroIs DEF e
<1> QED
  BY <1>2, <1>3

\* What is put back is what is then found.
LEMMA PutBackSets ==
  ASSUME NEW vs, NEW n, NEW e, IsEntry(e)
  PROVE  Sets(PutBack(vs, n, e), vs, n, e)
<1>1. /\ e = [v |-> e.v, exists |-> e.exists, unknown |-> e.unknown, slots |-> e.slots]
      /\ e.exists \in BOOLEAN /\ e.unknown \in BOOLEAN
  BY DEF IsEntry
<1>2. CASE e.exists
  <2>1. PutBack(vs, n, e) = Put(vs, n, e.v, e.unknown, e.slots) /\ e.exists = TRUE
    BY <1>1, <1>2 DEF PutBack
  <2>2. Sparse(e.v, e.slots) = e.slots
    BY <1>2 DEF IsEntry, Sparse
  <2>3. NewEntry(e.v, e.unknown, e.slots) = e
    BY <1>1, <2>1, <2>2 DEF NewEntry
  <2> QED
    BY <1>1, <2>1, <2>3, PutSets
<1>3. CASE ~e.exists
  <2>1. PutBack(vs, n, e) = Delete(vs, n) /\ e.exists = FALSE
    BY <1>1, <1>3 DEF PutBack
  <2>2. e.v = Zero /\ e.unknown = FALSE /\ e.slots = Dense
    BY <1>1, <1>3 DEF IsEntry
  <2>3. NoEntry = e
    BY <1>1, <2>1, <2>2 DEF NoEntry
  <2> QED
    BY <2>1, <2>3, DeleteSets
<1> QED
  BY <1>2, <1>3

\* Putting back keeps the form of the variables, and their bytes exact.
LEMMA PutBackVars ==
  ASSUME NEW vs, IsVars(vs), Owners(vs) \subseteq Name, NEW n \in Name, NEW e, IsEntry(e)
  PROVE  IsVars(PutBack(vs, n, e)) /\ Owners(PutBack(vs, n, e)) \subseteq Name
<1>1. IsValue(e.v) /\ e.exists \in BOOLEAN /\ e.unknown \in BOOLEAN
  BY DEF IsEntry
<1>2. CASE e.exists
  <2>1. PutBack(vs, n, e) = Put(vs, n, e.v, e.unknown, e.slots)
    BY <1>2 DEF PutBack
  <2> QED
    BY <1>1, <2>1, PutVars
<1>3. CASE ~e.exists
  <2>1. PutBack(vs, n, e) = Delete(vs, n)
    BY <1>3 DEF PutBack
  <2> QED
    BY <2>1, DeleteVars
<1> QED
  BY <1>2, <1>3

\* Undoing a write puts the version back as well, and takes back what the
\* first write of the name added to the bytes.
Reverts(p, vs, n, e, version) ==
  /\ IsVars(p) /\ Owners(p) \subseteq Name
  /\ Entry(p, n) = e /\ Lookup(p, n) = e.v /\ Slots(p, n) = e.slots
  /\ Unknown(p, n) = e.unknown
  /\ Version(p, n) = version /\ p.revision = vs.revision + 1
  /\ DOMAIN p.data = IF e.exists THEN DOMAIN vs.data \cup {n} ELSE DOMAIN vs.data \ {n}
  /\ \A m : m # n => /\ Lookup(p, m) = Lookup(vs, m) /\ Slots(p, m) = Slots(vs, m)
                     /\ Unknown(p, m) = Unknown(vs, m)
                     /\ Entry(p, m) = Entry(vs, m) /\ Version(p, m) = Version(vs, m)
\* The variables, when a write is undone.
LEMMA WithVersionFacts ==
  ASSUME NEW vs, IsVars(vs), Owners(vs) \subseteq Name, NEW n \in Name, NEW e, IsEntry(e),
         NEW version \in 0 .. vs.revision
  PROVE  Reverts(WithVersion(PutBack(vs, n, e), n, version), vs, n, e, version)
<1> SUFFICES ASSUME NEW p, p = WithVersion(PutBack(vs, n, e), n, version)
             PROVE  Reverts(p, vs, n, e, version)
  OBVIOUS
<1> DEFINE q == PutBack(vs, n, e)
<1>1. Sets(q, vs, n, e) /\ IsVars(q) /\ Owners(q) \subseteq Name
  BY PutBackSets, PutBackVars
<1>2. /\ q.versions = With(vs.versions, n, vs.revision + 1)
      /\ DOMAIN q = {"data", "unknown", "indexed", "versions", "revision", "bytes"}
  BY DEF PutBack, Put, Delete
<1>3. DOMAIN q.versions = DOMAIN vs.versions \cup {n} /\ vs.revision \in Nat
  BY <1>2 DEF With, IsVars
<1> HIDE DEF q
<1>4. /\ p.data = q.data /\ p.unknown = q.unknown /\ p.indexed = q.indexed
      /\ p.revision = q.revision
      /\ p.versions = IF version # 0 THEN [q.versions EXCEPT ![n] = version]
                                     ELSE Without(q.versions, n)
      /\ p.bytes = IF version # 0 THEN q.bytes ELSE q.bytes - NameEntry(n)
  <2>1. p = WithVersion(q, n, version)
    BY DEF q
  <2>2. CASE version # 0
    BY <1>2, <2>1, <2>2 DEF WithVersion
  <2>3. CASE version = 0
    BY <1>2, <2>1, <2>3 DEF WithVersion
  <2> QED
    BY <2>2, <2>3
<1>5. \A m : /\ Lookup(p, m) = Lookup(q, m) /\ Slots(p, m) = Slots(q, m)
             /\ Unknown(p, m) = Unknown(q, m) /\ Entry(p, m) = Entry(q, m)
  BY <1>4 DEF Lookup, Slots, Unknown, Entry
<1>6. Version(p, n) = version /\ \A m : m # n => Version(p, m) = Version(q, m)
  BY <1>3, <1>4 DEF Version, At, Without, Restrict
<1>7. DOMAIN p.versions \subseteq DOMAIN q.versions /\ Owners(p) \subseteq Name
  BY <1>1, <1>4 DEF Owners, Without, Restrict
<1>8. IsVars(p)
  <2>1. /\ HasValues(p) /\ IsFiniteSet(DOMAIN p.data)
        /\ p.unknown \subseteq DOMAIN p.data /\ DOMAIN p.indexed \subseteq DOMAIN p.data
        /\ \A m \in DOMAIN p.indexed :
             /\ p.data[m].kind = "Indexed" /\ p.indexed[m] # Dense
             /\ p.indexed[m] = Normalize(p.indexed[m], Len(p.data[m].list))
    BY <1>1, <1>4 DEF IsVars, HasValues
  <2>2. IsFiniteSet(DOMAIN p.versions) /\ p.revision \in Nat
    BY <1>1, <1>4, <1>7, FS_Subset DEF IsVars
  <2>3. \A m \in DOMAIN p.versions : p.versions[m] \in 1 .. p.revision
    <3>1. \A m \in DOMAIN q.versions : q.versions[m] \in 1 .. q.revision
      BY <1>1 DEF IsVars
    <3>2. q.revision = vs.revision + 1
      BY <1>1 DEF Sets
    <3>3. \A m \in DOMAIN p.versions : m # n => p.versions[m] = q.versions[m]
      BY <1>4 DEF Without, Restrict
    <3>4. n \in DOMAIN p.versions => p.versions[n] = version /\ version # 0
      BY <1>3, <1>4 DEF Without, Restrict
    <3> QED
      BY <1>3, <1>4, <1>7, <3>1, <3>2, <3>3, <3>4
  <2>4. p.bytes = CountedBytes(p)
    <3> DEFINE A == SumFunctionOnSet(DataCosts(q), DOMAIN q.data)
               B == SumFunctionOnSet(SlotCosts(q), DOMAIN q.indexed)
               C == SumFunctionOnSet(Marks(q.unknown), q.unknown)
               D == SumFunctionOnSet(Marks(DOMAIN q.versions), DOMAIN q.versions)
               E == SumFunctionOnSet(Marks(DOMAIN p.versions), DOMAIN p.versions)
    <3>1. q.bytes = A + B + C + D
      BY <1>1, CountedParts DEF IsVars
    <3>2. CountedBytes(p) = A + B + C + E
      BY <1>4, CountedParts DEF DataCosts, SlotCosts
    <3>3. A \in Int /\ B \in Int /\ C \in Int /\ D \in Int /\ NameEntry(n) \in Int
      BY <1>1, PartTypes, SumType, CostTypes
    <3>4. CASE version # 0
      <4>1. DOMAIN p.versions = DOMAIN q.versions
        BY <1>4, <3>4
      <4> HIDE DEF A, B, C
      <4> QED
        BY <1>4, <3>1, <3>2, <3>4, <4>1
    <3>5. CASE version = 0
      <4>1. DOMAIN p.versions = DOMAIN q.versions \ {n}
        BY <1>4, <3>5 DEF Without, Restrict
      <4>2. /\ IsFiniteSet(DOMAIN q.versions) /\ n \in DOMAIN q.versions
            /\ \A x \in DOMAIN q.versions : Marks(DOMAIN q.versions)[x] \in Int
            /\ Marks(DOMAIN q.versions)[n] = NameEntry(n)
        BY <1>1, <1>3, PartTypes
      <4>3. \A x \in DOMAIN q.versions \ {n} :
              Marks(DOMAIN p.versions)[x] = Marks(DOMAIN q.versions)[x]
        BY <4>1 DEF Marks
      <4>4. E = D - NameEntry(n)
        <5>1. Rest(Marks(DOMAIN q.versions), DOMAIN q.versions, n,
                   D - (IF n \in DOMAIN q.versions THEN Marks(DOMAIN q.versions)[n] ELSE 0))
          BY <4>2, SumOther
        <5>2. E = D - (IF n \in DOMAIN q.versions THEN Marks(DOMAIN q.versions)[n] ELSE 0)
          BY <4>1, <4>3, <5>1 DEF Rest
        <5> QED
          BY <4>2, <5>2
      <4> HIDE DEF A, B, C, D, E
      <4> QED
        BY <1>4, <3>1, <3>2, <3>3, <3>5, <4>4
    <3> QED
      BY <3>4, <3>5
  <2> QED
    BY <2>1, <2>2, <2>3, <2>4 DEF IsVars
<1>9. /\ IsVars(p) /\ Owners(p) \subseteq Name
      /\ Entry(p, n) = e /\ Lookup(p, n) = e.v /\ Slots(p, n) = e.slots
      /\ Unknown(p, n) = e.unknown
      /\ Version(p, n) = version /\ p.revision = vs.revision + 1
      /\ DOMAIN p.data = IF e.exists THEN DOMAIN vs.data \cup {n} ELSE DOMAIN vs.data \ {n}
      /\ \A m : m # n => /\ Lookup(p, m) = Lookup(vs, m) /\ Slots(p, m) = Slots(vs, m)
                         /\ Unknown(p, m) = Unknown(vs, m)
                         /\ Entry(p, m) = Entry(vs, m) /\ Version(p, m) = Version(vs, m)
  BY <1>1, <1>4, <1>5, <1>6, <1>7, <1>8 DEF Sets
<1> QED
  BY ONLY <1>9 DEF Reverts

-------------------------------------------------------------------------------
(* The values of assignments, in the variables and in their ghost. *)

\* Two results that agree, unless the first is not known.
AgreeingResults(r, q) ==
  /\ q.error = r.error /\ IsValue(r.v) /\ IsValue(q.v) /\ Shape(q.v) = Shape(r.v)
  /\ r.unknown \in BOOLEAN /\ q.unknown \in BOOLEAN
  /\ ~r.unknown => q.v = r.v /\ q.slots = r.slots
\* Variables and a ghost of theirs.
Ghosted(vs, t) == /\ IsVars(vs) /\ Owners(vs) \subseteq Name
                  /\ HasValues(t) /\ Agrees(vs, t)
IsTexts(list) == IsSeq(list) /\ \A i \in DOMAIN list : IsSeq(list[i])

\* A value is what its fields are.
LEMMA ValueIs ==
  ASSUME NEW v
  PROVE  IsValue(v) <=>
           /\ DOMAIN v = {"kind", "str", "list", "map", "set", "exported", "readonly"}
           /\ IsSeq(v.str) /\ IsTexts(v.list)
           /\ IsFiniteSet(DOMAIN v.map) /\ \A k \in DOMAIN v.map : IsSeq(v.map[k])
<1>1. DOMAIN Zero = {"kind", "str", "list", "map", "set", "exported", "readonly"}
  BY DEF Zero
<1> QED
  BY <1>1 DEF IsValue, IsTexts

\* What is looked up is a value.
LEMMA LookupIs ==
  ASSUME NEW vs, HasValues(vs), NEW n
  PROVE  IsValue(Lookup(vs, n))
  BY ZeroIs DEF HasValues, Lookup, At

\* Names that are set to agreeing entries leave agreeing variables.
LEMMA SetsAgree ==
  ASSUME NEW vs, NEW t, Agrees(vs, t), NEW n \in Name, NEW e, NEW d, AgreeingEntries(e, d),
         NEW p, Sets(p, vs, n, e), NEW q, Sets(q, t, n, d)
  PROVE  Agrees(p, q)
<1>1. DOMAIN q.data = DOMAIN p.data
  BY DEF Agrees, Sets, AgreeingEntries
<1>2. ASSUME NEW m \in Name
      PROVE  /\ Shape(Lookup(q, m)) = Shape(Lookup(p, m))
             /\ ~Unknown(p, m) => Lookup(q, m) = Lookup(p, m) /\ Slots(q, m) = Slots(p, m)
  <2>1. CASE m = n
    BY <2>1 DEF Sets, AgreeingEntries
  <2>2. CASE m # n
    BY <2>2 DEF Sets, Agrees
  <2> QED
    BY <2>1, <2>2
<1> QED
  BY <1>1, <1>2 DEF Agrees

\* A ghost whose name is set to a value has values.
LEMMA SetsValues ==
  ASSUME NEW t, HasValues(t), NEW n, NEW d, IsValue(d.v), NEW q, Sets(q, t, n, d)
  PROVE  HasValues(q)
<1>1. ASSUME NEW m \in DOMAIN q.data
      PROVE  IsValue(q.data[m])
  <2>1. q.data[m] = Lookup(q, m)
    BY DEF Lookup, At
  <2>2. Lookup(q, m) = d.v \/ Lookup(q, m) = Lookup(t, m)
    BY DEF Sets
  <2> QED
    BY <2>1, <2>2, LookupIs
<1> QED
  BY <1>1 DEF HasValues

\* What is saved of a name in the variables and in their ghost agrees.
LEMMA EntriesAgree ==
  ASSUME NEW vs, NEW t, HasValues(t), Agrees(vs, t), NEW n \in Name
  PROVE  AgreeingEntries(Entry(vs, n), Entry(t, n))
<1>1. (Entry(t, n)).exists = (Entry(vs, n)).exists
  BY DEF Entry, Agrees
<1>2. IsValue((Entry(t, n)).v)
  BY LookupIs DEF Entry
<1>3. Shape((Entry(t, n)).v) = Shape((Entry(vs, n)).v)
  BY DEF Entry, Agrees
<1>4. ~(Entry(vs, n)).unknown =>
        (Entry(t, n)).v = (Entry(vs, n)).v /\ (Entry(t, n)).slots = (Entry(vs, n)).slots
  BY DEF Entry, Agrees
<1>5. (Entry(t, n)).unknown \in BOOLEAN
  BY DEF Entry, Unknown
<1> QED
  BY <1>1, <1>2, <1>3, <1>4, <1>5 DEF AgreeingEntries

\* A write of agreeing values.
LEMMA PutGhosted ==
  ASSUME NEW vs, NEW t, Ghosted(vs, t), NEW n \in Name,
         NEW v, NEW w, IsValue(v), IsValue(w), Shape(w) = Shape(v),
         NEW unknown \in BOOLEAN, NEW unsure \in BOOLEAN, NEW slots, NEW others,
         ~unknown => w = v /\ others = slots
  PROVE  Ghosted(Put(vs, n, v, unknown, slots), Put(t, n, w, unsure, others))
<1> DEFINE p == Put(vs, n, v, unknown, slots)
           q == Put(t, n, w, unsure, others)
           e == NewEntry(v, unknown, slots)
           d == NewEntry(w, unsure, others)
<1>1. IsVars(p) /\ Owners(p) \subseteq Name
  BY PutVars DEF Ghosted
<1>2. Sets(p, vs, n, e) /\ Sets(q, t, n, d)
  BY PutSets
<1>3. /\ e.v = v /\ e.exists = TRUE /\ e.unknown = unknown /\ e.slots = Sparse(v, slots)
      /\ d.v = w /\ d.exists = TRUE /\ d.unknown = unsure /\ d.slots = Sparse(w, others)
  BY DEF NewEntry
<1> HIDE DEF p, q, e, d
<1>4. AgreeingEntries(e, d)
  BY <1>3 DEF AgreeingEntries
<1>5. Agrees(p, q) /\ HasValues(q)
  BY <1>2, <1>3, <1>4, SetsAgree, SetsValues DEF Ghosted
<1> QED
  BY <1>1, <1>5 DEF Ghosted, p, q

\* An unset.
LEMMA DeleteGhosted ==
  ASSUME NEW vs, NEW t, Ghosted(vs, t), NEW n \in Name
  PROVE  Ghosted(Delete(vs, n), Delete(t, n))
<1> DEFINE p == Delete(vs, n)
           q == Delete(t, n)
<1>1. IsVars(p) /\ Owners(p) \subseteq Name
  BY DeleteVars DEF Ghosted
<1>2. Sets(p, vs, n, NoEntry) /\ Sets(q, t, n, NoEntry)
  BY DeleteSets
<1>3. NoEntry.v = Zero /\ NoEntry.unknown \in BOOLEAN
  BY DEF NoEntry
<1> HIDE DEF p, q
<1>4. AgreeingEntries(NoEntry, NoEntry) /\ IsValue(NoEntry.v)
  BY <1>3, ZeroIs DEF AgreeingEntries
<1>5. Agrees(p, q) /\ HasValues(q)
  BY <1>2, <1>4, SetsAgree, SetsValues DEF Ghosted
<1> QED
  BY <1>1, <1>5 DEF Ghosted, p, q

\* What is put back of both.
LEMMA PutBackGhosted ==
  ASSUME NEW vs, NEW t, Ghosted(vs, t), NEW n \in Name,
         NEW e, IsEntry(e), NEW d, AgreeingEntries(e, d)
  PROVE  /\ Ghosted(PutBack(vs, n, e), PutBack(t, n, d))
         /\ \A p : /\ \A m : Lookup(p, m) = Lookup(PutBack(vs, n, e), m)
                             /\ Slots(p, m) = Slots(PutBack(vs, n, e), m)
                             /\ Unknown(p, m) = Unknown(PutBack(vs, n, e), m)
                   /\ DOMAIN p.data = DOMAIN (PutBack(vs, n, e)).data
                   => Agrees(p, PutBack(t, n, d))
<1> DEFINE p == PutBack(vs, n, e)
           q == PutBack(t, n, d)
<1>1. IsVars(p) /\ Owners(p) \subseteq Name /\ Sets(p, vs, n, e)
  BY PutBackVars, PutBackSets DEF Ghosted
<1>2. Agrees(p, q) /\ HasValues(q)
  <2>1. IsValue(d.v) /\ d.exists = e.exists /\ e.exists \in BOOLEAN /\ d.unknown \in BOOLEAN
    BY DEF AgreeingEntries, IsEntry
  <2>2. CASE e.exists
    <3> DEFINE f == NewEntry(d.v, d.unknown, d.slots)
    <3>1. Sets(q, t, n, f)
      BY <2>1, <2>2, PutSets DEF PutBack
    <3>2. f.v = d.v /\ f.exists = TRUE /\ f.unknown = d.unknown
          /\ f.slots = Sparse(d.v, d.slots)
      BY DEF NewEntry
    <3>3. e.slots = Sparse(e.v, e.slots) /\ e.exists = TRUE
      BY <2>1, <2>2 DEF IsEntry, Sparse
    <3> HIDE DEF p, q, f
    <3>4. AgreeingEntries(e, f)
      BY <2>1, <3>2, <3>3 DEF AgreeingEntries
    <3> QED
      BY <1>1, <2>1, <3>1, <3>2, <3>4, SetsAgree, SetsValues DEF Ghosted
  <2>3. CASE ~e.exists
    <3>1. Sets(q, t, n, NoEntry)
      BY <2>1, <2>3, DeleteSets DEF PutBack
    <3>2. /\ NoEntry.v = Zero /\ NoEntry.exists = FALSE /\ NoEntry.slots = Dense
          /\ e.v = Zero /\ e.slots = Dense /\ e.exists = FALSE /\ NoEntry.unknown \in BOOLEAN
      BY <2>1, <2>3 DEF NoEntry, IsEntry
    <3> HIDE DEF p, q
    <3>3. AgreeingEntries(e, NoEntry)
      BY <3>2, ZeroIs DEF AgreeingEntries
    <3> QED
      BY <1>1, <3>1, <3>2, <3>3, ZeroIs, SetsAgree, SetsValues DEF Ghosted
  <2> QED
    BY <2>1, <2>2, <2>3
<1> HIDE DEF p, q
<1>3. ASSUME NEW r, \A m : Lookup(r, m) = Lookup(p, m) /\ Slots(r, m) = Slots(p, m)
                           /\ Unknown(r, m) = Unknown(p, m),
             DOMAIN r.data = DOMAIN p.data
      PROVE  Agrees(r, q)
  BY <1>2, <1>3 DEF Agrees
<1>4. Ghosted(p, q)
  BY <1>1, <1>2 DEF Ghosted
<1> QED
  BY <1>3, <1>4 DEF p, q

\* A longer array, and one with another text at a place.
LEMMA ExtendIs ==
  ASSUME NEW list, IsTexts(list), NEW i \in Nat
  PROVE  /\ IsTexts(Extend(list, i)) /\ i + 1 \in DOMAIN Extend(list, i)
         /\ DOMAIN Extend(list, i) = 1 .. Len(Extend(list, i))
         /\ Len(Extend(list, i)) = IF i < Len(list) THEN Len(list) ELSE i + 1
         /\ \A text : IsSeq(text) =>
              /\ IsTexts([Extend(list, i) EXCEPT ![i + 1] = text])
              /\ Len([Extend(list, i) EXCEPT ![i + 1] = text]) = Len(Extend(list, i))
<1> DEFINE n == IF i < Len(list) THEN Len(list) ELSE i + 1
           l == Extend(list, i)
<1>1. Len(list) \in Nat /\ DOMAIN list = 1 .. Len(list)
  BY SeqDomain DEF IsTexts
<1>2. n \in Nat /\ i + 1 \in 1 .. n
  BY <1>1
<1>3. l = [k \in 1 .. n |-> IF k <= Len(list) THEN list[k] ELSE <<>>]
  BY DEF Extend
<1> HIDE DEF n, l
<1>4. l = [k \in 1 .. n |-> l[k]]
  BY <1>3
<1>5. IsSeq(l) /\ Len(l) = n /\ DOMAIN l = 1 .. n
  BY <1>2, <1>4, FunctionIsSeq
<1>6. \A k \in 1 .. n : IsSeq(l[k])
  <2> TAKE k \in 1 .. n
  <2>1. CASE k <= Len(list)
    <3>1. k \in DOMAIN list /\ l[k] = list[k]
      BY <1>1, <1>2, <1>3, <2>1
    <3> QED
      BY <3>1 DEF IsTexts
  <2>2. CASE ~(k <= Len(list))
    BY <1>3, <2>2, ShortSeqs
  <2> QED
    BY <2>1, <2>2
<1>7. ASSUME NEW text, IsSeq(text)
      PROVE  IsTexts([l EXCEPT ![i + 1] = text]) /\ Len([l EXCEPT ![i + 1] = text]) = Len(l)
  <2>1. i + 1 \in DOMAIN l
    BY <1>2, <1>5
  <2> DEFINE m == [l EXCEPT ![i + 1] = text]
  <2>2. /\ IsSeq(m) /\ Len(m) = Len(l)
        /\ m[i + 1] = text /\ \A k \in DOMAIN l : k # i + 1 => m[k] = l[k]
    BY <1>5, <2>1, ExceptIs
  <2>3. DOMAIN m = DOMAIN l
    OBVIOUS
  <2> HIDE DEF m
  <2>4. IsTexts(m)
    BY <1>5, <1>6, <1>7, <2>2, <2>3 DEF IsTexts
  <2> QED
    BY <2>2, <2>4 DEF m
<1>8. IsTexts(l) /\ i + 1 \in DOMAIN l /\ DOMAIN l = 1 .. Len(l)
  BY <1>2, <1>5, <1>6 DEF IsTexts
<1> QED
  BY <1>5, <1>7, <1>8 DEF n, l

\* One text or array after the other.
LEMMA TextsConcat ==
  ASSUME NEW s, NEW t
  PROVE  /\ IsSeq(s) /\ IsSeq(t) => \A append : IsSeq(Concat(s, t, append))
         /\ IsTexts(s) /\ IsTexts(t) => IsTexts(s \o t)
         /\ IsSeq(s) => IsTexts(<<s>>)
<1>1. IsSeq(s) /\ IsSeq(t) => \A append : IsSeq(Concat(s, t, append))
  BY ConcatIs DEF Concat
<1>2. ASSUME IsTexts(s), IsTexts(t)
      PROVE  IsTexts(s \o t)
  <2>1. /\ IsSeq(s \o t) /\ Len(s \o t) = Len(s) + Len(t)
        /\ \A i \in 1 .. Len(s) : (s \o t)[i] = s[i]
        /\ \A i \in 1 .. Len(t) : (s \o t)[Len(s) + i] = t[i]
    BY <1>2, ConcatIs DEF IsTexts
  <2>2. /\ Len(s) \in Nat /\ DOMAIN s = 1 .. Len(s)
        /\ Len(t) \in Nat /\ DOMAIN t = 1 .. Len(t)
        /\ DOMAIN (s \o t) = 1 .. Len(s \o t)
    BY <1>2, <2>1, SeqDomain DEF IsTexts
  <2>3. ASSUME NEW i \in DOMAIN (s \o t)
        PROVE  IsSeq((s \o t)[i])
    <3>1. CASE i <= Len(s)
      <4>1. i \in 1 .. Len(s)
        BY <2>1, <2>2, <3>1
      <4> QED
        BY <1>2, <2>1, <2>2, <4>1 DEF IsTexts
    <3>2. CASE ~(i <= Len(s))
      <4>1. i - Len(s) \in 1 .. Len(t) /\ Len(s) + (i - Len(s)) = i
        BY <2>1, <2>2, <3>2
      <4>2. (s \o t)[i] = t[i - Len(s)]
        BY <2>1, <4>1
      <4> QED
        BY <1>2, <2>2, <4>1, <4>2 DEF IsTexts
    <3> QED
      BY <3>1, <3>2
  <2> QED
    BY <2>1, <2>3 DEF IsTexts
<1>3. ASSUME IsSeq(s)
      PROVE  IsTexts(<<s>>)
  <2>1. IsSeq(<<s>>) /\ DOMAIN <<s>> = {1} /\ <<s>>[1] = s
    BY ShortSeqs
  <2> QED
    BY <1>3, <2>1 DEF IsTexts
<1> QED
  BY <1>1, <1>2, <1>3

\* The fields of values that are built from others.
LEMMA TextIs ==
  ASSUME NEW v, IsValue(v)
  PROVE  IsSeq(Text(v))
<1>1. CASE v.kind = "Indexed" /\ v.list # <<>> /\ v.kind # "String"
  <2>1. IsSeq(v.list) /\ \A i \in DOMAIN v.list : IsSeq(v.list[i])
    BY ValueIs DEF IsTexts
  <2>2. Head(v.list) = v.list[1] /\ Len(v.list) \in Nat \ {0} /\ DOMAIN v.list = 1 .. Len(v.list)
    BY <1>1, <2>1, HeadIs, SeqDomain
  <2> QED
    BY <1>1, <2>1, <2>2 DEF Text
<1>2. CASE v.kind = "String"
  BY <1>2, ValueIs DEF Text
<1>3. CASE v.kind # "String" /\ ~(v.kind = "Indexed" /\ v.list # <<>>)
  BY <1>3, ShortSeqs DEF Text
<1> QED
  BY <1>1, <1>2, <1>3

\* The text of a word, and whether it is known.
LEMMA WordIs ==
  ASSUME NEW vs, NEW t, Ghosted(vs, t), NEW w, IsWord(w)
  PROVE  /\ IsSeq(WordText(vs, w)) /\ IsSeq(WordText(t, w))
         /\ WordUnknown(vs, w) \in BOOLEAN /\ WordUnknown(t, w) \in BOOLEAN
         /\ ~WordUnknown(vs, w) => WordText(t, w) = WordText(vs, w)
<1>1. IsValue(Lookup(vs, w.from)) /\ IsValue(Lookup(t, w.from))
  BY LookupIs DEF Ghosted, IsVars
<1>2. IsSeq(WordText(vs, w)) /\ IsSeq(WordText(t, w))
  BY <1>1, TextIs DEF WordText, IsWord
<1>3. WordUnknown(vs, w) \in BOOLEAN /\ WordUnknown(t, w) \in BOOLEAN
  BY DEF WordUnknown
<1>4. ASSUME ~WordUnknown(vs, w)
      PROVE  WordText(t, w) = WordText(vs, w)
  <2>1. CASE w.from = ""
    BY <2>1 DEF WordText
  <2>2. CASE w.from # ""
    <3>1. w.from \in Name /\ ~Unknown(vs, w.from)
      BY <1>4, <2>2 DEF WordUnknown, IsWord
    <3>2. Lookup(t, w.from) = Lookup(vs, w.from)
      BY <3>1 DEF Ghosted, Agrees
    <3> QED
      BY <3>2 DEF WordText
  <2> QED
    BY <2>1, <2>2
<1> QED
  BY <1>2, <1>3, <1>4

\* A text as a value.
LEMMA ScalarIs ==
  ASSUME NEW text, IsSeq(text)
  PROVE  /\ IsValue(Scalar(text)) /\ (Scalar(text)).kind = "String"
         /\ Shape(Scalar(text)) = <<"String", TRUE, FALSE, FALSE>>
         /\ (Scalar(text)).str = text
<1>1. /\ DOMAIN Scalar(text) = {"kind", "str", "list", "map", "set", "exported", "readonly"}
      /\ (Scalar(text)).str = text /\ (Scalar(text)).list = Zero.list
      /\ (Scalar(text)).map = Zero.map /\ (Scalar(text)).kind = "String"
      /\ (Scalar(text)).set = TRUE /\ (Scalar(text)).exported = FALSE
      /\ (Scalar(text)).readonly = FALSE
  BY DEF Scalar, Zero
<1>2. IsTexts(Zero.list) /\ IsFiniteSet(DOMAIN Zero.map)
      /\ \A k \in DOMAIN Zero.map : IsSeq(Zero.map[k])
  BY ZeroIs, ValueIs
<1>3. IsValue(Scalar(text))
  BY <1>1, <1>2, ValueIs
<1> QED
  BY <1>1, <1>3 DEF Shape

\* An element of an array.
LEMMA ElementIs ==
  ASSUME NEW v, IsValue(v), NEW slots, NEW index \in Nat, NEW text, IsSeq(text), NEW append
  PROVE  LET e == Element(v, slots, index, text, append) IN
         /\ IsValue(e.v)
         /\ Shape(e.v) = << IF v.kind = "Associative" THEN v.kind ELSE "Indexed", TRUE,
                            v.exported, v.readonly >>
<1> DEFINE e == Element(v, slots, index, text, append)
<1>0. /\ DOMAIN v = {"kind", "str", "list", "map", "set", "exported", "readonly"}
      /\ IsSeq(v.str) /\ IsTexts(v.list)
      /\ IsFiniteSet(DOMAIN v.map) /\ \A k \in DOMAIN v.map : IsSeq(v.map[k])
  BY ValueIs
<1>1. CASE v.kind = "Associative"
  <2> DEFINE x == Concat(At(v.map, index, <<>>), text, append)
             m == With(v.map, index, x)
  <2>1. IsSeq(At(v.map, index, <<>>))
    BY <1>0, ShortSeqs DEF At
  <2>2. IsSeq(x)
    BY <2>1, TextsConcat
  <2> HIDE DEF x
  <2>3. DOMAIN m = DOMAIN v.map \cup {index} /\ \A k \in DOMAIN m : IsSeq(m[k])
    BY <1>0, <2>2 DEF With
  <2>4. IsFiniteSet(DOMAIN m)
    BY <1>0, <2>3, FS_AddElement
  <2>5. e.v = [v EXCEPT !.set = TRUE, !.map = m]
    BY <1>1 DEF Element, x
  <2> HIDE DEF m, e
  <2>6. /\ DOMAIN e.v = {"kind", "str", "list", "map", "set", "exported", "readonly"}
        /\ (e.v).str = v.str /\ (e.v).list = v.list /\ (e.v).map = m
        /\ Shape(e.v) = <<v.kind, TRUE, v.exported, v.readonly>>
    BY <1>0, <2>5 DEF Shape
  <2>7. IsValue(e.v)
    BY <1>0, <2>3, <2>4, <2>6, ValueIs
  <2> QED
    BY <1>1, <2>6, <2>7 DEF e
<1>2. CASE v.kind # "Associative"
  <2> DEFINE list == IF v.kind = "String" /\ v.set THEN <<v.str>> ELSE v.list
             longer == Extend(list, index)
             x == Concat(longer[index + 1], text, append)
             l == [longer EXCEPT ![index + 1] = x]
  <2>1. IsTexts(list)
    BY <1>0, TextsConcat
  <2> HIDE DEF list
  <2>2. IsTexts(longer) /\ index + 1 \in DOMAIN longer
        /\ (IsSeq(x) => IsTexts(l))
    BY <2>1, ExtendIs
  <2>3. IsSeq(longer[index + 1])
    BY <2>2 DEF IsTexts
  <2>4. IsSeq(x)
    BY <2>3, TextsConcat
  <2>5. e.v = [v EXCEPT !.kind = "Indexed", !.str = <<>>, !.set = TRUE, !.list = l]
    <3>1. e.v = [v EXCEPT !.kind = "Indexed", !.str = <<>>, !.set = TRUE,
                  !.list = [longer EXCEPT ![index + 1] = Concat(@, text, append)]]
      BY <1>2 DEF Element, list
    <3> QED
      BY <3>1
  <2> HIDE DEF l, e, longer, x
  <2>6. /\ DOMAIN e.v = {"kind", "str", "list", "map", "set", "exported", "readonly"}
        /\ (e.v).str = <<>> /\ (e.v).list = l /\ (e.v).map = v.map
        /\ Shape(e.v) = <<"Indexed", TRUE, v.exported, v.readonly>>
    BY <1>0, <2>5 DEF Shape
  <2>7. IsValue(e.v)
    BY <1>0, <2>2, <2>4, <2>6, ValueIs, ShortSeqs
  <2> QED
    BY <1>2, <2>6, <2>7 DEF e
<1> QED
  BY <1>1, <1>2

\* An array that takes a text as its element 0.
LEMMA ScalarIntoArrayIs ==
  ASSUME NEW v, IsValue(v), TakesScalar(v), NEW text, IsSeq(text), NEW append
  PROVE  LET e == ScalarIntoArray(v, text, append) IN
         IsValue(e) /\ Shape(e) = <<v.kind, TRUE, v.exported, v.readonly>>
<1> DEFINE e == ScalarIntoArray(v, text, append)
<1>0. /\ DOMAIN v = {"kind", "str", "list", "map", "set", "exported", "readonly"}
      /\ IsSeq(v.str) /\ IsTexts(v.list)
      /\ IsFiniteSet(DOMAIN v.map) /\ \A k \in DOMAIN v.map : IsSeq(v.map[k])
  BY ValueIs
<1>1. CASE v.kind # "Indexed"
  <2> DEFINE x == Concat(At(v.map, 0, <<>>), text, append)
             m == With(v.map, 0, x)
  <2>1. IsSeq(At(v.map, 0, <<>>))
    BY <1>0, ShortSeqs DEF At
  <2>2. IsSeq(x)
    BY <2>1, TextsConcat
  <2> HIDE DEF x
  <2>3. DOMAIN m = DOMAIN v.map \cup {0} /\ \A k \in DOMAIN m : IsSeq(m[k])
    BY <1>0, <2>2 DEF With
  <2>4. IsFiniteSet(DOMAIN m)
    BY <1>0, <2>3, FS_AddElement
  <2>5. e = [v EXCEPT !.set = TRUE, !.map = m]
    BY <1>1 DEF ScalarIntoArray, x
  <2> HIDE DEF m, e
  <2>6. /\ DOMAIN e = {"kind", "str", "list", "map", "set", "exported", "readonly"}
        /\ e.str = v.str /\ e.list = v.list /\ e.map = m
        /\ Shape(e) = <<v.kind, TRUE, v.exported, v.readonly>>
    BY <1>0, <2>5 DEF Shape
  <2>7. IsValue(e)
    BY <1>0, <2>3, <2>4, <2>6, ValueIs
  <2> QED
    BY <2>6, <2>7 DEF e
<1>2. CASE v.kind = "Indexed"
  <2> DEFINE longer == Extend(v.list, 0)
             x == Concat(longer[1], text, append)
             l == [longer EXCEPT ![1] = x]
  <2>1. 0 \in Nat /\ 0 + 1 = 1
    OBVIOUS
  <2>2. IsTexts(longer) /\ 1 \in DOMAIN longer /\ (IsSeq(x) => IsTexts(l))
    <3>1. IsTexts(longer) /\ 0 + 1 \in DOMAIN longer
          /\ (IsSeq(x) => IsTexts([longer EXCEPT ![0 + 1] = x]))
      BY <1>0, <2>1, ExtendIs
    <3> QED
      BY <3>1
  <2>3. IsSeq(longer[1])
    BY <2>2 DEF IsTexts
  <2>4. IsSeq(x)
    BY <2>3, TextsConcat
  <2>5. e = [v EXCEPT !.set = TRUE, !.list = l]
    BY <1>2 DEF ScalarIntoArray
  <2> HIDE DEF l, e, longer, x
  <2>6. /\ DOMAIN e = {"kind", "str", "list", "map", "set", "exported", "readonly"}
        /\ e.str = v.str /\ e.list = l /\ e.map = v.map
        /\ Shape(e) = <<v.kind, TRUE, v.exported, v.readonly>>
    BY <1>0, <2>5 DEF Shape
  <2>7. IsValue(e)
    BY <1>0, <2>2, <2>4, <2>6, ValueIs
  <2> QED
    BY <2>6, <2>7 DEF e
<1> QED
  BY <1>1, <1>2

\* A value, and another that is added to it: what results has the shape the
\* shapes of both determine.
LEMMA AppendedIs ==
  ASSUME NEW v, IsValue(v), NEW w, IsValue(w)
  PROVE  /\ IsValue(Appended(v, w))
         /\ Shape(Appended(v, w)) =
              IF ~v.set THEN Shape(w)
              ELSE << IF w.kind = "String" THEN "String" ELSE "Indexed", v.set,
                      v.exported, v.readonly >>
<1> DEFINE e == Appended(v, w)
<1>0. /\ DOMAIN v = {"kind", "str", "list", "map", "set", "exported", "readonly"}
      /\ IsSeq(v.str) /\ IsTexts(v.list)
      /\ IsFiniteSet(DOMAIN v.map) /\ \A k \in DOMAIN v.map : IsSeq(v.map[k])
      /\ IsSeq(w.str) /\ IsTexts(w.list)
  BY ValueIs
<1>1. CASE ~v.set
  BY <1>1 DEF Appended
<1>2. CASE v.set /\ w.kind = "String"
  <2> DEFINE x == v.str \o w.str
  <2>1. IsSeq(x)
    BY <1>0, ConcatIs
  <2>2. e = [v EXCEPT !.kind = "String", !.str = x]
    BY <1>0, <1>2 DEF Appended
  <2> HIDE DEF e, x
  <2>3. /\ DOMAIN e = {"kind", "str", "list", "map", "set", "exported", "readonly"}
        /\ e.str = x /\ e.list = v.list /\ e.map = v.map
        /\ Shape(e) = <<"String", v.set, v.exported, v.readonly>>
    BY <1>0, <2>2 DEF Shape
  <2>4. IsValue(e)
    BY <1>0, <2>1, <2>3, ValueIs
  <2> QED
    BY <1>2, <2>3, <2>4 DEF e
<1>3. CASE v.set /\ w.kind # "String"
  <2> DEFINE l == IF v.kind = "String" THEN <<v.str>> ELSE v.list
             x == l \o w.list
  <2>1. IsTexts(l)
    BY <1>0, TextsConcat
  <2>2. e = [v EXCEPT !.kind = "Indexed", !.str = <<>>, !.list = x]
    BY <1>0, <1>3 DEF Appended
  <2> HIDE DEF e, l
  <2>3. IsTexts(x)
    BY <1>0, <2>1, TextsConcat
  <2> HIDE DEF x
  <2>4. /\ DOMAIN e = {"kind", "str", "list", "map", "set", "exported", "readonly"}
        /\ e.str = <<>> /\ e.list = x /\ e.map = v.map
        /\ Shape(e) = <<"Indexed", v.set, v.exported, v.readonly>>
    BY <1>0, <2>2 DEF Shape
  <2>5. IsValue(e)
    BY <1>0, <2>3, <2>4, ValueIs, ShortSeqs
  <2> QED
    BY <1>3, <2>4, <2>5 DEF e
<1> QED
  BY <1>1, <1>2, <1>3

\* arrayValue takes one element after the other.
ElementStep(vs, el, acc) ==
  LET i    == IF el.index < 0 THEN acc.next ELSE el.index
      text == WordText(vs, el.word)
  IN IF ~Fits(i) THEN [acc EXCEPT !.fits = FALSE]
     ELSE [list |-> [Extend(acc.list, i) EXCEPT ![i + 1] = text],
           present |-> acc.present \cup {i}, next |-> i + 1, fits |-> acc.fits,
           unknown |-> acc.unknown \/ WordUnknown(vs, el.word)]
Elements == INSTANCE FoldsProofs WITH FoldStep <- ElementStep
NoElements == [list |-> <<>>, present |-> {}, next |-> 0, fits |-> TRUE, unknown |-> FALSE]
\* What arrayValue computes is the fold of these steps.
LEMMA ArrayFold ==
  ASSUME NEW vs, NEW elems
  PROVE  ArrayValue(vs, elems) =
           LET all == Elements!FromLeft(vs, NoElements, elems) IN
           IF ~all.fits THEN Refused("limit")
           ELSE Result([Zero EXCEPT !.kind = "Indexed", !.set = TRUE, !.list = all.list],
                       Normalize(all.present, Len(all.list)), all.unknown)
  BY Zenon DEF ArrayValue, Elements!FromLeft, NoElements, ElementStep, FoldLeft,
               MapThenFoldSet, Elements!Largest, Max

\* The elements that the variables and their ghost give: as many, in the same
\* places, and the same unless one is not known.
AgreeingElements(x, y) ==
  /\ DOMAIN x = {"list", "present", "next", "fits", "unknown"}
  /\ DOMAIN y = {"list", "present", "next", "fits", "unknown"}
  /\ x.next \in Nat /\ y.next = x.next /\ y.present = x.present
  /\ x.fits \in BOOLEAN /\ y.fits = x.fits
  /\ x.unknown \in BOOLEAN /\ y.unknown \in BOOLEAN
  /\ IsTexts(x.list) /\ IsTexts(y.list) /\ Len(y.list) = Len(x.list)
  /\ ~x.unknown => y.list = x.list
\* They agree after one element more, when they agreed before it.
LEMMA ElementStepAgrees ==
  ASSUME NEW vs, NEW t, Ghosted(vs, t), NEW el, el.index \in Int, IsWord(el.word),
         NEW x, NEW y, AgreeingElements(x, y)
  PROVE  AgreeingElements(ElementStep(vs, el, x), ElementStep(t, el, y))
<1> DEFINE i == IF el.index < 0 THEN x.next ELSE el.index
           s == WordText(vs, el.word)
           u == WordText(t, el.word)
           l == [Extend(x.list, i) EXCEPT ![i + 1] = s]
           m == [Extend(y.list, i) EXCEPT ![i + 1] = u]
<1>1. /\ i \in Nat /\ i + 1 \in Nat
      /\ i = IF el.index < 0 THEN y.next ELSE el.index
  BY DEF AgreeingElements
<1>2. /\ IsSeq(s) /\ IsSeq(u)
      /\ WordUnknown(vs, el.word) \in BOOLEAN /\ WordUnknown(t, el.word) \in BOOLEAN
      /\ ~WordUnknown(vs, el.word) => u = s
  BY WordIs
<1>3. CASE ~Fits(i)
  <2>1. /\ ElementStep(vs, el, x) = [x EXCEPT !.fits = FALSE]
        /\ ElementStep(t, el, y) = [y EXCEPT !.fits = FALSE]
    BY <1>1, <1>3 DEF ElementStep
  <2> QED
    BY <2>1 DEF AgreeingElements
<1>4. CASE Fits(i)
  <2>1. /\ ElementStep(vs, el, x) =
             [list |-> l, present |-> x.present \cup {i}, next |-> i + 1, fits |-> x.fits,
              unknown |-> x.unknown \/ WordUnknown(vs, el.word)]
        /\ ElementStep(t, el, y) =
             [list |-> m, present |-> y.present \cup {i}, next |-> i + 1, fits |-> y.fits,
              unknown |-> y.unknown \/ WordUnknown(t, el.word)]
    BY <1>1, <1>4 DEF ElementStep
  <2>2. IsTexts(l) /\ IsTexts(m) /\ Len(m) = Len(l)
    BY <1>1, <1>2, ExtendIs DEF AgreeingElements
  <2>3. ASSUME ~x.unknown, ~WordUnknown(vs, el.word)
        PROVE  m = l
    BY <1>2, <2>3 DEF AgreeingElements
  <2> HIDE DEF l, m, i, s, u
  <2> QED
    BY <1>1, <1>2, <2>1, <2>2, <2>3 DEF AgreeingElements
<1> QED
  BY <1>3, <1>4

\* The arrays that the variables and their ghost give.
LEMMA ArrayValueAgrees ==
  ASSUME NEW vs, NEW t, Ghosted(vs, t), NEW elems, IsSeq(elems),
         \A k \in DOMAIN elems : elems[k].index \in Int /\ IsWord(elems[k].word)
  PROVE  /\ AgreeingResults(ArrayValue(vs, elems), ArrayValue(t, elems))
         /\ (ArrayValue(vs, elems)).error = "none" =>
              Shape((ArrayValue(vs, elems)).v) = <<"Indexed", TRUE, FALSE, FALSE>>
<1> DEFINE n == Len(elems)
<1>1. n \in Nat /\ DOMAIN elems = 1 .. n /\ elems \in Seq(Range(elems))
  BY SeqDomain
<1>20. Elements!LeftSteps(vs, NoElements, elems) /\ Elements!LeftSteps(t, NoElements, elems)
  BY <1>1, Elements!LeftFold
<1>2. PICK g : /\ g[0] = NoElements
               /\ \A k \in 1 .. n : g[k] = ElementStep(vs, elems[k], g[k - 1])
               /\ Elements!FromLeft(vs, NoElements, elems) = g[n]
  BY <1>20 DEF Elements!LeftSteps
<1>3. PICK h : /\ h[0] = NoElements
               /\ \A k \in 1 .. n : h[k] = ElementStep(t, elems[k], h[k - 1])
               /\ Elements!FromLeft(t, NoElements, elems) = h[n]
  BY <1>20 DEF Elements!LeftSteps
<1>4. AgreeingElements(g[0], h[0])
  <2>1. IsSeq(<<>>)
    BY ShortSeqs
  <2>2. IsTexts(<<>>)
    <3>1. DOMAIN <<>> = {}
      OBVIOUS
    <3> QED
      BY <2>1, <3>1 DEF IsTexts
  <2>3. AgreeingElements(NoElements, NoElements)
    BY <2>2 DEF NoElements, AgreeingElements
  <2> QED
    BY <1>2, <1>3, <2>3
<1>5. ASSUME NEW k \in 1 .. n, AgreeingElements(g[k - 1], h[k - 1])
      PROVE  AgreeingElements(g[k], h[k])
  BY <1>1, <1>2, <1>3, <1>5, ElementStepAgrees
<1>6. AgreeingElements(g[n], h[n])
  <2> DEFINE Bad == {k \in 1 .. n : ~AgreeingElements(g[k], h[k])}
  <2>1. Bad = {}
    <3> SUFFICES ASSUME Bad # {} PROVE FALSE
      OBVIOUS
    <3>1. PICK m \in Bad : \A k \in 1 .. m - 1 : k \notin Bad
      BY <1>1, FirstPlace
    <3>2. AgreeingElements(g[m - 1], h[m - 1])
      BY <1>1, <1>4, <3>1
    <3> QED
      BY <1>5, <3>1, <3>2
  <2> QED
    BY <1>1, <1>4, <2>1
<1> DEFINE x == g[n]
           y == h[n]
<1>7. /\ ArrayValue(vs, elems) =
           IF ~x.fits THEN Refused("limit")
           ELSE Result([Zero EXCEPT !.kind = "Indexed", !.set = TRUE, !.list = x.list],
                       Normalize(x.present, Len(x.list)), x.unknown)
      /\ ArrayValue(t, elems) =
           IF ~y.fits THEN Refused("limit")
           ELSE Result([Zero EXCEPT !.kind = "Indexed", !.set = TRUE, !.list = y.list],
                       Normalize(y.present, Len(y.list)), y.unknown)
  BY <1>2, <1>3, ArrayFold
<1>8. AgreeingElements(x, y)
  BY <1>6
<1> HIDE DEF x, y
<1>9. ASSUME NEW l, IsTexts(l), NEW v, v = [Zero EXCEPT !.kind = "Indexed", !.set = TRUE, !.list = l]
      PROVE  IsValue(v) /\ Shape(v) = <<"Indexed", TRUE, FALSE, FALSE>>
  <2>1. /\ DOMAIN Zero = {"kind", "str", "list", "map", "set", "exported", "readonly"}
        /\ Zero.exported = FALSE /\ Zero.readonly = FALSE
        /\ IsSeq(Zero.str) /\ IsFiniteSet(DOMAIN Zero.map)
        /\ \A k \in DOMAIN Zero.map : IsSeq(Zero.map[k])
    <3>1. Zero.exported = FALSE /\ Zero.readonly = FALSE
      BY DEF Zero
    <3> QED
      BY <3>1, ZeroIs, ValueIs
  <2>2. /\ DOMAIN v = {"kind", "str", "list", "map", "set", "exported", "readonly"}
        /\ v.kind = "Indexed" /\ v.set = TRUE /\ v.list = l /\ v.str = Zero.str
        /\ v.map = Zero.map /\ v.exported = FALSE /\ v.readonly = FALSE
    BY <1>9, <2>1
  <2> QED
    BY <1>9, <2>1, <2>2, ValueIs DEF Shape
<1>10. CASE ~x.fits
  <2>1. ArrayValue(vs, elems) = Refused("limit") /\ ArrayValue(t, elems) = Refused("limit")
    BY <1>7, <1>8, <1>10 DEF AgreeingElements
  <2> QED
    BY <2>1, ZeroIs DEF AgreeingResults, Refused
<1>11. CASE x.fits
  <2> DEFINE v == [Zero EXCEPT !.kind = "Indexed", !.set = TRUE, !.list = x.list]
             w == [Zero EXCEPT !.kind = "Indexed", !.set = TRUE, !.list = y.list]
             r == Result(v, Normalize(x.present, Len(x.list)), x.unknown)
             q == Result(w, Normalize(y.present, Len(y.list)), y.unknown)
  <2>1. ArrayValue(vs, elems) = r /\ ArrayValue(t, elems) = q
    BY <1>7, <1>8, <1>11 DEF AgreeingElements
  <2>2. /\ IsValue(v) /\ Shape(v) = <<"Indexed", TRUE, FALSE, FALSE>>
        /\ IsValue(w) /\ Shape(w) = <<"Indexed", TRUE, FALSE, FALSE>>
    BY <1>8, <1>9 DEF AgreeingElements
  <2>3. ~x.unknown => w = v
    BY <1>8 DEF AgreeingElements
  <2> HIDE DEF v, w
  <2>4. /\ r.error = "none" /\ r.v = v /\ r.unknown = x.unknown
        /\ r.slots = Normalize(x.present, Len(x.list))
        /\ q.error = "none" /\ q.v = w /\ q.unknown = y.unknown
        /\ q.slots = Normalize(y.present, Len(y.list))
    BY DEF Result
  <2> HIDE DEF r, q
  <2>5. AgreeingResults(r, q)
    BY <1>8, <2>2, <2>3, <2>4 DEF AgreeingElements, AgreeingResults
  <2> QED
    BY <2>1, <2>2, <2>4, <2>5
<1> QED
  BY <1>10, <1>11

\* Adding one element after the other.
LEMMA AddUp ==
  ASSUME NEW S, IsFiniteSet(S), NEW Good, {} \in Good,
         \A s \in SUBSET S : s # {} /\ (\A x \in s : s \ {x} \in Good) => s \in Good
  PROVE  S \in Good
<1> DEFINE Bad == {s \in SUBSET S : s \notin Good}
<1>1. Bad \in SUBSET SUBSET S
  OBVIOUS
<1>2. \A s \in SUBSET S : s \in Bad \/ s \in Good
  OBVIOUS
<1>3. \A s \in Bad : s \notin Good
  OBVIOUS
<1> HIDE DEF Bad
<1>4. Bad = {}
  <2> SUFFICES ASSUME Bad # {} PROVE FALSE
    OBVIOUS
  <2>1. PICK m \in Bad : \A y \in SUBSET m : y # m => y \notin Bad
    <3>1. Elements!IsFiniteSet(S)
      BY DEF IsFiniteSet, Elements!IsFiniteSet
    <3> QED
      BY <1>1, <3>1, Elements!SmallestSubset
  <2>2. m \in SUBSET S /\ m # {}
    BY <1>1, <1>3, <2>1
  <2>3. \A x \in m : m \ {x} \in SUBSET m /\ m \ {x} # m /\ m \ {x} \in SUBSET S
    BY <2>2
  <2>4. \A x \in m : m \ {x} \in Good
    BY <1>2, <2>1, <2>3
  <2> QED
    BY <1>3, <2>1, <2>2, <2>4
<1> QED
  BY <1>2, <1>4

\* Two results that are made of agreeing parts.
LEMMA ResultsAgree ==
  ASSUME NEW v, NEW w, IsValue(v), IsValue(w), Shape(w) = Shape(v),
         NEW slots, NEW others, NEW unknown \in BOOLEAN, NEW unsure \in BOOLEAN,
         ~unknown => w = v /\ others = slots
  PROVE  AgreeingResults(Result(v, slots, unknown), Result(w, others, unsure))
<1> DEFINE r == Result(v, slots, unknown)
           q == Result(w, others, unsure)
<1>1. /\ r.error = "none" /\ r.v = v /\ r.slots = slots /\ r.unknown = unknown
      /\ q.error = "none" /\ q.v = w /\ q.slots = others /\ q.unknown = unsure
  BY DEF Result
<1> HIDE DEF r, q
<1>2. AgreeingResults(r, q)
  BY <1>1 DEF AgreeingResults
<1> QED
  BY <1>2 DEF r, q

\* What cannot be evaluated is refused for both.
LEMMA RefusalsAgree ==
  ASSUME NEW why
  PROVE  AgreeingResults(Refused(why), Refused(why)) /\ (Refused(why)).error = why
  BY ZeroIs DEF AgreeingResults, Refused

\* The values that an assignment gives a name and its ghost.
LEMMA AssignmentValueAgrees ==
  ASSUME NEW vs, NEW t, Ghosted(vs, t), NEW a, IsAssignment(a), a.form # "naked"
  PROVE  AgreeingResults(AssignmentValue(vs, a), AssignmentValue(t, a))
<1> DEFINE v == Lookup(vs, a.name)
           w == Lookup(t, a.name)
           slots == Slots(vs, a.name)
           others == Slots(t, a.name)
           s == WordText(vs, a.word)
           u == WordText(t, a.word)
           new == WordUnknown(vs, a.word)
           unsure == WordUnknown(t, a.word)
           was == Unknown(vs, a.name)
           is == Unknown(t, a.name)
           x == ArrayValue(vs, a.elems)
           y == ArrayValue(t, a.elems)
           e == Element(v, slots, a.index.at, s, a.append)
           f == Element(w, others, a.index.at, u, a.append)
<1>1. /\ IsValue(v) /\ IsValue(w) /\ Shape(w) = Shape(v)
      /\ ~was => w = v /\ others = slots
  BY LookupIs DEF Ghosted, IsVars, Agrees, IsAssignment
<1>2. /\ IsSeq(s) /\ IsSeq(u) /\ new \in BOOLEAN /\ unsure \in BOOLEAN
      /\ ~new => u = s
  BY WordIs DEF IsAssignment
<1>3. was \in BOOLEAN /\ is \in BOOLEAN
  BY DEF Unknown
<1>4. w.kind = v.kind /\ w.set = v.set /\ w.exported = v.exported /\ w.readonly = v.readonly
  BY <1>1 DEF Shape
<1>5. CASE a.form = "array"
  <2>1. /\ AgreeingResults(x, y)
        /\ x.error = "none" => Shape(x.v) = <<"Indexed", TRUE, FALSE, FALSE>>
    BY ArrayValueAgrees DEF IsAssignment
  <2> DEFINE xv == Appended(v, x.v)
             yv == Appended(w, y.v)
             xs == AppendSlots(v, x.v, slots, x.slots)
             ys == AppendSlots(w, y.v, others, y.slots)
  <2>2. /\ AssignmentValue(vs, a) = IF x.error # "none" \/ ~a.append THEN x
                                    ELSE Result(xv, xs, x.unknown \/ was)
        /\ AssignmentValue(t, a) = IF y.error # "none" \/ ~a.append THEN y
                                   ELSE Result(yv, ys, y.unknown \/ is)
    BY <1>5 DEF AssignmentValue, Taints
  <2>3. CASE x.error # "none" \/ ~a.append
    <3>1. y.error # "none" \/ ~a.append
      BY <2>1, <2>3 DEF AgreeingResults
    <3> QED
      BY <2>1, <2>2, <2>3, <3>1
  <2>4. CASE ~(x.error # "none" \/ ~a.append)
    <3>1. ~(y.error # "none" \/ ~a.append)
      BY <2>1, <2>4 DEF AgreeingResults
    <3>2. /\ IsValue(x.v) /\ IsValue(y.v) /\ Shape(y.v) = Shape(x.v)
          /\ x.unknown \in BOOLEAN /\ y.unknown \in BOOLEAN
          /\ ~x.unknown => y.v = x.v /\ y.slots = x.slots
      BY <2>1 DEF AgreeingResults
    <3>3. (x.v).kind = (y.v).kind
      BY <3>2 DEF Shape
    <3>4. /\ IsValue(xv)
          /\ Shape(xv) = IF ~v.set THEN Shape(x.v)
               ELSE << IF (x.v).kind = "String" THEN "String" ELSE "Indexed", v.set,
                       v.exported, v.readonly >>
      BY <1>1, <3>2, AppendedIs
    <3>5. /\ IsValue(yv)
          /\ Shape(yv) = IF ~w.set THEN Shape(y.v)
               ELSE << IF (y.v).kind = "String" THEN "String" ELSE "Indexed", w.set,
                       w.exported, w.readonly >>
      BY <1>1, <3>2, AppendedIs
    <3>6. Shape(yv) = Shape(xv)
      BY <1>4, <3>2, <3>3, <3>4, <3>5
    <3>7. ~(x.unknown \/ was) => yv = xv /\ ys = xs
      BY <1>1, <3>2
    <3>8. (x.unknown \/ was) \in BOOLEAN /\ (y.unknown \/ is) \in BOOLEAN
      OBVIOUS
    <3> HIDE DEF xv, yv, xs, ys, was, is
    <3>9. AgreeingResults(Result(xv, xs, x.unknown \/ was), Result(yv, ys, y.unknown \/ is))
      BY <3>4, <3>5, <3>6, <3>7, <3>8, ResultsAgree
    <3> QED
      BY <2>2, <2>4, <3>1, <3>9
  <2> QED
    BY <2>3, <2>4
<1>6. CASE a.form = "element"
  <2>1. CASE ~a.index.known
    <3>1. AssignmentValue(vs, a) = Refused("unknown") /\ AssignmentValue(t, a) = Refused("unknown")
      BY <1>6, <2>1 DEF AssignmentValue
    <3> QED
      BY <3>1, RefusalsAgree
  <2>2. CASE a.index.known /\ a.index.at < 0
    <3>1. AssignmentValue(vs, a) = Refused("invalid") /\ AssignmentValue(t, a) = Refused("invalid")
      BY <1>6, <2>2 DEF AssignmentValue
    <3> QED
      BY <3>1, RefusalsAgree
  <2>3. CASE a.index.known /\ ~(a.index.at < 0) /\ ~Fits(a.index.at)
    <3>1. AssignmentValue(vs, a) = Refused("limit") /\ AssignmentValue(t, a) = Refused("limit")
      BY <1>6, <2>3 DEF AssignmentValue
    <3> QED
      BY <3>1, RefusalsAgree
  <2>4. CASE a.index.known /\ ~(a.index.at < 0) /\ Fits(a.index.at)
    <3>1. /\ AssignmentValue(vs, a) = Result(e.v, e.slots, new \/ was)
          /\ AssignmentValue(t, a) = Result(f.v, f.slots, unsure \/ is)
      BY <1>6, <2>4 DEF AssignmentValue, Taints
    <3>2. a.index.at \in Nat
      BY <2>4 DEF IsAssignment
    <3>3. /\ IsValue(e.v)
          /\ Shape(e.v) = << IF v.kind = "Associative" THEN v.kind ELSE "Indexed", TRUE,
                             v.exported, v.readonly >>
      BY <1>1, <1>2, <3>2, ElementIs
    <3>4. /\ IsValue(f.v)
          /\ Shape(f.v) = << IF w.kind = "Associative" THEN w.kind ELSE "Indexed", TRUE,
                             w.exported, w.readonly >>
      BY <1>1, <1>2, <3>2, ElementIs
    <3>5. ~(new \/ was) => f.v = e.v /\ f.slots = e.slots
      BY <1>1, <1>2
    <3>6. (new \/ was) \in BOOLEAN /\ (unsure \/ is) \in BOOLEAN
      OBVIOUS
    <3>7. Shape(f.v) = Shape(e.v)
      BY <1>4, <3>3, <3>4
    <3> HIDE DEF e, f, new, was, unsure, is
    <3> QED
      BY <3>1, <3>3, <3>4, <3>5, <3>6, <3>7, ResultsAgree
  <2> QED
    BY <2>1, <2>2, <2>3, <2>4
<1>7. CASE a.form # "array" /\ a.form # "element" /\ TakesScalar(v)
  <2> DEFINE xv == ScalarIntoArray(v, s, a.append)
             yv == ScalarIntoArray(w, u, a.append)
             xs == SetSlot(slots, Len(v.list), 0)
             ys == SetSlot(others, Len(w.list), 0)
  <2>1. TakesScalar(w)
    BY <1>4, <1>7 DEF TakesScalar
  <2>2. /\ AssignmentValue(vs, a) = Result(xv, xs, new \/ was)
        /\ AssignmentValue(t, a) = Result(yv, ys, unsure \/ is)
    BY <1>7, <2>1 DEF AssignmentValue, Taints
  <2>3. IsValue(xv) /\ Shape(xv) = <<v.kind, TRUE, v.exported, v.readonly>>
    BY <1>1, <1>2, <1>7, ScalarIntoArrayIs
  <2>4. IsValue(yv) /\ Shape(yv) = <<w.kind, TRUE, w.exported, w.readonly>>
    BY <1>1, <1>2, <2>1, ScalarIntoArrayIs
  <2>5. ~(new \/ was) => yv = xv /\ ys = xs
    BY <1>1, <1>2
  <2>6. (new \/ was) \in BOOLEAN /\ (unsure \/ is) \in BOOLEAN
    OBVIOUS
  <2>7. Shape(yv) = Shape(xv)
    BY <1>4, <2>3, <2>4
  <2> HIDE DEF xv, yv, xs, ys, new, was, unsure, is
  <2> QED
    BY <2>2, <2>3, <2>4, <2>5, <2>6, <2>7, ResultsAgree
<1>8. CASE a.form # "array" /\ a.form # "element" /\ ~TakesScalar(v)
  <2>1. ~TakesScalar(w)
    BY <1>4, <1>8 DEF TakesScalar
  <2>2. /\ IsValue(Scalar(s)) /\ IsValue(Scalar(u)) /\ Shape(Scalar(u)) = Shape(Scalar(s))
        /\ (Scalar(s)).kind = "String" /\ (Scalar(u)).kind = "String"
    BY <1>2, ScalarIs
  <2>3. CASE a.append
    <3> DEFINE xv == Appended(v, Scalar(s))
               yv == Appended(w, Scalar(u))
    <3>1. /\ AssignmentValue(vs, a) = Result(xv, Dense, new \/ was)
          /\ AssignmentValue(t, a) = Result(yv, Dense, unsure \/ is)
      BY <1>8, <2>1, <2>3 DEF AssignmentValue, Taints
    <3>2. /\ IsValue(xv)
          /\ Shape(xv) = IF ~v.set THEN Shape(Scalar(s))
                         ELSE <<"String", v.set, v.exported, v.readonly>>
      BY <1>1, <2>2, AppendedIs
    <3>3. /\ IsValue(yv)
          /\ Shape(yv) = IF ~w.set THEN Shape(Scalar(u))
                         ELSE <<"String", w.set, w.exported, w.readonly>>
      BY <1>1, <2>2, AppendedIs
    <3>4. ~(new \/ was) => yv = xv
      BY <1>1, <1>2
    <3>5. (new \/ was) \in BOOLEAN /\ (unsure \/ is) \in BOOLEAN
      OBVIOUS
    <3>6. Shape(yv) = Shape(xv)
      BY <1>4, <2>2, <3>2, <3>3
    <3> HIDE DEF xv, yv, new, was, unsure, is
    <3> QED
      BY <3>1, <3>2, <3>3, <3>4, <3>5, <3>6, ResultsAgree
  <2>4. CASE ~a.append
    <3>1. /\ AssignmentValue(vs, a) = Result(Scalar(s), Dense, new)
          /\ AssignmentValue(t, a) = Result(Scalar(u), Dense, unsure)
      BY <1>8, <2>1, <2>4 DEF AssignmentValue
    <3>2. ~new => Scalar(u) = Scalar(s)
      BY <1>2
    <3> QED
      BY <1>2, <2>2, <3>1, <3>2, ResultsAgree
  <2> QED
    BY <2>3, <2>4
<1> QED
  BY <1>5, <1>6, <1>7, <1>8

-------------------------------------------------------------------------------
(* What assignments leave of the variables. *)

\* The variables ws came about from vs by writes of these names, each of which
\* was written, and of no others.
Written(vs, ws, names) ==
  /\ ws.revision \in Nat /\ ws.revision >= vs.revision
  /\ \A m : m \notin names =>
       Entry(ws, m) = Entry(vs, m) /\ Version(ws, m) = Version(vs, m)
  /\ \A m \in names : Version(ws, m) \in vs.revision + 1 .. ws.revision

\* No write at all.
LEMMA WrittenNothing ==
  ASSUME NEW vs, vs.revision \in Nat
  PROVE  Written(vs, vs, {})
  BY DEF Written

\* One write.
LEMMA WrittenOnce ==
  ASSUME NEW vs, vs.revision \in Nat, NEW n, NEW e, NEW p, Sets(p, vs, n, e)
  PROVE  Written(vs, p, {n})
  BY DEF Sets, Written

\* Writes after writes.
LEMMA WrittenTwice ==
  ASSUME NEW a, NEW b, NEW c, a.revision \in Nat, NEW S, NEW T,
         Written(a, b, S), Written(b, c, T)
  PROVE  Written(a, c, S \cup T)
<1>1. /\ c.revision \in Nat /\ b.revision \in Nat
      /\ b.revision >= a.revision /\ c.revision >= b.revision
  BY DEF Written
<1>2. ASSUME NEW m, m \notin S \cup T
      PROVE  Entry(c, m) = Entry(a, m) /\ Version(c, m) = Version(a, m)
  BY <1>2 DEF Written
<1>3. ASSUME NEW m \in S \cup T
      PROVE  Version(c, m) \in a.revision + 1 .. c.revision
  <2>1. CASE m \in T
    <3>1. Version(c, m) \in b.revision + 1 .. c.revision
      BY <2>1 DEF Written
    <3> QED
      BY <1>1, <3>1
  <2>2. CASE m \notin T
    <3>1. m \in S
      BY <2>2
    <3>2. Version(c, m) = Version(b, m) /\ Version(b, m) \in a.revision + 1 .. b.revision
      BY <2>2, <3>1 DEF Written
    <3> QED
      BY <1>1, <3>2
  <2> QED
    BY <2>1, <2>2
<1> QED
  BY <1>1, <1>2, <1>3 DEF Written

\* The versions of variables are natural numbers, none ahead of the revision.
LEMMA VersionsAre ==
  ASSUME NEW vs, IsVars(vs), NEW m
  PROVE  Version(vs, m) \in 0 .. vs.revision /\ Version(vs, m) \in Nat /\ vs.revision \in Nat
  BY DEF IsVars, Version, At

\* What an assignment makes of the variables and of their ghost.
WritesOne(vs, t, a, exported) ==
  /\ (AssignOne(t, a, exported)).error = "none"
  /\ Ghosted((AssignOne(vs, a, exported)).vs, (AssignOne(t, a, exported)).vs)
  /\ Written(vs, (AssignOne(vs, a, exported)).vs, {a.name})

\* One assignment that succeeds: it writes its name, in the variables and in
\* their ghost.
LEMMA AssignOneIs ==
  ASSUME NEW vs, NEW t, Ghosted(vs, t), NEW a, IsAssignment(a), NEW exported \in BOOLEAN,
         (AssignOne(vs, a, exported)).error = "none"
  PROVE  WritesOne(vs, t, a, exported)
<1> DEFINE n == a.name
           v == Lookup(vs, n)
           w == Lookup(t, n)
           r == AssignOne(vs, a, exported)
           q == AssignOne(t, a, exported)
<1>1. /\ IsValue(v) /\ IsValue(w) /\ Shape(w) = Shape(v) /\ n \in Name
      /\ ~Unknown(vs, n) => w = v /\ Slots(t, n) = Slots(vs, n)
      /\ Unknown(vs, n) \in BOOLEAN /\ Unknown(t, n) \in BOOLEAN /\ vs.revision \in Nat
  BY LookupIs DEF Ghosted, IsVars, Agrees, IsAssignment, Unknown
<1>2. ASSUME NEW x, NEW y, IsValue(x), IsValue(y), Shape(y) = Shape(x),
             NEW b, NEW p, p = [x EXCEPT !.exported = @ \/ b],
             NEW s, s = [y EXCEPT !.exported = @ \/ b]
      PROVE  IsValue(p) /\ IsValue(s) /\ Shape(s) = Shape(p) /\ (y = x => s = p)
  <2>1. /\ DOMAIN x = {"kind", "str", "list", "map", "set", "exported", "readonly"}
        /\ DOMAIN y = {"kind", "str", "list", "map", "set", "exported", "readonly"}
    BY <1>2, ValueIs
  <2>2. /\ DOMAIN p = {"kind", "str", "list", "map", "set", "exported", "readonly"}
        /\ p.str = x.str /\ p.list = x.list /\ p.map = x.map
        /\ p.kind = x.kind /\ p.set = x.set /\ p.readonly = x.readonly
        /\ DOMAIN s = {"kind", "str", "list", "map", "set", "exported", "readonly"}
        /\ s.str = y.str /\ s.list = y.list /\ s.map = y.map
        /\ s.kind = y.kind /\ s.set = y.set /\ s.readonly = y.readonly
    BY <1>2, <2>1
  <2>3. s.exported = p.exported
    <3>1. y.exported = x.exported
      BY <1>2 DEF Shape
    <3>2. p.exported = (x.exported \/ b) /\ s.exported = (y.exported \/ b)
      BY <1>2, <2>1
    <3> QED
      BY <3>1, <3>2
  <2>4. IsValue(p) /\ IsValue(s)
    BY <1>2, <2>2, ValueIs
  <2>5. Shape(s) = Shape(p)
    BY <1>2, <2>2, <2>3 DEF Shape
  <2> QED
    BY <1>2, <2>4, <2>5
<1>3. CASE a.form = "naked"
  <2> DEFINE x == [v EXCEPT !.exported = @ \/ exported]
             y == [w EXCEPT !.exported = @ \/ exported]
             p == Put(vs, n, x, Unknown(vs, n), Slots(vs, n))
             s == Put(t, n, y, Unknown(t, n), Slots(t, n))
  <2>1. r.error = "none" /\ r.vs = p /\ q.error = "none" /\ q.vs = s
    BY <1>3 DEF AssignOne
  <2>2. IsValue(x) /\ IsValue(y) /\ Shape(y) = Shape(x) /\ (w = v => y = x)
    BY <1>1, <1>2
  <2> HIDE DEF x, y, v, w
  <2>3. Ghosted(p, s)
    BY <1>1, <2>2, PutGhosted
  <2>4. Sets(p, vs, n, NewEntry(x, Unknown(vs, n), Slots(vs, n)))
    BY <1>1, PutSets
  <2>5. Written(vs, p, {n})
    BY <1>1, <2>4, WrittenOnce
  <2> QED
    BY <2>1, <2>3, <2>5 DEF WritesOne
<1>4. CASE a.form # "naked"
  <2> DEFINE f == AssignmentValue(vs, a)
             g == AssignmentValue(t, a)
             also == exported \/ v.exported
             x == [f.v EXCEPT !.exported = @ \/ also]
             y == [g.v EXCEPT !.exported = @ \/ also]
             p == Put(vs, n, x, f.unknown, f.slots)
             s == Put(t, n, y, g.unknown, g.slots)
  <2>1. w.exported = v.exported /\ w.readonly = v.readonly
    BY <1>1 DEF Shape
  <2>2. ~v.readonly
    BY <1>4 DEF AssignOne
  <2>3. r.error = f.error /\ r.vs = p
    BY <1>4, <2>2 DEF AssignOne, AssignValue
  <2>4. q.error = g.error /\ q.vs = s
    BY <1>4, <2>1, <2>2 DEF AssignOne, AssignValue
  <2>5. AgreeingResults(f, g)
    BY <1>4, AssignmentValueAgrees
  <2>6. /\ g.error = f.error /\ IsValue(f.v) /\ IsValue(g.v) /\ Shape(g.v) = Shape(f.v)
        /\ f.unknown \in BOOLEAN /\ g.unknown \in BOOLEAN
        /\ ~f.unknown => g.v = f.v /\ g.slots = f.slots
    BY <2>5 DEF AgreeingResults
  <2> HIDE DEF f, g, also
  <2>7. IsValue(x) /\ IsValue(y) /\ Shape(y) = Shape(x) /\ (g.v = f.v => y = x)
    BY <1>2, <2>6
  <2> HIDE DEF x, y, v, w
  <2>8. Ghosted(p, s)
    BY <1>1, <2>6, <2>7, PutGhosted
  <2>9. Sets(p, vs, n, NewEntry(x, f.unknown, f.slots))
    BY <2>6, PutSets
  <2>10. Written(vs, p, {n})
    BY <1>1, <2>9, WrittenOnce
  <2> QED
    BY <2>3, <2>4, <2>6, <2>8, <2>10 DEF WritesOne
<1> QED
  BY <1>3, <1>4

\* applyAssignments makes one assignment after the other.  The context has
\* what they depend on besides; the ghost is not limited.
AssignStep(c, a, acc) ==
  IF acc.error # "none" THEN acc
  ELSE LET r == AssignOne(acc.vs, a, c.exported) IN
       IF /\ c.limited /\ r.error = "none"
          /\ ~ /\ ValueBytes(Lookup(r.vs, a.name)) <= Maximum
               /\ c.aux + EntryBytes + Beyond(c.rest + r.vs.bytes) <= Maximum
       THEN [r EXCEPT !.error = "limit"] ELSE r
Assigning == INSTANCE FoldsProofs WITH FoldStep <- AssignStep
Unassigned(vs) == [error |-> "none", vs |-> vs]
Assigned(c, vs, list) == Assigning!FromLeft(c, Unassigned(vs), list)
Limits(h, i, exported, limited) ==
  [exported |-> exported, limited |-> limited,
   rest |-> StateBytes(h, i) - h[i].vars.bytes, aux |-> journalBytes]

\* Two recursions over the same sequence that take the same steps.
LEMMA AssignAllIs ==
  ASSUME NEW h, NEW i, NEW exported, NEW list
  PROVE  LET r == Assigned(Limits(h, i, exported, TRUE), h[i].vars, list)
             q == Assigned(Limits(h, i, exported, FALSE), h[i].truth, list)
         IN Apply(h, i, list, exported) =
              [error |-> r.error,
               h |-> IF r.error # "none" THEN h
                     ELSE [h EXCEPT ![i].vars = r.vs, ![i].truth = q.vs]]
<1> DEFINE rest == StateBytes(h, i) - h[i].vars.bytes
           c == Limits(h, i, exported, TRUE)
           d == Limits(h, i, exported, FALSE)
<1>1. /\ c.exported = exported /\ c.limited = TRUE /\ c.rest = rest /\ c.aux = journalBytes
      /\ d.exported = exported /\ d.limited = FALSE
  BY DEF Limits
<1>2. \A a, acc : AssignStep(c, a, acc) =
        IF acc.error # "none" THEN acc
        ELSE Limited(AssignOne(acc.vs, a, exported), a.name, rest)
  BY <1>1 DEF AssignStep, Limited, Affordable
<1>3. \A a, acc : AssignStep(d, a, acc) =
        IF acc.error # "none" THEN acc ELSE AssignOne(acc.vs, a, exported)
  BY <1>1 DEF AssignStep
<1> DEFINE One(a, acc) == IF acc.error # "none" THEN acc
                          ELSE Limited(AssignOne(acc.vs, a, exported), a.name, rest)
           Two(a, acc) == IF acc.error # "none" THEN acc ELSE AssignOne(acc.vs, a, exported)
           First(base) == (CHOOSE g : g = [s \in SUBSET DOMAIN list |->
               IF s = {} THEN base
               ELSE One(list[Assigning!Largest(s)], g[s \ {Assigning!Largest(s)}])])[DOMAIN list]
           Second(base) == (CHOOSE g : g = [s \in SUBSET DOMAIN list |->
               IF s = {} THEN base
               ELSE Two(list[Assigning!Largest(s)], g[s \ {Assigning!Largest(s)}])])[DOMAIN list]
<1>4. Assigned(c, h[i].vars, list) = First(Unassigned(h[i].vars))
  <2> HIDE DEF One, c, d
  <2>1. \A a, acc : AssignStep(c, a, acc) = One(a, acc)
    BY <1>2, Zenon DEF One
  <2> DEFINE base == Unassigned(h[i].vars)
             Does(g) == [s \in SUBSET DOMAIN list |->
                IF s = {} THEN base
                ELSE AssignStep(c, list[Assigning!Largest(s)], g[s \ {Assigning!Largest(s)}])]
             Same(g) == [s \in SUBSET DOMAIN list |->
                IF s = {} THEN base
                ELSE One(list[Assigning!Largest(s)], g[s \ {Assigning!Largest(s)}])]
  <2> HIDE DEF base
  <2>2. ASSUME NEW g
        PROVE  Does(g) = Same(g)
    BY <2>1, Zenon
  <2>3. (CHOOSE g : g = Does(g)) = (CHOOSE g : g = Same(g))
    <3> HIDE DEF Does, Same
    <3> QED
      BY <2>2, Zenon
  <2>4. Assigned(c, h[i].vars, list) = (CHOOSE g : g = Does(g))[DOMAIN list]
    BY Zenon DEF Assigned, Assigning!FromLeft, base
  <2> QED
    BY <2>3, <2>4, Zenon DEF base
<1>5. Assigned(d, h[i].truth, list) = Second(Unassigned(h[i].truth))
  <2> HIDE DEF Two, c, d
  <2>1. \A a, acc : AssignStep(d, a, acc) = Two(a, acc)
    BY <1>3, Zenon DEF Two
  <2> DEFINE base == Unassigned(h[i].truth)
             Does(g) == [s \in SUBSET DOMAIN list |->
                IF s = {} THEN base
                ELSE AssignStep(d, list[Assigning!Largest(s)], g[s \ {Assigning!Largest(s)}])]
             Same(g) == [s \in SUBSET DOMAIN list |->
                IF s = {} THEN base
                ELSE Two(list[Assigning!Largest(s)], g[s \ {Assigning!Largest(s)}])]
  <2> HIDE DEF base
  <2>2. ASSUME NEW g
        PROVE  Does(g) = Same(g)
    BY <2>1, Zenon
  <2>3. (CHOOSE g : g = Does(g)) = (CHOOSE g : g = Same(g))
    <3> HIDE DEF Does, Same
    <3> QED
      BY <2>2, Zenon
  <2>4. Assigned(d, h[i].truth, list) = (CHOOSE g : g = Does(g))[DOMAIN list]
    BY Zenon DEF Assigned, Assigning!FromLeft, base
  <2> QED
    BY <2>3, <2>4, Zenon DEF base
<1>6. AssignAll(h[i].vars, list, exported,
                LAMBDA a, n : Limited(a, n, StateBytes(h, i) - h[i].vars.bytes))
      = First(Unassigned(h[i].vars))
  BY Zenon DEF AssignAll, Unassigned, FoldLeft, MapThenFoldSet, Assigning!Largest, Max
<1>7. AssignAll(h[i].truth, list, exported, LAMBDA a, n : a)
      = Second(Unassigned(h[i].truth))
  BY Zenon DEF AssignAll, Unassigned, FoldLeft, MapThenFoldSet, Assigning!Largest, Max
<1> QED
  BY <1>4, <1>5, <1>6, <1>7, Zenon DEF Apply

\* What the assignments make of the variables and of their ghost.
WritesAll(c, d, vs, t, list) ==
  /\ Ghosted((Assigned(c, vs, list)).vs, (Assigned(d, t, list)).vs)
  /\ Written(vs, (Assigned(c, vs, list)).vs, Names(list))

\* The assignments that applyAssignments made, when none of them failed.
LEMMA AssignedIs ==
  ASSUME NEW vs, NEW t, Ghosted(vs, t), NEW exported \in BOOLEAN, NEW list \in Lists,
         NEW c, c.exported = exported, NEW d, d.exported = exported, d.limited = FALSE,
         (Assigned(c, vs, list)).error = "none"
  PROVE  WritesAll(c, d, vs, t, list)
<1> DEFINE r == Assigned(c, vs, list)
           q == Assigned(d, t, list)
           n == Len(list)
           Before(k) == {list[m].name : m \in 1 .. k}
           Good(x, y, k) == x.error = "none" =>
             y.error = "none" /\ Ghosted(x.vs, y.vs) /\ Written(vs, x.vs, Before(k))
<1>1. IsSeq(list) /\ \A k \in DOMAIN list : IsAssignment(list[k])
  BY AssignmentsAssumption
<1>2. n \in Nat /\ DOMAIN list = 1 .. n /\ list \in Seq(Range(list))
  BY <1>1, SeqDomain
<1>3. /\ Assigning!LeftSteps(c, Unassigned(vs), list)
      /\ Assigning!LeftSteps(d, Unassigned(t), list)
  BY <1>2, Assigning!LeftFold
<1>4. PICK f : /\ f[0] = Unassigned(vs)
               /\ \A k \in 1 .. n : f[k] = AssignStep(c, list[k], f[k - 1])
               /\ r = f[n]
  BY <1>3 DEF Assigning!LeftSteps, Assigned
<1>5. PICK g : /\ g[0] = Unassigned(t)
               /\ \A k \in 1 .. n : g[k] = AssignStep(d, list[k], g[k - 1])
               /\ q = g[n]
  BY <1>3 DEF Assigning!LeftSteps, Assigned
<1>6. Good(f[0], g[0], 0)
  <2>1. vs.revision \in Nat
    BY DEF Ghosted, IsVars
  <2>2. Before(0) = {}
    OBVIOUS
  <2>3. Written(vs, vs, {})
    BY <2>1, WrittenNothing
  <2>4. (f[0]).vs = vs /\ (g[0]).vs = t /\ (g[0]).error = "none"
    BY <1>4, <1>5 DEF Unassigned
  <2> HIDE DEF Before
  <2> QED
    BY <2>2, <2>3, <2>4
<1>7. ASSUME NEW k \in 1 .. n, Good(f[k - 1], g[k - 1], k - 1)
      PROVE  Good(f[k], g[k], k)
  <2> DEFINE a == list[k]
             x == f[k - 1]
             y == g[k - 1]
  <2> SUFFICES ASSUME (f[k]).error = "none"
               PROVE  (g[k]).error = "none" /\ Ghosted((f[k]).vs, (g[k]).vs)
                      /\ Written(vs, (f[k]).vs, Before(k))
    OBVIOUS
  <2>1. f[k] = AssignStep(c, a, x) /\ g[k] = AssignStep(d, a, y) /\ IsAssignment(a)
    BY <1>1, <1>2, <1>4, <1>5
  <2> HIDE DEF a, x, y
  <2>2. x.error = "none"
    BY <2>1 DEF AssignStep
  <2>3. y.error = "none" /\ Ghosted(x.vs, y.vs) /\ Written(vs, x.vs, Before(k - 1))
    BY <1>7, <2>2 DEF x, y
  <2>4. DOMAIN AssignOne(x.vs, a, exported) = {"error", "vs"}
    BY DEF AssignOne, AssignValue
  <2>5. f[k] = AssignOne(x.vs, a, exported)
    BY <2>1, <2>2, <2>4 DEF AssignStep
  <2>6. g[k] = AssignOne(y.vs, a, exported)
    BY <2>1, <2>3 DEF AssignStep
  <2>7. /\ (g[k]).error = "none" /\ Ghosted((f[k]).vs, (g[k]).vs)
        /\ Written(x.vs, (f[k]).vs, {a.name})
    <3>1. WritesOne(x.vs, y.vs, a, exported)
      BY <2>1, <2>3, <2>5, AssignOneIs
    <3> QED
      BY <2>5, <2>6, <3>1 DEF WritesOne
  <2>8. Before(k) = Before(k - 1) \cup {a.name}
    <3>1. 1 .. k = (1 .. k - 1) \cup {k}
      BY <1>2
    <3> QED
      BY <3>1 DEF a
  <2>9. vs.revision \in Nat
    BY DEF Ghosted, IsVars
  <2> HIDE DEF Before
  <2>10. Written(vs, (f[k]).vs, Before(k))
    BY <2>3, <2>7, <2>8, <2>9, WrittenTwice
  <2> QED
    BY <2>7, <2>10
<1>8. Good(f[n], g[n], n)
  <2> DEFINE Places == {k \in 0 .. n : Good(f[k], g[k], k)}
  <2> HIDE DEF Good
  <2>1. 0 \in Places
    BY <1>2, <1>6
  <2>2. ASSUME NEW k \in 1 .. n, k - 1 \in Places
        PROVE  k \in Places
    BY <1>2, <1>7, <2>2
  <2> HIDE DEF Places
  <2>3. n \in Places
    BY <1>2, <2>1, <2>2, CountUp
  <2> QED
    BY <2>3 DEF Places
<1>9. Names(list) = Before(n)
  BY <1>2 DEF Names
<1> QED
  BY <1>4, <1>5, <1>8, <1>9 DEF WritesAll

\* New variables and a new ghost of a state, of which these names were written.
SetTo(h, i, a, b) == [h EXCEPT ![i].vars = a, ![i].truth = b]
Rewritten(h, i, a, b, names) == Ghosted(a, b) /\ Written(h[i].vars, a, names)
Applies(h, i, list, r) ==
  /\ r.error # "none" => r.h = h
  /\ r.error = "none" =>
       \E vs, t : r.h = SetTo(h, i, vs, t) /\ Rewritten(h, i, vs, t, Names(list))
\* What assignments do to the states: nothing if one of them fails.
LEMMA ApplyIs ==
  ASSUME NEW h, NEW i \in DOMAIN h, IsState(h[i]), NEW list \in Lists,
         NEW exported \in BOOLEAN
  PROVE  Applies(h, i, list, Apply(h, i, list, exported))
<1> DEFINE r == Apply(h, i, list, exported)
           c == Limits(h, i, exported, TRUE)
           d == Limits(h, i, exported, FALSE)
           x == Assigned(c, h[i].vars, list)
           y == Assigned(d, h[i].truth, list)
<1>1. /\ c.exported = exported /\ d.exported = exported /\ d.limited = FALSE
  BY DEF Limits
<1>2. r = [error |-> x.error,
           h |-> IF x.error # "none" THEN h ELSE [h EXCEPT ![i].vars = x.vs, ![i].truth = y.vs]]
  BY AssignAllIs, Zenon
<1>3. Ghosted(h[i].vars, h[i].truth)
  BY DEF IsState, Ghosted
<1> HIDE DEF r, c, d
<1>4. x.error = "none" => Ghosted(x.vs, y.vs) /\ Written(h[i].vars, x.vs, Names(list))
  <2>1. x.error = "none" => WritesAll(c, d, h[i].vars, h[i].truth, list)
    BY <1>1, <1>3, AssignedIs
  <2> QED
    BY <2>1 DEF WritesAll
<1> HIDE DEF x, y
<1> DEFINE new == SetTo(h, i, x.vs, y.vs)
<1>5. r.error = x.error /\ r.h = IF x.error # "none" THEN h ELSE new
  <2> HIDE DEF new
  <2> QED
    BY <1>2 DEF new, SetTo
<1>6. CASE x.error # "none"
  BY <1>5, <1>6 DEF Applies, r
<1>7. CASE x.error = "none"
  <2>1. r.error = "none" /\ r.h = new
    BY <1>5, <1>7
  <2>2. Rewritten(h, i, x.vs, y.vs, Names(list))
    BY <1>4, <1>7 DEF Rewritten
  <2> QED
    BY <2>1, <2>2 DEF Applies, r
<1> QED
  BY <1>6, <1>7

-------------------------------------------------------------------------------
(* What steps make of a state. *)

\* A state after some steps.  A name that no count says was written is as it
\* was; one that was written, and not by a temporary assignment, has a version
\* that there was not before.
Later(s, u) ==
  /\ u.vars.revision >= s.vars.revision
  /\ \A n \in Name :
       /\ NotBefore(u, n, s.written[n], s.renewed[n])
       /\ Untouched(u, n, s.written, s.renewed) =>
            Entry(u.vars, n) = Entry(s.vars, n) /\ Version(u.vars, n) = Version(s.vars, n)
       /\ u.written[n] # s.written[n] /\ u.renewed[n] = s.renewed[n] =>
            Version(u.vars, n) > s.vars.revision
\* The states after some steps, of which only these were changed.
Evolves(h, g, touched) ==
  /\ IsHeap(h) /\ IsHeap(g) /\ Len(h) <= Len(g)
  /\ \A j \in DOMAIN h : Later(h[j], g[j]) /\ (j \notin touched => g[j] = h[j])

\* Counting names.
LEMMA CountIs ==
  ASSUME NEW f \in Counts, NEW names
  PROVE  /\ Count(f, names) \in Counts
         /\ \A n \in Name : Count(f, names)[n] = IF n \in names THEN f[n] + 1 ELSE f[n]
  BY DEF Count, Counts

\* No step.
LEMMA LaterSame ==
  ASSUME NEW s, IsState(s)
  PROVE  Later(s, s)
<1>1. s.vars.revision \in Nat /\ s.written \in Counts /\ s.renewed \in Counts
  BY DEF IsState, IsVars
<1> QED
  BY <1>1 DEF Later, NotBefore, Counts

\* A step that counts the names it writes, or more of them as renewed.
CountsWrites(s, u, names, more) ==
  /\ Written(s.vars, u.vars, names) /\ names \subseteq more
  /\ \/ u.written = s.written /\ u.renewed = Count(s.renewed, more)
     \/ u.renewed = s.renewed /\ u.written = Count(s.written, names)
\* A state after such a step is a later one.
LEMMA LaterWritten ==
  ASSUME NEW s, IsState(s), NEW u, NEW names, NEW more, CountsWrites(s, u, names, more)
  PROVE  Later(s, u) /\ u.written \in Counts /\ u.renewed \in Counts
<1>0. /\ Written(s.vars, u.vars, names) /\ names \subseteq more
      /\ \/ u.written = s.written /\ u.renewed = Count(s.renewed, more)
         \/ u.renewed = s.renewed /\ u.written = Count(s.written, names)
  BY DEF CountsWrites
<1>1. s.vars.revision \in Nat /\ s.written \in Counts /\ s.renewed \in Counts
  BY DEF IsState, IsVars
<1>2. u.written \in Counts /\ u.renewed \in Counts
  BY <1>0, <1>1, CountIs
<1>3. ASSUME NEW n \in Name
      PROVE  /\ NotBefore(u, n, s.written[n], s.renewed[n])
             /\ Untouched(u, n, s.written, s.renewed) =>
                  Entry(u.vars, n) = Entry(s.vars, n) /\ Version(u.vars, n) = Version(s.vars, n)
             /\ u.written[n] # s.written[n] /\ u.renewed[n] = s.renewed[n] =>
                  Version(u.vars, n) > s.vars.revision
  <2>1. s.written[n] \in Nat /\ s.renewed[n] \in Nat
    BY <1>1 DEF Counts
  <2>2. \/ /\ u.written[n] = s.written[n]
           /\ u.renewed[n] = IF n \in more THEN s.renewed[n] + 1 ELSE s.renewed[n]
        \/ /\ u.renewed[n] = s.renewed[n]
           /\ u.written[n] = IF n \in names THEN s.written[n] + 1 ELSE s.written[n]
    BY <1>0, <1>1, CountIs
  <2>3. CASE n \in names
    <3>1. Version(u.vars, n) \in s.vars.revision + 1 .. u.vars.revision /\ u.vars.revision \in Nat
      BY <1>0, <2>3 DEF Written
    <3>2. Version(u.vars, n) > s.vars.revision
      BY <1>1, <3>1
    <3>3. n \in more
      BY <1>0, <2>3
    <3> QED
      BY <2>1, <2>2, <2>3, <3>2, <3>3 DEF NotBefore, Untouched
  <2>4. CASE n \notin names
    <3>1. Entry(u.vars, n) = Entry(s.vars, n) /\ Version(u.vars, n) = Version(s.vars, n)
      BY <1>0, <2>4 DEF Written
    <3> QED
      BY <2>1, <2>2, <2>4, <3>1 DEF NotBefore, Untouched
  <2> QED
    BY <2>3, <2>4
<1>4. u.vars.revision >= s.vars.revision
  BY <1>0 DEF Written
<1> QED
  BY <1>2, <1>3, <1>4 DEF Later

\* A step of which the variables do not take part.
LEMMA LaterSameVars ==
  ASSUME NEW s, IsState(s), NEW u, u.vars = s.vars, u.written = s.written,
         u.renewed = s.renewed
  PROVE  Later(s, u)
<1>1. s.vars.revision \in Nat /\ s.written \in Counts /\ s.renewed \in Counts
  BY DEF IsState, IsVars
<1> QED
  BY <1>1 DEF Later, NotBefore, Counts

\* One state that is changed.
Edited(h, g, i, u) == Evolves(h, g, {i}) /\ Len(g) = Len(h) /\ g[i] = u
\* Replacing a state by a later one does that.
LEMMA EvolvesOne ==
  ASSUME NEW h, IsHeap(h), NEW i \in DOMAIN h, NEW u, IsState(u), Later(h[i], u),
         u.failure <= Len(h), NEW g, g = [h EXCEPT ![i] = u]
  PROVE  Edited(h, g, i, u)
<1>1. IsSeq(h) /\ Len(h) \in Nat
  BY SeqDomain DEF IsHeap
<1>2. /\ IsSeq(g) /\ Len(g) = Len(h) /\ g[i] = u
      /\ \A j \in DOMAIN h : j # i => g[j] = h[j]
  <2>1. /\ IsSeq([h EXCEPT ![i] = u]) /\ Len([h EXCEPT ![i] = u]) = Len(h)
        /\ [h EXCEPT ![i] = u][i] = u
        /\ \A j \in DOMAIN h : j # i => [h EXCEPT ![i] = u][j] = h[j]
    BY <1>1, ExceptIs
  <2> QED
    BY <2>1
<1>3. DOMAIN g = DOMAIN h
  OBVIOUS
<1>4. \A j \in DOMAIN h : Later(h[j], g[j])
  BY <1>2, LaterSame DEF IsHeap
<1>5. IsHeap(g)
  BY <1>2, <1>3 DEF IsHeap
<1> QED
  BY <1>1, <1>2, <1>4, <1>5 DEF Evolves, Edited

\* No state that is changed.
LEMMA EvolvesNone ==
  ASSUME NEW h, IsHeap(h)
  PROVE  Evolves(h, h, {})
<1>1. Len(h) \in Nat /\ \A j \in DOMAIN h : Later(h[j], h[j])
  BY SeqDomain, LaterSame DEF IsHeap
<1> QED
  BY <1>1 DEF Evolves

-------------------------------------------------------------------------------
(* Writes of several names, one after the other. *)

\* restoreSavedAssignments puts one name back, unless the command wrote it.
Kept(saved, always, current, n) ==
  ~always /\ saved[n].applied # 0 /\ Version(current, n) # saved[n].applied
RestoreStep(c, n, acc) ==
  IF Kept(c.saved, c.always, c.current, n) THEN acc
  ELSE PutBack(acc, n, IF c.truth THEN c.saved[n].truth ELSE c.saved[n].entry)
Restoring == INSTANCE FoldsProofs WITH FoldStep <- RestoreStep
RestoreContext(saved, always, current, truth) ==
  [saved |-> saved, always |-> always, current |-> current, truth |-> truth]

\* RestoreNames takes these steps.
LEMMA RestoreFold ==
  ASSUME NEW vs, NEW saved, NEW always, NEW current, NEW truth
  PROVE  RestoreNames(vs, saved, always, current, truth) =
           Restoring!OverSet(RestoreContext(saved, always, current, truth), vs, DOMAIN saved)
<1> DEFINE c == RestoreContext(saved, always, current, truth)
           Step(n, acc) ==
             IF ~always /\ saved[n].applied # 0 /\ Version(current, n) # saved[n].applied
             THEN acc ELSE PutBack(acc, n, IF truth THEN saved[n].truth ELSE saved[n].entry)
           Some(s) == Restoring!SomeOf(s)
           Does(g) == [s \in SUBSET DOMAIN saved |->
             IF s = {} THEN vs ELSE RestoreStep(c, Some(s), g[s \ {Some(s)}])]
           Same(g) == [s \in SUBSET DOMAIN saved |->
             IF s = {} THEN vs ELSE Step(Some(s), g[s \ {Some(s)}])]
<1>1. c.saved = saved /\ c.always = always /\ c.current = current /\ c.truth = truth
  BY DEF RestoreContext
<1>2. \A n, acc : RestoreStep(c, n, acc) = Step(n, acc)
  <2> HIDE DEF c
  <2> QED
    BY <1>1 DEF RestoreStep, Kept
<1>3. RestoreNames(vs, saved, always, current, truth) = (CHOOSE g : g = Same(g))[DOMAIN saved]
  BY Zenon DEF RestoreNames, FoldSet, MapThenFoldSet, Restoring!SomeOf
<1>4. Restoring!OverSet(c, vs, DOMAIN saved) = (CHOOSE g : g = Does(g))[DOMAIN saved]
  BY Zenon DEF Restoring!OverSet
<1>5. ASSUME NEW g
      PROVE  Does(g) = Same(g)
  <2> HIDE DEF c, Step
  <2> QED
    BY <1>2, Zenon
<1>6. (CHOOSE g : g = Does(g)) = (CHOOSE g : g = Same(g))
  <2> HIDE DEF Does, Same
  <2> QED
    BY <1>5, Zenon
<1> QED
  BY <1>3, <1>4, <1>6, Zenon

\* What is restored of the variables and of their ghost: what was saved of
\* each name, but those the command wrote.
Restored(vs, t, saved, always, current) ==
  LET a == RestoreNames(vs, saved, always, current, FALSE)
      names == {n \in DOMAIN saved : ~Kept(saved, always, current, n)}
  IN /\ Ghosted(a, RestoreNames(t, saved, always, current, TRUE))
     /\ Written(vs, a, names)
     /\ \A n \in names : Entry(a, n) = saved[n].entry
\* RestoreNames, on the variables and on the ghost, does that.
LEMMA RestoreNamesIs ==
  ASSUME NEW vs, NEW t, Ghosted(vs, t), NEW saved, IsSaved(saved), NEW always, NEW current
  PROVE  Restored(vs, t, saved, always, current)
<1> DEFINE c == RestoreContext(saved, always, current, FALSE)
           d == RestoreContext(saved, always, current, TRUE)
           D == DOMAIN saved
           K(n) == Kept(saved, always, current, n)
           P(x, y, s) == /\ Ghosted(x, y) /\ Written(vs, x, {n \in s : ~K(n)})
                         /\ \A n \in s : ~K(n) => Entry(x, n) = saved[n].entry
           Some(s) == Restoring!SomeOf(s)
<1>1. /\ c.saved = saved /\ c.always = always /\ c.current = current /\ c.truth = FALSE
      /\ d.saved = saved /\ d.always = always /\ d.current = current /\ d.truth = TRUE
  BY DEF RestoreContext
<1> HIDE DEF c, d
<1>2. IsFiniteSet(D) /\ D \subseteq Name
  BY DEF IsSaved
<1>3. Restoring!SetSteps(c, vs, D) /\ Restoring!SetSteps(d, t, D)
  <2>1. Restoring!IsFiniteSet(D)
    BY <1>2 DEF IsFiniteSet, Restoring!IsFiniteSet
  <2> QED
    BY <2>1, Restoring!SetFold
<1>4. PICK g : /\ g[{}] = vs
               /\ \A s \in SUBSET D : s # {} =>
                    Some(s) \in s /\ g[s] = RestoreStep(c, Some(s), g[s \ {Some(s)}])
               /\ Restoring!OverSet(c, vs, D) = g[D]
  BY <1>3 DEF Restoring!SetSteps
<1>5. PICK h : /\ h[{}] = t
               /\ \A s \in SUBSET D : s # {} =>
                    Some(s) \in s /\ h[s] = RestoreStep(d, Some(s), h[s \ {Some(s)}])
               /\ Restoring!OverSet(d, t, D) = h[D]
  BY <1>3 DEF Restoring!SetSteps
<1>6. vs.revision \in Nat
  BY DEF Ghosted, IsVars
<1>7. P(g[{}], h[{}], {})
  <2>1. {n \in {} : ~K(n)} = {}
    OBVIOUS
  <2> QED
    BY <1>4, <1>5, <1>6, <2>1, WrittenNothing
<1>8. ASSUME NEW s \in SUBSET D, s # {}, NEW n, n = Some(s), n \in s,
             P(g[s \ {n}], h[s \ {n}], s \ {n})
      PROVE  P(g[s], h[s], s)
  <2> DEFINE r == s \ {n}
             x == g[r]
             y == h[r]
  <2>1. g[s] = RestoreStep(c, n, x) /\ h[s] = RestoreStep(d, n, y) /\ n \in Name
    BY <1>2, <1>4, <1>5, <1>8
  <2>2. P(x, y, r)
    BY <1>8
  <2> HIDE DEF x, y
  <2>3. CASE K(n)
    <3>1. g[s] = x /\ h[s] = y
      BY <1>1, <2>1, <2>3 DEF RestoreStep
    <3>2. {m \in s : ~K(m)} = {m \in r : ~K(m)}
      BY <2>3
    <3>3. \A m \in s : ~K(m) => m \in r
      BY <2>3
    <3> QED
      BY <2>2, <3>1, <3>2, <3>3
  <2>4. CASE ~K(n)
    <3> DEFINE e == saved[n].entry
               f == saved[n].truth
    <3>1. g[s] = PutBack(x, n, e) /\ h[s] = PutBack(y, n, f)
      BY <1>1, <2>1, <2>4 DEF RestoreStep
    <3>2. IsEntry(e) /\ AgreeingEntries(e, f)
      BY <1>8 DEF IsSaved
    <3> HIDE DEF e, f
    <3>3. Ghosted(x, y)
      BY <2>2
    <3>4. Ghosted(g[s], h[s])
      BY <2>1, <3>1, <3>2, <3>3, PutBackGhosted
    <3>5. Sets(g[s], x, n, e)
      BY <3>1, <3>2, PutBackSets
    <3>6. x.revision \in Nat
      BY <3>3 DEF Ghosted, IsVars
    <3>7. Written(x, g[s], {n})
      BY <3>5, <3>6, WrittenOnce
    <3>8. {m \in s : ~K(m)} = {m \in r : ~K(m)} \cup {n}
      BY <1>8, <2>4
    <3>9. Written(vs, g[s], {m \in s : ~K(m)})
      BY <1>6, <2>2, <3>7, <3>8, WrittenTwice
    <3>10. \A m \in s : ~K(m) => Entry(g[s], m) = saved[m].entry
      BY <2>2, <3>5 DEF Sets, e
    <3> QED
      BY <3>4, <3>9, <3>10
  <2> QED
    BY <2>3, <2>4
<1>9. P(g[D], h[D], D)
  <2> DEFINE Good == {s \in SUBSET D : P(g[s], h[s], s)}
  <2> HIDE DEF P
  <2>1. {} \in Good
    BY <1>7
  <2>2. ASSUME NEW s \in SUBSET D, s # {}, \A x \in s : s \ {x} \in Good
        PROVE  s \in Good
    <3>1. Some(s) \in s
      BY <1>4, <2>2
    <3>2. P(g[s \ {Some(s)}], h[s \ {Some(s)}], s \ {Some(s)})
      BY <2>2, <3>1
    <3> QED
      BY <1>8, <2>2, <3>1, <3>2
  <2> HIDE DEF Good
  <2>3. D \in Good
    BY <1>2, <2>1, <2>2, AddUp
  <2> QED
    BY <2>3 DEF Good
<1>10. /\ RestoreNames(vs, saved, always, current, FALSE) = g[D]
       /\ RestoreNames(t, saved, always, current, TRUE) = h[D]
  BY <1>4, <1>5, RestoreFold DEF c, d
<1> QED
  BY <1>9, <1>10 DEF Restored

\* Names that are no longer exported (clearExported).
HideStep(c, n, acc) ==
  Put(acc, n, [Lookup(acc, n) EXCEPT !.exported = FALSE], Unknown(acc, n), Slots(acc, n))
Hiding == INSTANCE FoldsProofs WITH FoldStep <- HideStep
Hidden(vs, names) ==
  FoldSet(LAMBDA n, acc :
            Put(acc, n, [Lookup(acc, n) EXCEPT !.exported = FALSE],
                Unknown(acc, n), Slots(acc, n)), vs, names)

\* Names that are unset (env -i).
ClearStep(c, n, acc) == Delete(acc, n)
Clearing == INSTANCE FoldsProofs WITH FoldStep <- ClearStep
Cleared(vs, names) == FoldSet(LAMBDA m, acc : Delete(acc, m), vs, names)

\* Both take one name after the other.
LEMMA FoldsOfNames ==
  ASSUME NEW vs, NEW names
  PROVE  /\ Hidden(vs, names) = Hiding!OverSet(0, vs, names)
         /\ Cleared(vs, names) = Clearing!OverSet(0, vs, names)
<1>1. Hidden(vs, names) = Hiding!OverSet(0, vs, names)
  BY Zenon DEF Hidden, FoldSet, MapThenFoldSet, Hiding!OverSet, Hiding!SomeOf, HideStep
<1>2. Cleared(vs, names) = Clearing!OverSet(0, vs, names)
  BY Zenon DEF Cleared, FoldSet, MapThenFoldSet, Clearing!OverSet, Clearing!SomeOf, ClearStep
<1> QED
  BY <1>1, <1>2

\* One of these steps.
LEMMA HideOnce ==
  ASSUME NEW x, NEW y, Ghosted(x, y), NEW n \in Name
  PROVE  Ghosted(HideStep(0, n, x), HideStep(0, n, y)) /\ Written(x, HideStep(0, n, x), {n})
<1> DEFINE v == Lookup(x, n)
           w == Lookup(y, n)
           a == [v EXCEPT !.exported = FALSE]
           b == [w EXCEPT !.exported = FALSE]
<1>1. /\ IsValue(v) /\ IsValue(w) /\ Shape(w) = Shape(v)
      /\ ~Unknown(x, n) => w = v /\ Slots(y, n) = Slots(x, n)
      /\ Unknown(x, n) \in BOOLEAN /\ Unknown(y, n) \in BOOLEAN /\ x.revision \in Nat
  BY LookupIs DEF Ghosted, IsVars, Agrees, Unknown
<1>2. /\ DOMAIN v = {"kind", "str", "list", "map", "set", "exported", "readonly"}
      /\ DOMAIN w = {"kind", "str", "list", "map", "set", "exported", "readonly"}
  BY <1>1, ValueIs
<1> HIDE DEF v, w
<1>3. /\ DOMAIN a = {"kind", "str", "list", "map", "set", "exported", "readonly"}
      /\ a.str = v.str /\ a.list = v.list /\ a.map = v.map
      /\ DOMAIN b = {"kind", "str", "list", "map", "set", "exported", "readonly"}
      /\ b.str = w.str /\ b.list = w.list /\ b.map = w.map
      /\ Shape(b) = Shape(a)
  BY <1>1, <1>2 DEF Shape
<1>4. IsValue(a) /\ IsValue(b) /\ (w = v => b = a)
  BY <1>1, <1>3, ValueIs
<1> HIDE DEF a, b
<1>5. /\ HideStep(0, n, x) = Put(x, n, a, Unknown(x, n), Slots(x, n))
      /\ HideStep(0, n, y) = Put(y, n, b, Unknown(y, n), Slots(y, n))
  BY DEF HideStep, a, b, v, w
<1>6. Ghosted(HideStep(0, n, x), HideStep(0, n, y))
  BY <1>1, <1>3, <1>4, <1>5, PutGhosted
<1>7. Sets(HideStep(0, n, x), x, n, NewEntry(a, Unknown(x, n), Slots(x, n)))
  BY <1>1, <1>5, PutSets
<1> QED
  BY <1>1, <1>6, <1>7, WrittenOnce

\* Clearing a name writes that name only, in the variables and in their ghost.
LEMMA ClearOnce ==
  ASSUME NEW x, NEW y, Ghosted(x, y), NEW n \in Name
  PROVE  Ghosted(ClearStep(0, n, x), ClearStep(0, n, y)) /\ Written(x, ClearStep(0, n, x), {n})
<1>1. Ghosted(ClearStep(0, n, x), ClearStep(0, n, y))
  BY DeleteGhosted DEF ClearStep
<1>2. Sets(ClearStep(0, n, x), x, n, NoEntry)
  BY DeleteSets DEF ClearStep
<1>3. x.revision \in Nat
  BY DEF Ghosted, IsVars
<1> QED
  BY <1>1, <1>2, <1>3, WrittenOnce

\* All of them.
LEMMA HiddenIs ==
  ASSUME NEW vs, NEW t, Ghosted(vs, t), NEW S, IsFiniteSet(S), S \subseteq Name
  PROVE  Ghosted(Hidden(vs, S), Hidden(t, S)) /\ Written(vs, Hidden(vs, S), S)
<1> DEFINE P(x, y, s) == Ghosted(x, y) /\ Written(vs, x, s)
           Some(s) == Hiding!SomeOf(s)
<1>1. Hiding!SetSteps(0, vs, S) /\ Hiding!SetSteps(0, t, S)
  <2>1. Hiding!IsFiniteSet(S)
    BY DEF IsFiniteSet, Hiding!IsFiniteSet
  <2> QED
    BY <2>1, Hiding!SetFold
<1>2. PICK g : /\ g[{}] = vs
               /\ \A s \in SUBSET S : s # {} =>
                    Some(s) \in s /\ g[s] = HideStep(0, Some(s), g[s \ {Some(s)}])
               /\ Hiding!OverSet(0, vs, S) = g[S]
  BY <1>1 DEF Hiding!SetSteps
<1>3. PICK h : /\ h[{}] = t
               /\ \A s \in SUBSET S : s # {} =>
                    Some(s) \in s /\ h[s] = HideStep(0, Some(s), h[s \ {Some(s)}])
               /\ Hiding!OverSet(0, t, S) = h[S]
  BY <1>1 DEF Hiding!SetSteps
<1>4. vs.revision \in Nat
  BY DEF Ghosted, IsVars
<1> DEFINE Good == {s \in SUBSET S : P(g[s], h[s], s)}
<1>5. {} \in Good
  BY <1>2, <1>3, <1>4, WrittenNothing
<1>6. ASSUME NEW s \in SUBSET S, s # {}, \A x \in s : s \ {x} \in Good
      PROVE  s \in Good
  <2> DEFINE n == Some(s)
             x == g[s \ {n}]
             y == h[s \ {n}]
  <2>1. /\ n \in s /\ n \in Name
        /\ g[s] = HideStep(0, n, x) /\ h[s] = HideStep(0, n, y)
    BY <1>2, <1>3, <1>6
  <2>2. P(x, y, s \ {n})
    BY <1>6, <2>1
  <2>3. (s \ {n}) \cup {n} = s
    BY <2>1
  <2> HIDE DEF n, x, y
  <2>4. Ghosted(g[s], h[s]) /\ Written(x, g[s], {n})
    BY <2>1, <2>2, HideOnce
  <2>5. Written(vs, g[s], s)
    BY <1>4, <2>2, <2>3, <2>4, WrittenTwice
  <2> QED
    BY <2>4, <2>5
<1> HIDE DEF Good
<1>7. S \in Good
  BY <1>5, <1>6, AddUp
<1> QED
  BY <1>2, <1>3, <1>7, FoldsOfNames DEF Good

\* Clearing names writes those names only, in the variables and in their ghost.
LEMMA ClearedIs ==
  ASSUME NEW vs, NEW t, Ghosted(vs, t), NEW S, IsFiniteSet(S), S \subseteq Name
  PROVE  Ghosted(Cleared(vs, S), Cleared(t, S)) /\ Written(vs, Cleared(vs, S), S)
<1> DEFINE P(x, y, s) == Ghosted(x, y) /\ Written(vs, x, s)
           Some(s) == Clearing!SomeOf(s)
<1>1. Clearing!SetSteps(0, vs, S) /\ Clearing!SetSteps(0, t, S)
  <2>1. Clearing!IsFiniteSet(S)
    BY DEF IsFiniteSet, Clearing!IsFiniteSet
  <2> QED
    BY <2>1, Clearing!SetFold
<1>2. PICK g : /\ g[{}] = vs
               /\ \A s \in SUBSET S : s # {} =>
                    Some(s) \in s /\ g[s] = ClearStep(0, Some(s), g[s \ {Some(s)}])
               /\ Clearing!OverSet(0, vs, S) = g[S]
  BY <1>1 DEF Clearing!SetSteps
<1>3. PICK h : /\ h[{}] = t
               /\ \A s \in SUBSET S : s # {} =>
                    Some(s) \in s /\ h[s] = ClearStep(0, Some(s), h[s \ {Some(s)}])
               /\ Clearing!OverSet(0, t, S) = h[S]
  BY <1>1 DEF Clearing!SetSteps
<1>4. vs.revision \in Nat
  BY DEF Ghosted, IsVars
<1> DEFINE Good == {s \in SUBSET S : P(g[s], h[s], s)}
<1>5. {} \in Good
  BY <1>2, <1>3, <1>4, WrittenNothing
<1>6. ASSUME NEW s \in SUBSET S, s # {}, \A x \in s : s \ {x} \in Good
      PROVE  s \in Good
  <2> DEFINE n == Some(s)
             x == g[s \ {n}]
             y == h[s \ {n}]
  <2>1. /\ n \in s /\ n \in Name
        /\ g[s] = ClearStep(0, n, x) /\ h[s] = ClearStep(0, n, y)
    BY <1>2, <1>3, <1>6
  <2>2. P(x, y, s \ {n})
    BY <1>6, <2>1
  <2>3. (s \ {n}) \cup {n} = s
    BY <2>1
  <2> HIDE DEF n, x, y
  <2>4. Ghosted(g[s], h[s]) /\ Written(x, g[s], {n})
    BY <2>1, <2>2, ClearOnce
  <2>5. Written(vs, g[s], s)
    BY <1>4, <2>2, <2>3, <2>4, WrittenTwice
  <2> QED
    BY <2>4, <2>5
<1> HIDE DEF Good
<1>7. S \in Good
  BY <1>5, <1>6, AddUp
<1> QED
  BY <1>2, <1>3, <1>7, FoldsOfNames DEF Good

-------------------------------------------------------------------------------
(* What operations make of the states. *)

\* A state is what its fields are.
LEMMA StateIs ==
  ASSUME NEW s
  PROVE  IsState(s) <=>
           /\ DOMAIN s = {"vars", "truth", "other", "failure", "written", "renewed"}
           /\ Ghosted(s.vars, s.truth) /\ s.other \in Nat /\ s.failure \in Nat
           /\ s.written \in Counts /\ s.renewed \in Counts
  BY DEF IsState, Ghosted

\* Names that are written in one state, and counted.
LEMMA OneState ==
  ASSUME NEW h, IsHeap(h), NEW i \in DOMAIN h, NEW u, DOMAIN u = DOMAIN h[i],
         Ghosted(u.vars, u.truth), u.other \in Nat, u.failure \in 0 .. Len(h),
         NEW names, NEW more, CountsWrites(h[i], u, names, more),
         NEW g, g = [h EXCEPT ![i] = u]
  PROVE  Edited(h, g, i, u)
<1>1. IsState(h[i]) /\ Len(h) \in Nat
  BY SeqDomain DEF IsHeap
<1>2. Later(h[i], u) /\ u.written \in Counts /\ u.renewed \in Counts
  BY <1>1, LaterWritten
<1>3. IsState(u) /\ u.failure <= Len(h)
  BY <1>1, <1>2, StateIs
<1> QED
  BY <1>2, <1>3, EvolvesOne

\* Only this state was changed; it has no failure any more.
Completes(h, g, i) ==
  /\ Evolves(h, g, {i}) /\ Len(g) = Len(h)
  /\ g[i].failure = None /\ g[i].other = h[i].other
Extends(h, g, i) ==
  /\ Evolves(h, g, {i}) /\ Len(g) = Len(h)
  /\ g[i].failure = h[i].failure /\ g[i].other = h[i].other

\* A state of which only its failure changes.
LEMMA NoVariable ==
  ASSUME NEW h, IsHeap(h), NEW i \in DOMAIN h,
         NEW g, g = [h EXCEPT ![i].failure = None]
  PROVE  Completes(h, g, i)
<1> DEFINE u == [h[i] EXCEPT !.failure = None]
<1>1. IsState(h[i]) /\ Len(h) \in Nat
  BY SeqDomain DEF IsHeap
<1>2. /\ DOMAIN u = DOMAIN h[i] /\ u.failure = None /\ u.other = h[i].other
      /\ u.vars = h[i].vars /\ u.truth = h[i].truth
      /\ u.written = h[i].written /\ u.renewed = h[i].renewed
  BY <1>1, StateIs
<1>3. g = [h EXCEPT ![i] = u]
  OBVIOUS
<1> HIDE DEF u
<1>4. None \in Nat /\ None <= Len(h)
  BY <1>1 DEF None
<1>5. IsState(u)
  BY <1>1, <1>2, <1>4, StateIs
<1>6. Later(h[i], u)
  BY <1>1, <1>2, LaterSameVars
<1>7. Edited(h, g, i, u)
  BY <1>2, <1>3, <1>4, <1>5, <1>6, EvolvesOne
<1> QED
  BY <1>2, <1>7 DEF Edited, Completes

\* A statement that assigns.
LEMMA Assigns ==
  ASSUME NEW h, IsHeap(h), NEW i \in DOMAIN h, NEW a, NEW b,
         NEW names, Rewritten(h, i, a, b, names),
         NEW g, g = [SetTo(h, i, a, b) EXCEPT ![i].failure = None, ![i].written = Count(@, names)]
  PROVE  Completes(h, g, i)
<1> DEFINE u == [h[i] EXCEPT !.vars = a, !.truth = b, !.failure = None,
                             !.written = Count(h[i].written, names)]
<1>1. IsState(h[i]) /\ Len(h) \in Nat
  BY SeqDomain DEF IsHeap
<1>2. /\ DOMAIN u = DOMAIN h[i] /\ u.failure = None /\ u.other = h[i].other
      /\ u.vars = a /\ u.truth = b
      /\ u.written = Count(h[i].written, names) /\ u.renewed = h[i].renewed
      /\ u.other \in Nat
  BY <1>1, StateIs
<1>3. g = [h EXCEPT ![i] = u]
  BY DEF SetTo
<1> HIDE DEF u
<1>4. u.failure \in 0 .. Len(h)
  BY <1>1, <1>2 DEF None
<1>5. CountsWrites(h[i], u, names, names)
  BY <1>2 DEF CountsWrites, Rewritten
<1>60. Ghosted(u.vars, u.truth)
  BY <1>2 DEF Rewritten
<1>6. Edited(h, g, i, u)
  BY <1>2, <1>3, <1>4, <1>5, <1>60, OneState
<1> QED
  BY <1>2, <1>6 DEF Edited, Completes

\* Temporary assignments, or what env changes.
LEMMA Renews ==
  ASSUME NEW h, IsHeap(h), NEW i \in DOMAIN h, NEW a, NEW b,
         NEW names, Rewritten(h, i, a, b, names),
         NEW g, g = [SetTo(h, i, a, b) EXCEPT ![i].renewed = Count(@, names)]
  PROVE  /\ Extends(h, g, i)
         /\ g[i].vars = a /\ (SetTo(h, i, a, b))[i].vars = a /\ g[i].renewed = Count(h[i].renewed, names)
         /\ g[i].written = h[i].written
<1> DEFINE u == [h[i] EXCEPT !.vars = a, !.truth = b,
                             !.renewed = Count(h[i].renewed, names)]
<1>1. IsState(h[i]) /\ Len(h) \in Nat /\ h[i].failure <= Len(h)
  BY SeqDomain DEF IsHeap
<1>2. /\ DOMAIN u = DOMAIN h[i] /\ u.failure = h[i].failure /\ u.other = h[i].other
      /\ u.vars = a /\ u.truth = b
      /\ u.renewed = Count(h[i].renewed, names) /\ u.written = h[i].written
      /\ u.other \in Nat /\ u.failure \in Nat
  BY <1>1, StateIs
<1>3. g = [h EXCEPT ![i] = u]
  BY DEF SetTo
<1>30. (SetTo(h, i, a, b))[i].vars = a
  BY <1>1, StateIs DEF SetTo
<1> HIDE DEF u
<1>4. u.failure \in 0 .. Len(h)
  BY <1>1, <1>2
<1>5. CountsWrites(h[i], u, names, names)
  BY <1>2 DEF CountsWrites, Rewritten
<1>60. Ghosted(u.vars, u.truth)
  BY <1>2 DEF Rewritten
<1>6. Edited(h, g, i, u)
  BY <1>2, <1>3, <1>4, <1>5, <1>60, OneState
<1> QED
  BY <1>2, <1>30, <1>6 DEF Edited, Extends

\* A write or an unset by a builtin, which the memory limit may refuse.
LEMMA Writes ==
  ASSUME NEW h, IsHeap(h), NEW i \in DOMAIN h, NEW a, NEW b,
         NEW n, Rewritten(h, i, a, b, {n}),
         NEW r, r = h \/ r = SetTo(h, i, a, b),
         NEW g, g = [r EXCEPT ![i].failure = None,
                              ![i].written = IF r = h THEN @ ELSE Count(@, {n})]
  PROVE  Completes(h, g, i)
<1>1. CASE r = h
  <2>1. g = [h EXCEPT ![i].failure = None, ![i].written = h[i].written]
    BY <1>1 DEF IsHeap, IsState
  <2>2. [h EXCEPT ![i].failure = None, ![i].written = h[i].written]
        = [h EXCEPT ![i].failure = None]
    BY DEF IsHeap, IsState
  <2>3. g = [h EXCEPT ![i].failure = None]
    BY <2>1, <2>2
  <2> QED
    BY <2>3, NoVariable
<1>2. CASE r # h
  <2>1. g = [SetTo(h, i, a, b) EXCEPT ![i].failure = None, ![i].written = Count(@, {n})]
    BY <1>2
  <2> DEFINE names == {n}
             x == SetTo(h, i, a, b)
  <2>2. /\ Rewritten(h, i, a, b, names) /\ x = SetTo(h, i, a, b)
        /\ g = [x EXCEPT ![i].failure = None, ![i].written = Count(@, names)]
    BY <2>1
  <2> HIDE DEF names, x
  <2> QED
    BY ONLY IsHeap(h), i \in DOMAIN h, <2>2, Assigns
<1> QED
  BY <1>1, <1>2

\* The end of temporary assignments in one state.
Ended(s, saved, always, u) ==
  /\ IsState(u) /\ Later(s, u) /\ u.failure = s.failure /\ u.other = s.other
  /\ \A n \in DOMAIN saved :
       Entry(u.vars, n) = IF Kept(saved, always, s.vars, n) THEN Entry(s.vars, n)
                          ELSE saved[n].entry
\* restoreSavedAssignments ends them in a state.
LEMMA RestoresState ==
  ASSUME NEW s, IsState(s), NEW saved, IsSaved(saved), NEW always
  PROVE  Ended(s, saved, always, RestoreState(s, saved, always))
<1> DEFINE u == RestoreState(s, saved, always)
           a == RestoreNames(s.vars, saved, always, s.vars, FALSE)
           b == RestoreNames(s.truth, saved, always, s.vars, TRUE)
           names == {n \in DOMAIN saved : ~Kept(saved, always, s.vars, n)}
<1>1. /\ Ghosted(a, b) /\ Written(s.vars, a, names)
      /\ \A n \in names : Entry(a, n) = saved[n].entry
  <2>1. Restored(s.vars, s.truth, saved, always, s.vars)
    BY RestoreNamesIs DEF IsState, Ghosted
  <2> QED
    BY <2>1 DEF Restored
<1>2. u = [s EXCEPT !.vars = a, !.truth = b, !.renewed = Count(s.renewed, DOMAIN saved)]
  BY DEF RestoreState
<1> HIDE DEF u, a, b
<1>3. /\ DOMAIN u = DOMAIN s /\ u.failure = s.failure /\ u.other = s.other
      /\ u.vars = a /\ u.truth = b /\ u.written = s.written
      /\ u.renewed = Count(s.renewed, DOMAIN saved)
  BY <1>2, StateIs
<1>4. Later(s, u) /\ u.written \in Counts /\ u.renewed \in Counts
  <2>1. CountsWrites(s, u, names, DOMAIN saved)
    BY <1>1, <1>3 DEF CountsWrites
  <2> QED
    BY <2>1, LaterWritten
<1>5. IsState(u)
  BY <1>1, <1>3, <1>4, StateIs
<1>6. ASSUME NEW n \in DOMAIN saved
      PROVE  Entry(u.vars, n) = IF Kept(saved, always, s.vars, n) THEN Entry(s.vars, n)
                                ELSE saved[n].entry
  <2>1. CASE n \in names
    BY <1>1, <1>3, <2>1
  <2>2. CASE n \notin names
    BY <1>1, <1>3, <2>2 DEF Written
  <2> QED
    BY <2>1, <2>2
<1> QED
  BY <1>3, <1>4, <1>5, <1>6 DEF u, Ended

\* The end of temporary assignments on all paths.
EndedOn(h, paths, saved, always, g) ==
  /\ Evolves(h, g, Chain(h, paths)) /\ Len(g) = Len(h)
  /\ \A i \in DOMAIN h : g[i].failure = h[i].failure /\ g[i].other = h[i].other
  /\ \A i \in DOMAIN h : i \in Chain(h, paths) => Ended(h[i], saved, always, g[i])
\* restoreSavedAssignments ends them in every state of the paths.
LEMMA Restores ==
  ASSUME NEW h, IsHeap(h), NEW paths, NEW saved, IsSaved(saved), NEW always
  PROVE  EndedOn(h, paths, saved, always, Restore(h, paths, saved, always))
<1> DEFINE g == Restore(h, paths, saved, always)
<1>1. IsSeq(h) /\ Len(h) \in Nat /\ DOMAIN h = 1 .. Len(h)
  BY SeqDomain DEF IsHeap
<1>2. ASSUME NEW i \in DOMAIN h
      PROVE  /\ IsState(g[i]) /\ Later(h[i], g[i])
             /\ g[i].failure = h[i].failure /\ g[i].other = h[i].other
             /\ i \notin Chain(h, paths) => g[i] = h[i]
             /\ i \in Chain(h, paths) => Ended(h[i], saved, always, g[i])
  <2>1. g[i] = IF i \in Chain(h, paths) THEN RestoreState(h[i], saved, always) ELSE h[i]
    BY DEF Restore
  <2>2. IsState(h[i]) /\ Later(h[i], h[i])
    BY LaterSame DEF IsHeap
  <2>3. Ended(h[i], saved, always, RestoreState(h[i], saved, always))
    BY <2>2, RestoresState
  <2> HIDE DEF g
  <2> QED
    BY <2>1, <2>2, <2>3 DEF Ended
<1>3. IsSeq(g) /\ Len(g) = Len(h) /\ DOMAIN g = DOMAIN h
  <2>1. g = [i \in 1 .. Len(h) |-> g[i]]
    BY <1>1 DEF Restore
  <2> QED
    BY <1>1, <2>1, FunctionIsSeq
<1> HIDE DEF g
<1>4. IsHeap(g)
  BY <1>2, <1>3 DEF IsHeap
<1>5. Evolves(h, g, Chain(h, paths))
  BY <1>1, <1>2, <1>3, <1>4 DEF Evolves
<1> QED
  BY <1>2, <1>3, <1>5 DEF EndedOn, g

-------------------------------------------------------------------------------
(* Paths, and the states they have. *)

\* The states of paths are those of each path.
LEMMA ChainIs ==
  ASSUME NEW h, NEW paths, IsSeq(paths)
  PROVE  Chain(h, paths) = UNION {Parts(h, paths[a]) : a \in DOMAIN paths}
<1>1. \A p : Parts(h, p) = {p.state, h[p.state].failure} \ {None}
  BY DEF Parts
<1>2. Range(paths) = {paths[a] : a \in DOMAIN paths}
  BY DEF Range
<1>3. Chain(h, paths) = UNION {Parts(h, p) : p \in Range(paths)}
  BY <1>1 DEF Chain, Failure
<1> QED
  BY <1>2, <1>3

\* A state is one of a path.
LEMMA InChain ==
  ASSUME NEW h, NEW paths, IsSeq(paths), NEW i
  PROVE  i \in Chain(h, paths) <=> \E a \in DOMAIN paths : i \in Parts(h, paths[a])
  BY ChainIs

\* Paths one after the other.
LEMMA ChainConcat ==
  ASSUME NEW h, NEW p, IsSeq(p), NEW q, IsSeq(q)
  PROVE  IsSeq(p \o q) /\ Chain(h, p \o q) = Chain(h, p) \cup Chain(h, q)
<1>1. IsSeq(p \o q) /\ Range(p \o q) = Range(p) \cup Range(q)
  BY ConcatIs, RangeIs
<1> QED
  BY <1>1 DEF Chain

\* One path, and no path.
LEMMA ChainOne ==
  ASSUME NEW h, NEW x
  PROVE  IsSeq(<<x>>) /\ Chain(h, <<x>>) = Parts(h, x) /\ Len(<<x>>) = 1 /\ <<x>>[1] = x
         /\ DOMAIN <<x>> = {1}
<1>1. IsSeq(<<x>>) /\ Len(<<x>>) = 1 /\ <<x>>[1] = x
  BY ShortSeqs
<1>2. DOMAIN <<x>> = {1}
  OBVIOUS
<1>3. Chain(h, <<x>>) = UNION {Parts(h, <<x>>[a]) : a \in DOMAIN <<x>>}
  BY <1>1, ChainIs
<1>4. Chain(h, <<x>>) = Parts(h, x)
  BY <1>1, <1>2, <1>3
<1> QED
  BY <1>1, <1>2, <1>4

\* No path: it is sound, and has no state.
LEMMA ChainEmpty ==
  ASSUME NEW h
  PROVE  IsSeq(<<>>) /\ Chain(h, <<>>) = {} /\ Len(<<>>) = 0 /\ Sound(h, <<>>)
<1>1. IsSeq(<<>>) /\ Len(<<>>) = 0
  BY ShortSeqs
<1>2. DOMAIN <<>> = {}
  OBVIOUS
<1>3. Chain(h, <<>>) = UNION {Parts(h, <<>>[a]) : a \in DOMAIN <<>>}
  BY <1>1, ChainIs
<1>4. Chain(h, <<>>) = {}
  BY <1>2, <1>3
<1> QED
  BY <1>1, <1>2, <1>4 DEF Sound

\* Whether paths are sound, one after the other.
LEMMA SoundConcat ==
  ASSUME NEW h, NEW p, IsSeq(p), NEW q, IsSeq(q)
  PROVE  Sound(h, p \o q) <=> Sound(h, p) /\ Sound(h, q) /\ Disjoint(h, p, q)
<1> DEFINE s == p \o q
           m == Len(p)
           n == Len(q)
<1>1. /\ IsSeq(s) /\ Len(s) = m + n /\ m \in Nat /\ n \in Nat
      /\ DOMAIN s = 1 .. m + n /\ DOMAIN p = 1 .. m /\ DOMAIN q = 1 .. n
      /\ \A a \in 1 .. m : s[a] = p[a]
      /\ \A a \in 1 .. n : s[m + a] = q[a]
  BY ConcatIs, SeqDomain
<1> HIDE DEF s, m, n
<1>2. ASSUME Sound(h, s)
      PROVE  Sound(h, p) /\ Sound(h, q) /\ Disjoint(h, p, q)
  <2>1. /\ \A a \in 1 .. m + n : IsPath(h, s[a])
        /\ \A a, b \in 1 .. m + n : a # b => Parts(h, s[a]) \cap Parts(h, s[b]) = {}
    BY <1>1, <1>2 DEF Sound
  <2>2. \A a \in 1 .. m : a \in 1 .. m + n
    BY <1>1
  <2>3. \A a \in 1 .. n : m + a \in 1 .. m + n
    BY <1>1
  <2>4. Sound(h, p)
    BY <1>1, <2>1, <2>2 DEF Sound
  <2>5. \A a, b \in 1 .. n : a # b => m + a # m + b
    BY <1>1
  <2>6. Sound(h, q)
    <3>1. \A a \in 1 .. n : IsPath(h, q[a])
      BY <1>1, <2>1, <2>3
    <3>2. \A a, b \in 1 .. n : a # b => Parts(h, q[a]) \cap Parts(h, q[b]) = {}
      BY <1>1, <2>1, <2>3, <2>5
    <3> QED
      BY <1>1, <3>1, <3>2 DEF Sound
  <2>7. Disjoint(h, p, q)
    <3> SUFFICES ASSUME NEW i, i \in Chain(h, p), i \in Chain(h, q) PROVE FALSE
      BY DEF Disjoint
    <3>1. PICK a \in 1 .. m : i \in Parts(h, p[a])
      BY <1>1, InChain
    <3>2. PICK b \in 1 .. n : i \in Parts(h, q[b])
      BY <1>1, InChain
    <3>3. a # m + b /\ a \in 1 .. m + n /\ m + b \in 1 .. m + n
      BY <1>1
    <3>4. s[a] = p[a] /\ s[m + b] = q[b]
      BY <1>1
    <3>5. Parts(h, s[a]) \cap Parts(h, s[m + b]) = {}
      BY <2>1, <3>3
    <3> QED
      BY <3>1, <3>2, <3>4, <3>5
  <2> QED
    BY <2>4, <2>6, <2>7
<1>3. ASSUME Sound(h, p), Sound(h, q), Disjoint(h, p, q)
      PROVE  Sound(h, s)
  <2>1. \A c \in 1 .. m + n : c \in 1 .. m \/ \E b \in 1 .. n : c = m + b
    <3> SUFFICES ASSUME NEW c \in 1 .. m + n, c \notin 1 .. m
                 PROVE  \E b \in 1 .. n : c = m + b
      OBVIOUS
    <3>1. c - m \in 1 .. n /\ c = m + (c - m)
      BY <1>1
    <3> QED
      BY <3>1
  <2>2. \A c \in 1 .. m + n : IsPath(h, s[c])
    BY <1>1, <1>3, <2>1 DEF Sound
  <2>3. \A a \in 1 .. m, b \in 1 .. n : Parts(h, p[a]) \cap Parts(h, q[b]) = {}
    <3> SUFFICES ASSUME NEW a \in 1 .. m, NEW b \in 1 .. n,
                        NEW i, i \in Parts(h, p[a]), i \in Parts(h, q[b])
                 PROVE  FALSE
      OBVIOUS
    <3>1. i \in Chain(h, p) /\ i \in Chain(h, q)
      BY <1>1, InChain
    <3> QED
      BY <1>3, <3>1 DEF Disjoint
  <2>4. ASSUME NEW c \in 1 .. m + n, NEW d \in 1 .. m + n, c # d
        PROVE  Parts(h, s[c]) \cap Parts(h, s[d]) = {}
    <3>1. CASE c \in 1 .. m /\ d \in 1 .. m
      BY <1>1, <1>3, <2>4, <3>1 DEF Sound
    <3>2. CASE c \notin 1 .. m /\ d \notin 1 .. m
      <4>1. PICK a \in 1 .. n, b \in 1 .. n : c = m + a /\ d = m + b
        BY <2>1, <3>2
      <4>2. a # b
        BY <2>4, <4>1
      <4> QED
        BY <1>1, <1>3, <4>1, <4>2 DEF Sound
    <3>3. CASE c \in 1 .. m /\ d \notin 1 .. m
      <4>1. PICK b \in 1 .. n : d = m + b
        BY <2>1, <3>3
      <4> QED
        BY <1>1, <2>3, <3>3, <4>1
    <3>4. CASE c \notin 1 .. m /\ d \in 1 .. m
      <4>1. PICK b \in 1 .. n : c = m + b
        BY <2>1, <3>4
      <4> QED
        BY <1>1, <2>3, <3>4, <4>1
    <3> QED
      BY <3>1, <3>2, <3>3, <3>4
  <2> QED
    BY <1>1, <2>2, <2>4 DEF Sound
<1> QED
  BY <1>2, <1>3 DEF s

\* One path is sound by itself when it is a path.
LEMMA SoundOne ==
  ASSUME NEW h, NEW x
  PROVE  Sound(h, <<x>>) <=> IsPath(h, x)
<1>1. IsSeq(<<x>>) /\ <<x>>[1] = x /\ DOMAIN <<x>> = {1}
  BY ChainOne
<1> QED
  BY <1>1 DEF Sound

\* Paths are as sound as they were where no failure of theirs changed.
SameFailures(h, g, S) ==
  DOMAIN h \subseteq DOMAIN g /\ \A i \in S : g[i].failure = h[i].failure
\* Such paths have the same states, and are as sound as before.
LEMMA SoundSame ==
  ASSUME NEW h, IsHeap(h), NEW g, NEW paths, IsSeq(paths),
         \A a \in DOMAIN paths : paths[a].state \in DOMAIN h,
         SameFailures(h, g, Chain(h, paths))
  PROVE  /\ Chain(g, paths) = Chain(h, paths)
         /\ Sound(h, paths) => Sound(g, paths)
<1>1. ASSUME NEW a \in DOMAIN paths
      PROVE  /\ paths[a].state \in Chain(h, paths)
             /\ h[paths[a].state].failure # None => h[paths[a].state].failure \in Chain(h, paths)
  <2>1. paths[a].state # None
    BY SeqDomain DEF IsHeap, None
  <2>2. /\ paths[a].state \in Parts(h, paths[a])
        /\ h[paths[a].state].failure # None =>
             h[paths[a].state].failure \in Parts(h, paths[a])
    BY <2>1 DEF Parts
  <2> QED
    BY <2>2, InChain
<1>2. \A a \in DOMAIN paths : Parts(g, paths[a]) = Parts(h, paths[a])
  BY <1>1 DEF Parts, SameFailures
<1>3. Chain(g, paths) = Chain(h, paths)
  <2>1. \A i : i \in Chain(g, paths) <=> i \in Chain(h, paths)
    BY <1>2, InChain
  <2> QED
    BY <2>1
<1>4. ASSUME Sound(h, paths)
      PROVE  Sound(g, paths)
  <2>1. \A a \in DOMAIN paths : IsPath(g, paths[a])
    BY <1>1, <1>4 DEF Sound, IsPath, SameFailures
  <2> QED
    BY <1>2, <1>4, <2>1 DEF Sound
<1> QED
  BY <1>3, <1>4

\* Sound paths have states there are.
LEMMA ChainInHeap ==
  ASSUME NEW h, NEW paths, Sound(h, paths)
  PROVE  IsSeq(paths) /\ Chain(h, paths) \subseteq DOMAIN h
<1>1. IsSeq(paths) /\ \A a \in DOMAIN paths : IsPath(h, paths[a])
  BY DEF Sound
<1>2. \A a \in DOMAIN paths : Parts(h, paths[a]) \subseteq DOMAIN h
  BY <1>1 DEF IsPath, Parts
<1> QED
  BY <1>1, <1>2, ChainIs

-------------------------------------------------------------------------------
(* What else is made of the states: a write by a builtin, a state that fails, *)
(* two paths of one, and the undoing of what the journal has.                 *)

\* assignShellVariable: a text, with the attributes that the name has.
LEMMA ShellWrites ==
  ASSUME NEW vs, NEW t, Ghosted(vs, t), NEW n \in Name, NEW text, IsSeq(text)
  PROVE  /\ Ghosted(AssignShell(vs, n, Scalar(text), FALSE, Dense),
                    AssignShell(t, n, Scalar(text), FALSE, Dense))
         /\ Written(vs, AssignShell(vs, n, Scalar(text), FALSE, Dense), {n})
<1> DEFINE v == Lookup(vs, n)
           w == Lookup(t, n)
           x == Scalar(text)
           a == [x EXCEPT !.exported = @ \/ v.exported, !.readonly = v.readonly]
           b == [x EXCEPT !.exported = @ \/ w.exported, !.readonly = w.readonly]
<1>1. /\ Shape(w) = Shape(v) /\ vs.revision \in Nat
  BY DEF Ghosted, IsVars, Agrees
<1>2. w.exported = v.exported /\ w.readonly = v.readonly
  BY <1>1 DEF Shape
<1>3. b = a
  BY <1>2
<1>4. IsValue(x)
  BY ScalarIs
<1>5. /\ DOMAIN x = {"kind", "str", "list", "map", "set", "exported", "readonly"}
      /\ IsSeq(x.str) /\ IsTexts(x.list)
      /\ IsFiniteSet(DOMAIN x.map) /\ \A k \in DOMAIN x.map : IsSeq(x.map[k])
  BY <1>4, ValueIs
<1>6. /\ AssignShell(vs, n, Scalar(text), FALSE, Dense) = Put(vs, n, a, FALSE, Dense)
      /\ AssignShell(t, n, Scalar(text), FALSE, Dense) = Put(t, n, b, FALSE, Dense)
  BY Zenon DEF AssignShell
<1> HIDE DEF x, v, w
<1>7. /\ DOMAIN a = {"kind", "str", "list", "map", "set", "exported", "readonly"}
      /\ a.str = x.str /\ a.list = x.list /\ a.map = x.map
  BY <1>5
<1> HIDE DEF a, b
<1>8. IsValue(a)
  BY <1>5, <1>7, ValueIs
<1>9. Ghosted(Put(vs, n, a, FALSE, Dense), Put(t, n, b, FALSE, Dense))
  BY <1>3, <1>8, PutGhosted
<1>10. Sets(Put(vs, n, a, FALSE, Dense), vs, n, NewEntry(a, FALSE, Dense))
  BY PutSets
<1>11. Written(vs, Put(vs, n, a, FALSE, Dense), {n})
  BY <1>1, <1>10, WrittenOnce
<1> QED
  BY <1>6, <1>9, <1>11
\* An unset.
LEMMA ShellUnsets ==
  ASSUME NEW vs, NEW t, Ghosted(vs, t), NEW n \in Name
  PROVE  Ghosted(Delete(vs, n), Delete(t, n)) /\ Written(vs, Delete(vs, n), {n})
<1>1. Ghosted(Delete(vs, n), Delete(t, n))
  BY DeleteGhosted
<1>2. Sets(Delete(vs, n), vs, n, NoEntry)
  BY DeleteSets
<1>3. vs.revision \in Nat
  BY DEF Ghosted, IsVars
<1> QED
  BY <1>1, <1>2, <1>3, WrittenOnce

\* A command whose success is not known: the state goes on, and has a copy of
\* what it was as the state it has if the command failed.
CopyOf(s, u) == u.vars = s.vars /\ u.written = s.written /\ u.renewed = s.renewed
Splits(h, g, i) ==
  /\ Evolves(h, g, {i}) /\ Len(g) = Len(h) + 1
  /\ g[i].failure = Len(g) /\ g[i].other = h[i].other + 1
  /\ g[Len(g)].failure = None /\ CopyOf(h[i], g[Len(g)])
\* What setUnknownExitCodeWithFailure does to the states.
LEMMA SplitsState ==
  ASSUME NEW h, IsHeap(h), NEW i \in DOMAIN h, NEW a, NEW b,
         NEW names, Rewritten(h, i, a, b, names),
         NEW l, l = Append(h, [h[i] EXCEPT !.failure = None]),
         NEW g, g = [SetTo(l, i, a, b) EXCEPT ![i].failure = Len(h) + 1, ![i].other = @ + 1,
                                              ![i].written = Count(@, names)]
  PROVE  Splits(h, g, i)
<1> DEFINE s == h[i]
           f == [s EXCEPT !.failure = None]
           u == [s EXCEPT !.vars = a, !.truth = b, !.failure = Len(h) + 1,
                          !.other = s.other + 1, !.written = Count(s.written, names)]
<1>1. IsState(s) /\ Len(h) \in Nat /\ IsSeq(h) /\ DOMAIN h = 1 .. Len(h)
  BY SeqDomain DEF IsHeap
<1>2. /\ DOMAIN f = DOMAIN s /\ f.failure = None /\ f.other = s.other
      /\ f.vars = s.vars /\ f.truth = s.truth
      /\ f.written = s.written /\ f.renewed = s.renewed
  BY <1>1, StateIs
<1>20. l = Append(h, f)
  OBVIOUS
<1> HIDE DEF f
<1>3. IsState(f)
  BY <1>1, <1>2, StateIs DEF None
<1>4. /\ IsSeq(l) /\ Len(l) = Len(h) + 1 /\ l[Len(h) + 1] = f
      /\ \A j \in 1 .. Len(h) : l[j] = h[j]
  <2>1. /\ IsSeq(Append(h, f)) /\ Len(Append(h, f)) = Len(h) + 1
        /\ (Append(h, f))[Len(h) + 1] = f
        /\ \A j \in 1 .. Len(h) : (Append(h, f))[j] = h[j]
    BY ONLY <1>1, AppendIs
  <2> QED
    BY ONLY <1>20, <2>1
<1>5. DOMAIN l = 1 .. Len(h) + 1
  BY <1>4, SeqDomain
<1>6. i \in DOMAIN l /\ l[i] = s
  BY <1>1, <1>4, <1>5
<1>7. /\ DOMAIN u = DOMAIN s /\ u.failure = Len(h) + 1 /\ u.other = s.other + 1
      /\ u.vars = a /\ u.truth = b
      /\ u.written = Count(s.written, names) /\ u.renewed = s.renewed
  BY <1>1, StateIs
<1>8. g = [l EXCEPT ![i] = u]
  <2> DEFINE k == Len(h) + 1
             v == [l[i] EXCEPT !.vars = a, !.truth = b, !.failure = k, !.other = l[i].other + 1,
                               !.written = Count(l[i].written, names)]
  <2>1. DOMAIN l[i] = {"vars", "truth", "other", "failure", "written", "renewed"}
    BY <1>1, <1>6, StateIs
  <2>2. g = [SetTo(l, i, a, b) EXCEPT ![i].failure = k, ![i].other = @ + 1,
                                      ![i].written = Count(@, names)]
    OBVIOUS
  <2>3. v = u
    BY <1>6
  <2> HIDE DEF k, u
  <2>4. g = [l EXCEPT ![i] = v]
    BY ONLY <1>6, <2>1, <2>2 DEF SetTo
  <2> QED
    BY ONLY <2>3, <2>4
<1> HIDE DEF u
<1>9. IsHeap(l)
  <2>1. None <= Len(l)
    BY <1>1, <1>4 DEF None
  <2>2. ASSUME NEW j \in DOMAIN l
        PROVE  IsState(l[j]) /\ l[j].failure <= Len(l)
    <3>1. CASE j \in 1 .. Len(h)
      <4>1. l[j] = h[j] /\ IsState(h[j]) /\ h[j].failure <= Len(h)
        BY ONLY IsHeap(h), <1>1, <1>4, <3>1 DEF IsHeap
      <4>2. h[j].failure \in Nat
        BY <4>1, StateIs
      <4>3. l[j].failure = h[j].failure
        BY ONLY <4>1
      <4> QED
        BY ONLY <1>1, <1>4, <4>1, <4>2, <4>3
    <3>2. CASE j = Len(h) + 1
      BY <1>2, <1>3, <1>4, <2>1, <3>2
    <3> QED
      BY <1>1, <1>5, <3>1, <3>2
  <2> QED
    BY <1>4, <2>2 DEF IsHeap
<1>10. Ghosted(u.vars, u.truth) /\ u.other \in Nat /\ u.failure \in 0 .. Len(l)
  BY <1>1, <1>4, <1>7, StateIs DEF Rewritten
<1>11. CountsWrites(l[i], u, names, names)
  BY <1>6, <1>7 DEF CountsWrites, Rewritten
<1>12. Edited(l, g, i, u)
  BY <1>6, <1>7, <1>8, <1>9, <1>10, <1>11, OneState
<1>13. /\ IsHeap(g) /\ Len(g) = Len(h) + 1 /\ g[i] = u
       /\ \A j \in DOMAIN l : Later(l[j], g[j]) /\ (j # i => g[j] = l[j])
  BY <1>4, <1>12 DEF Edited, Evolves
<1>14. \A j \in DOMAIN h : j \in DOMAIN l /\ l[j] = h[j]
  BY <1>1, <1>4, <1>5
<1>15. Evolves(h, g, {i})
  BY ONLY IsHeap(h), <1>1, <1>13, <1>14 DEF Evolves
<1>16. Len(h) + 1 \in DOMAIN l /\ Len(h) + 1 # i
  BY <1>1, <1>5
<1>17. g[Len(g)] = f
  BY <1>4, <1>13, <1>16
<1> QED
  BY <1>2, <1>7, <1>13, <1>15, <1>17 DEF Splits, CopyOf

\* A record that is undone.
Undone(h, g, i) ==
  /\ IsHeap(g) /\ Len(g) = Len(h)
  /\ \A j \in DOMAIN h :
       /\ j # i => g[j] = h[j]
       /\ g[j].failure = h[j].failure /\ g[j].other = h[j].other
       /\ g[j].renewed = h[j].renewed
       /\ g[j].vars.revision >= h[j].vars.revision
\* What is left of the name it is about, and of the others.
UndoneName(s, u, r) ==
  /\ Entry(u.vars, r.name) = r.entry /\ Version(u.vars, r.name) = r.version
  /\ u.written[r.name] = r.written
  /\ \A m \in Name : m # r.name =>
       /\ Entry(u.vars, m) = Entry(s.vars, m) /\ Version(u.vars, m) = Version(s.vars, m)
       /\ u.written[m] = s.written[m]
\* The states, when a record is undone.
LEMMA UndoOneIs ==
  ASSUME NEW h, IsHeap(h), NEW r, IsRecord(h, r)
  PROVE  Undone(h, UndoOne(h, r), r.state) /\ UndoneName(h[r.state], (UndoOne(h, r))[r.state], r)
<1> DEFINE i == r.state
           n == r.name
           s == h[i]
           p == PutBack(s.vars, n, r.entry)
           a == WithVersion(p, n, r.version)
           b == PutBack(s.truth, n, r.truth)
           u == [s EXCEPT !.vars = a, !.truth = b, !.written = [s.written EXCEPT ![n] = r.written]]
           g == UndoOne(h, r)
<1>1. /\ i \in DOMAIN h /\ n \in Name /\ r.written \in Nat /\ IsState(s) /\ IsSeq(h)
      /\ IsEntry(r.entry) /\ AgreeingEntries(r.entry, r.truth)
      /\ r.version \in 0 .. s.vars.revision /\ s.failure <= Len(h) /\ Len(h) \in Nat
  BY SeqDomain DEF IsRecord, IsHeap
<1>2. /\ Ghosted(s.vars, s.truth) /\ IsVars(s.vars) /\ Owners(s.vars) \subseteq Name
      /\ s.vars.revision \in Nat /\ s.written \in Counts
  BY <1>1, StateIs DEF Ghosted, IsVars
<1>20. Reverts(a, s.vars, n, r.entry, r.version)
  <2> DEFINE vs == s.vars
             e == r.entry
             w == r.version
  <2>1. IsVars(vs) /\ Owners(vs) \subseteq Name /\ IsEntry(e) /\ w \in 0 .. vs.revision
    BY <1>1, <1>2
  <2> HIDE DEF vs, e, w
  <2>2. Reverts(WithVersion(PutBack(vs, n, e), n, w), vs, n, e, w)
    BY <1>1, <2>1, WithVersionFacts
  <2> QED
    BY <2>2 DEF vs, e, w
<1>3. /\ \A m : /\ Lookup(a, m) = Lookup(p, m) /\ Slots(a, m) = Slots(p, m)
                /\ Unknown(a, m) = Unknown(p, m)
      /\ DOMAIN a.data = DOMAIN p.data
  <2>1. a.data = p.data /\ a.indexed = p.indexed /\ a.unknown = p.unknown
    BY DEF WithVersion, PutBack, Put, Delete
  <2> HIDE DEF a, p
  <2> QED
    BY ONLY <2>1 DEF Lookup, Slots, Unknown
<1>4. Ghosted(p, b)
  BY <1>1, <1>2, PutBackGhosted
<1>6. Agrees(a, b)
  <2> HIDE DEF a, p, b
  <2> QED
    BY <1>3, <1>4 DEF Ghosted, Agrees
<1>7. Ghosted(a, b)
  BY <1>20, <1>4, <1>6 DEF Ghosted, Reverts
<1> HIDE DEF a, b
<1>8. g = [h EXCEPT ![i] = u]
  BY <1>1, StateIs DEF UndoOne, a, b
<1>9. /\ DOMAIN u = DOMAIN s /\ u.vars = a /\ u.truth = b
      /\ u.written = [s.written EXCEPT ![n] = r.written] /\ u.renewed = s.renewed
      /\ u.other = s.other /\ u.failure = s.failure
  BY <1>1, StateIs
<1> HIDE DEF u, s, g
<1>10. IsState(u)
  <2>1. u.written \in Counts
    BY <1>1, <1>2, <1>9 DEF Counts
  <2> QED
    BY <1>1, <1>7, <1>9, <2>1, StateIs
<1>11. /\ IsSeq(g) /\ Len(g) = Len(h) /\ g[i] = u /\ DOMAIN g = DOMAIN h
       /\ \A j \in DOMAIN h : j # i => g[j] = h[j]
  <2>1. /\ IsSeq([h EXCEPT ![i] = u]) /\ Len([h EXCEPT ![i] = u]) = Len(h)
        /\ [h EXCEPT ![i] = u][i] = u
        /\ \A j \in DOMAIN h : j # i => [h EXCEPT ![i] = u][j] = h[j]
    BY <1>1, ExceptIs
  <2> QED
    BY <1>8, <2>1
<1>12. IsHeap(g)
  BY <1>1, <1>9, <1>10, <1>11 DEF IsHeap
<1>13. Undone(h, g, i)
  <2>1. u.vars.revision >= s.vars.revision
    BY <1>2, <1>20, <1>9 DEF Reverts
  <2>2. \A j \in DOMAIN h : h[j].vars.revision \in Nat
    BY DEF IsHeap, IsState, IsVars
  <2> QED
    BY <1>1, <1>9, <1>11, <1>12, <2>1, <2>2 DEF Undone, s
<1>14. UndoneName(s, u, r)
  BY <1>1, <1>2, <1>20, <1>9 DEF UndoneName, Counts, Reverts
<1> QED
  BY <1>11, <1>13, <1>14 DEF g, s

-------------------------------------------------------------------------------
(* The journal, undone: the last record first. *)

UndoStep(c, r, acc) == UndoOne(acc, r)
Undoing == INSTANCE FoldsProofs WITH FoldStep <- UndoStep

\* The states after some of these records were undone.
NotUndone(s, u, n) ==
  /\ Entry(u.vars, n) = Entry(s.vars, n) /\ Version(u.vars, n) = Version(s.vars, n)
  /\ u.written[n] = s.written[n]
UndoneTo(u, n, r) ==
  /\ Entry(u.vars, n) = r.entry /\ Version(u.vars, n) = r.version
  /\ u.written[n] = r.written
Rolled(h, g, S) ==
  /\ IsHeap(g) /\ Len(g) = Len(h) /\ DOMAIN g = DOMAIN h
  /\ \A j \in DOMAIN h :
       /\ g[j].failure = h[j].failure /\ g[j].other = h[j].other
       /\ g[j].renewed = h[j].renewed
       /\ g[j].vars.revision >= h[j].vars.revision
       /\ (\A r \in S : r.state # j) => g[j] = h[j]
       /\ \A n \in Name :
            \/ NotUndone(h[j], g[j], n)
            \/ \E r \in S : r.state = j /\ r.name = n /\ UndoneTo(g[j], n, r)

\* One record more.
LEMMA RolledOne ==
  ASSUME NEW h, IsHeap(h), NEW g, NEW S, Rolled(h, g, S), NEW r, IsRecord(h, r)
  PROVE  Rolled(h, UndoOne(g, r), S \cup {r})
<1> DEFINE f == UndoOne(g, r)
           T == S \cup {r}
           i == r.state
<1>1. /\ IsHeap(g) /\ Len(g) = Len(h) /\ DOMAIN g = DOMAIN h
      /\ \A j \in DOMAIN h :
           /\ g[j].failure = h[j].failure /\ g[j].other = h[j].other
           /\ g[j].renewed = h[j].renewed
           /\ g[j].vars.revision >= h[j].vars.revision
           /\ (\A q \in S : q.state # j) => g[j] = h[j]
           /\ \A n \in Name :
                \/ NotUndone(h[j], g[j], n)
                \/ \E q \in S : q.state = j /\ q.name = n /\ UndoneTo(g[j], n, q)
  BY DEF Rolled
<1>2. \A j \in DOMAIN h : h[j].vars.revision \in Nat
  BY DEF IsHeap, IsState, IsVars
<1>3. \A j \in DOMAIN h : g[j].vars.revision \in Nat
  BY <1>1 DEF IsHeap, IsState, IsVars
<1>4. /\ i \in DOMAIN h /\ r.name \in Name /\ r.written \in Nat
      /\ IsEntry(r.entry) /\ AgreeingEntries(r.entry, r.truth)
      /\ r.version \in 0 .. h[i].vars.revision
  BY DEF IsRecord
<1>5. r.version \in 0 .. g[i].vars.revision
  BY <1>1, <1>2, <1>3, <1>4
<1>6. IsRecord(g, r)
  BY <1>1, <1>4, <1>5 DEF IsRecord
<1>7. Undone(g, f, i) /\ UndoneName(g[i], f[i], r)
  BY <1>1, <1>6, UndoOneIs
<1> HIDE DEF f
<1>8. /\ IsHeap(f) /\ Len(f) = Len(g)
      /\ \A j \in DOMAIN g :
           /\ j # i => f[j] = g[j]
           /\ f[j].failure = g[j].failure /\ f[j].other = g[j].other
           /\ f[j].renewed = g[j].renewed
           /\ f[j].vars.revision >= g[j].vars.revision
  BY <1>7 DEF Undone
<1>9. DOMAIN f = DOMAIN g
  BY <1>1, <1>8, SeqDomain DEF IsHeap
<1>10. \A j \in DOMAIN h : f[j].vars.revision \in Nat
  BY <1>1, <1>8, <1>9 DEF IsHeap, IsState, IsVars
<1>11. \A q \in S : q \in T
  OBVIOUS
<1>12. r \in T
  OBVIOUS
<1> HIDE DEF T
<1>13. ASSUME NEW j \in DOMAIN h
       PROVE  /\ f[j].failure = h[j].failure /\ f[j].other = h[j].other
              /\ f[j].renewed = h[j].renewed
              /\ f[j].vars.revision >= h[j].vars.revision
              /\ (\A q \in T : q.state # j) => f[j] = h[j]
  BY <1>1, <1>2, <1>3, <1>8, <1>10, <1>11, <1>12
<1>14. ASSUME NEW j \in DOMAIN h, NEW n \in Name
       PROVE  \/ NotUndone(h[j], f[j], n)
              \/ \E q \in T : q.state = j /\ q.name = n /\ UndoneTo(f[j], n, q)
  <2>1. CASE j # i
    <3>1. f[j] = g[j]
      BY <1>1, <1>8, <2>1
    <3> QED
      BY <1>1, <1>11, <3>1
  <2>2. CASE j = i /\ n = r.name
    <3>1. UndoneTo(f[j], n, r)
      BY <1>7, <2>2 DEF UndoneName, UndoneTo
    <3> QED
      BY <1>12, <2>2, <3>1
  <2>3. CASE j = i /\ n # r.name
    <3>1. NotUndone(g[j], f[j], n)
      BY <1>7, <2>3 DEF UndoneName, NotUndone
    <3>2. CASE NotUndone(h[j], g[j], n)
      BY <3>1, <3>2 DEF NotUndone
    <3>3. CASE ~NotUndone(h[j], g[j], n)
      <4>1. PICK q \in S : q.state = j /\ q.name = n /\ UndoneTo(g[j], n, q)
        BY <1>1, <3>3
      <4>2. UndoneTo(f[j], n, q)
        BY <3>1, <4>1 DEF NotUndone, UndoneTo
      <4> QED
        BY <1>11, <4>1, <4>2
    <3> QED
      BY <3>2, <3>3
  <2> QED
    BY <2>1, <2>2, <2>3
<1>15. IsHeap(f) /\ Len(f) = Len(h) /\ DOMAIN f = DOMAIN h
  BY <1>1, <1>8, <1>9
<1>16. Rolled(h, f, T)
  BY ONLY <1>13, <1>14, <1>15 DEF Rolled
<1> QED
  BY <1>16 DEF f, T

\* The records from a checkpoint on.
Since(js, c) == {js[m] : m \in c + 1 .. Len(js)}
\* rollbackVariables undoes the records from the checkpoint on.
LEMMA RollbackIs ==
  ASSUME NEW h, IsHeap(h), IsJournal(h, journal), NEW c \in 0 .. Len(journal)
  PROVE  Rolled(h, Rollback(h, c), Since(journal, c))
<1> DEFINE s == SubSeq(journal, c + 1, Len(journal))
           L == Len(journal)
           nil == {}
           n == Len(s)
<1>1. IsSeq(journal) /\ L \in Nat /\ DOMAIN journal = 1 .. L
  BY SeqDomain DEF IsJournal
<1>2. /\ IsSeq(s) /\ n = L - c /\ n \in Nat /\ c \in Nat
      /\ \A m \in 1 .. n : s[m] = journal[c + m]
  <2>1. c + 1 \in Nat \ {0} /\ L \in Int /\ L <= Len(journal)
    BY <1>1
  <2>2. /\ IsSeq(s) /\ n = IF c + 1 <= L THEN L - (c + 1) + 1 ELSE 0
        /\ \A m \in 1 .. L - (c + 1) + 1 : s[m] = journal[c + 1 + m - 1]
    <3> HIDE DEF L
    <3>1. /\ IsSeq(SubSeq(journal, c + 1, L))
          /\ Len(SubSeq(journal, c + 1, L)) = IF c + 1 <= L THEN L - (c + 1) + 1 ELSE 0
          /\ \A m \in 1 .. L - (c + 1) + 1 : SubSeq(journal, c + 1, L)[m] = journal[c + 1 + m - 1]
      BY ONLY <1>1, <2>1, SubSeqIs
    <3> QED
      BY <3>1 DEF L
  <2> HIDE DEF s, n, L
  <2>20. L \in Nat /\ c \in 0 .. L
    BY <1>1 DEF L
  <2>3. n = L - c /\ n \in Nat
    BY ONLY <2>2, <2>20
  <2>4. \A m \in 1 .. n : m \in 1 .. L - (c + 1) + 1 /\ c + 1 + m - 1 = c + m
    BY ONLY <2>3, <2>20
  <2> QED
    BY <2>2, <2>20, <2>3, <2>4
<1>3. Undoing!RightSteps(nil, h, s)
  <2> HIDE DEF s, nil
  <2>1. s \in Seq(Range(s))
    BY <1>2, SeqDomain
  <2> QED
    BY ONLY <2>1, Undoing!RightFold
<1>4. Rollback(h, c) = Undoing!FromRight(nil, h, s)
  <2> DEFINE Does(g) == [x \in SUBSET DOMAIN s |->
               IF x = {} THEN h ELSE UndoStep(nil, s[Undoing!Least(x)], g[x \ {Undoing!Least(x)}])]
             Same(g) == [x \in SUBSET DOMAIN s |->
               IF x = {} THEN h ELSE UndoOne(g[x \ {Undoing!Least(x)}], s[Undoing!Least(x)])]
  <2>1. Rollback(h, c) = (CHOOSE g : g = Same(g))[DOMAIN s]
    BY Zenon DEF Rollback, FoldRight, MapThenFoldSet, Undoing!Least, Min
  <2>2. Undoing!FromRight(nil, h, s) = (CHOOSE g : g = Does(g))[DOMAIN s]
    BY Zenon DEF Undoing!FromRight
  <2>3. ASSUME NEW g
        PROVE  Does(g) = Same(g)
    <3> HIDE DEF s
    <3> QED
      BY Zenon DEF UndoStep
  <2>4. (CHOOSE g : g = Does(g)) = (CHOOSE g : g = Same(g))
    <3> HIDE DEF Does, Same
    <3> QED
      BY <2>3, Zenon
  <2> QED
    BY <2>1, <2>2, <2>4, Zenon
<1> HIDE DEF s
<1>5. PICK g : /\ g[n + 1] = h
               /\ \A k \in 1 .. n : g[k] = UndoStep(nil, s[k], g[k + 1])
               /\ Undoing!FromRight(nil, h, s) = g[1]
  BY <1>3 DEF Undoing!RightSteps
<1>6. \A m \in 1 .. n : IsRecord(h, s[m])
  <2>1. \A m \in 1 .. n : c + m \in 1 .. L
    <3> HIDE DEF n, L
    <3> QED
      BY <1>1, <1>2
  <2> QED
    BY <1>1, <1>2, <2>1 DEF IsJournal
<1> DEFINE Left(k) == {s[m] : m \in k .. n}
           Good == {k \in 1 .. n + 1 : Rolled(h, g[k], Left(k))}
<1> HIDE DEF n
<1>7. n + 1 \in Good
  <2>1. n + 1 .. n = {} /\ n + 1 \in 1 .. n + 1
    BY <1>2
  <2>2. Left(n + 1) = {}
    BY <2>1
  <2> HIDE DEF Left
  <2>3. \A j \in DOMAIN h : h[j].vars.revision \in Nat
    BY DEF IsHeap, IsState, IsVars
  <2>4. Rolled(h, h, {})
    BY <2>3 DEF Rolled, NotUndone
  <2> QED
    BY <1>5, <2>1, <2>2, <2>4
<1>8. ASSUME NEW k \in 1 .. n, k + 1 \in Good
      PROVE  k \in Good
  <2>1. k .. n = {k} \cup (k + 1 .. n) /\ k \in 1 .. n + 1
    BY <1>2
  <2>2. Left(k) = Left(k + 1) \cup {s[k]}
    BY <2>1
  <2> HIDE DEF Left
  <2>3. Rolled(h, g[k + 1], Left(k + 1))
    BY <1>8
  <2>4. g[k] = UndoOne(g[k + 1], s[k])
    BY <1>5 DEF UndoStep
  <2>5. Rolled(h, UndoOne(g[k + 1], s[k]), Left(k + 1) \cup {s[k]})
    BY <1>6, <2>3, RolledOne
  <2> QED
    BY <2>1, <2>2, <2>4, <2>5
<1>9. 1 \in Good
  <2> HIDE DEF Good
  <2> QED
    BY <1>2, <1>7, <1>8, CountDown
<1>10. Left(1) = Since(journal, c)
  <2>1. \A x : x \in Left(1) <=> \E m \in 1 .. n : x = journal[c + m]
    BY <1>2
  <2>2. \A x : x \in Since(journal, c) <=> \E m \in c + 1 .. L : x = journal[m]
    BY DEF Since
  <2>3. \A m \in 1 .. n : c + m \in c + 1 .. L
    BY <1>1, <1>2
  <2>4. \A m \in c + 1 .. L : m - c \in 1 .. n /\ c + (m - c) = m
    BY <1>1, <1>2
  <2> HIDE DEF Left, L
  <2>5. \A x : x \in Left(1) <=> x \in Since(journal, c)
    BY <2>1, <2>2, <2>3, <2>4
  <2> QED
    BY <2>5
<1> HIDE DEF Left
<1> QED
  BY <1>4, <1>5, <1>9, <1>10

-------------------------------------------------------------------------------
(* Paths that become two. *)

\* One sequence after the other.
Joined(s, t) ==
  /\ IsSeq(s \o t) /\ Len(s \o t) = Len(s) + Len(t)
  /\ \A i \in 1 .. Len(s) : (s \o t)[i] = s[i]
  /\ \A i \in 1 .. Len(t) : (s \o t)[Len(s) + i] = t[i]
\* What the concatenation of two sequences is.
LEMMA Joins ==
  ASSUME NEW s, IsSeq(s), NEW t, IsSeq(t)
  PROVE  Joined(s, t)
  BY ConcatIs DEF Joined

\* Two elements.
LEMMA PairIs ==
  ASSUME NEW x, NEW y
  PROVE  /\ IsSeq(<<x, y>>) /\ Len(<<x, y>>) = 2 /\ <<x, y>>[1] = x /\ <<x, y>>[2] = y
         /\ <<x, y>> = <<x>> \o <<y>>
<1>1. <<x, y>> \in Seq({x, y})
  OBVIOUS
<1>2. IsSeq(<<x, y>>)
  BY <1>1, SeqIs
<1>3. IsSeq(<<x>>) /\ Len(<<x>>) = 1 /\ <<x>>[1] = x /\ IsSeq(<<y>>) /\ Len(<<y>>) = 1 /\ <<y>>[1] = y
  BY ShortSeqs
<1>4. /\ IsSeq(<<x>> \o <<y>>) /\ Len(<<x>> \o <<y>>) = 2
      /\ (<<x>> \o <<y>>)[1] = x /\ (<<x>> \o <<y>>)[2] = y
  <2> DEFINE a == <<x>>
             b == <<y>>
  <2>1. IsSeq(a) /\ Len(a) = 1 /\ a[1] = x /\ IsSeq(b) /\ Len(b) = 1 /\ b[1] = y
    BY <1>3
  <2> HIDE DEF a, b
  <2>2. /\ IsSeq(a \o b) /\ Len(a \o b) = Len(a) + Len(b)
        /\ \A i \in 1 .. Len(a) : (a \o b)[i] = a[i]
        /\ \A i \in 1 .. Len(b) : (a \o b)[Len(a) + i] = b[i]
    <3>1. Joined(a, b)
      BY ONLY <2>1, Joins
    <3> QED
      BY ONLY <3>1 DEF Joined
  <2>3. IsSeq(a \o b) /\ Len(a \o b) = 2 /\ (a \o b)[1] = x /\ (a \o b)[2] = y
    BY ONLY <2>1, <2>2
  <2> QED
    BY <2>3 DEF a, b
<1>5. Len(<<x, y>>) = 2 /\ <<x, y>>[1] = x /\ <<x, y>>[2] = y
  OBVIOUS
<1>6. <<x, y>> = <<x>> \o <<y>>
  <2> DEFINE a == <<x, y>>
             b == <<x>> \o <<y>>
  <2>1. IsSeq(a) /\ IsSeq(b) /\ Len(a) = 2 /\ Len(b) = 2 /\ a[1] = b[1] /\ a[2] = b[2]
    BY <1>2, <1>4, <1>5
  <2> HIDE DEF a, b
  <2>2. \A i \in 1 .. Len(a) : a[i] = b[i]
    BY <2>1
  <2>3. a = b
    BY <2>1, <2>2, SameSeq
  <2> QED
    BY <2>3 DEF a, b
<1> QED
  BY <1>2, <1>5, <1>6

\* Whether paths are settled, one after the other.
LEMMA SettledConcat ==
  ASSUME NEW h, NEW p, IsSeq(p), NEW q, IsSeq(q)
  PROVE  Settled(h, p \o q) <=> Settled(h, p) /\ Settled(h, q)
<1> DEFINE s == p \o q
           m == Len(p)
           n == Len(q)
<1>1. /\ IsSeq(s) /\ Len(s) = m + n /\ m \in Nat /\ n \in Nat
      /\ DOMAIN s = 1 .. m + n /\ DOMAIN p = 1 .. m /\ DOMAIN q = 1 .. n
      /\ \A a \in 1 .. m : s[a] = p[a]
      /\ \A a \in 1 .. n : s[m + a] = q[a]
  BY ConcatIs, SeqDomain
<1> HIDE DEF s, m, n
<1>2. \A a \in 1 .. m : a \in 1 .. m + n
  BY <1>1
<1>3. \A a \in 1 .. n : m + a \in 1 .. m + n
  BY <1>1
<1>4. \A c \in 1 .. m + n : c \in 1 .. m \/ \E b \in 1 .. n : c = m + b
  <2> SUFFICES ASSUME NEW c \in 1 .. m + n, c \notin 1 .. m
               PROVE  \E b \in 1 .. n : c = m + b
    OBVIOUS
  <2>1. c - m \in 1 .. n /\ c = m + (c - m)
    BY <1>1
  <2> QED
    BY <2>1
<1>5. ASSUME Settled(h, s)
      PROVE  Settled(h, p) /\ Settled(h, q)
  <2>1. \A c \in 1 .. m + n : s[c].status = "completed" => h[s[c].state].failure = None
    BY <1>1, <1>5 DEF Settled
  <2>2. \A a \in 1 .. m : p[a].status = "completed" => h[p[a].state].failure = None
    BY <1>1, <1>2, <2>1
  <2>3. \A a \in 1 .. n : q[a].status = "completed" => h[q[a].state].failure = None
    BY <1>1, <1>3, <2>1
  <2> QED
    BY <1>1, <2>2, <2>3 DEF Settled
<1>6. ASSUME Settled(h, p), Settled(h, q)
      PROVE  Settled(h, s)
  <2>2. /\ \A a \in 1 .. m : p[a].status = "completed" => h[p[a].state].failure = None
        /\ \A a \in 1 .. n : q[a].status = "completed" => h[q[a].state].failure = None
    BY <1>1, <1>6 DEF Settled
  <2>1. ASSUME NEW c \in 1 .. m + n
        PROVE  s[c].status = "completed" => h[s[c].state].failure = None
    <3>1. CASE c \in 1 .. m
      BY <1>1, <2>2, <3>1
    <3>2. CASE c \notin 1 .. m
      <4>1. PICK b \in 1 .. n : c = m + b
        BY <1>4, <3>2
      <4> QED
        BY <1>1, <2>2, <4>1
    <3> QED
      BY <3>1, <3>2
  <2> QED
    BY <1>1, <2>1 DEF Settled
<1> QED
  BY <1>5, <1>6 DEF s
\* One path that is settled.
LEMMA SettledOne ==
  ASSUME NEW h, NEW x
  PROVE  Settled(h, <<x>>) <=> (x.status = "completed" => h[x.state].failure = None)
<1>1. IsSeq(<<x>>) /\ <<x>>[1] = x /\ DOMAIN <<x>> = {1}
  BY ChainOne
<1> QED
  BY <1>1 DEF Settled

\* resolveCorrelatedExitStatuses takes these steps.
ResolveStep(c, p, acc) ==
  IF ~(p.status = "completed" /\ c[p.state].failure # None)
  THEN [acc EXCEPT !.paths = Append(@, p)]
  ELSE LET n == Len(acc.h)
           s == [acc.h[p.state] EXCEPT !.failure = None]
           f == acc.h[acc.h[p.state].failure]
       IN [h |-> acc.h \o <<s, f>>,
           paths |-> acc.paths \o <<Path(n + 1, "completed"), Path(n + 2, "completed")>>]
Resolving == INSTANCE FoldsProofs WITH FoldStep <- ResolveStep
\* What resolveCorrelatedExitStatuses computes is the fold of these steps.
LEMMA ResolvedFold ==
  Resolved = Resolving!FromLeft(states, [h |-> states, paths |-> <<>>], result.paths)
<1> DEFINE s == result.paths
           base == [h |-> states, paths |-> <<>>]
           One(p, acc) ==
             IF ~Forks(p) THEN [acc EXCEPT !.paths = Append(@, p)]
             ELSE LET n == Len(acc.h)
                      u == [acc.h[p.state] EXCEPT !.failure = None]
                      f == acc.h[acc.h[p.state].failure]
                  IN [h |-> acc.h \o <<u, f>>,
                      paths |-> acc.paths \o <<Path(n + 1, "completed"), Path(n + 2, "completed")>>]
           Does(g) == [x \in SUBSET DOMAIN s |->
               IF x = {} THEN base
               ELSE ResolveStep(states, s[Resolving!Largest(x)], g[x \ {Resolving!Largest(x)}])]
           Same(g) == [x \in SUBSET DOMAIN s |->
               IF x = {} THEN base ELSE One(s[Resolving!Largest(x)], g[x \ {Resolving!Largest(x)}])]
<1>1. \A p, acc : ResolveStep(states, p, acc) = One(p, acc)
  BY Zenon DEF ResolveStep, Forks
<1>2. Resolved = (CHOOSE g : g = Same(g))[DOMAIN s]
  BY Zenon DEF Resolved, FoldLeft, MapThenFoldSet, Resolving!Largest, Max
<1>3. Resolving!FromLeft(states, base, s) = (CHOOSE g : g = Does(g))[DOMAIN s]
  BY Zenon DEF Resolving!FromLeft
<1>4. ASSUME NEW g
      PROVE  Does(g) = Same(g)
  <2> HIDE DEF One, base, s
  <2> QED
    BY <1>1, Zenon
<1>5. (CHOOSE g : g = Does(g)) = (CHOOSE g : g = Same(g))
  <2> HIDE DEF Does, Same
  <2> QED
    BY <1>4, Zenon
<1> QED
  BY <1>2, <1>3, <1>5, Zenon

\* What has become of the first k paths: sound paths of which none that is
\* completed has two states, of the same states and copies of them.
ResolvedTo(h, paths, k, a) ==
  /\ a = [h |-> a.h, paths |-> a.paths]
  /\ IsHeap(a.h) /\ Len(h) <= Len(a.h) /\ \A j \in DOMAIN h : a.h[j] = h[j]
  /\ Sound(a.h, a.paths) /\ Settled(a.h, a.paths)
  /\ \A i \in Chain(a.h, a.paths) :
       (\E b \in 1 .. k : i \in Parts(h, paths[b])) \/ i > Len(h)
  /\ \A i \in Len(h) + 1 .. Len(a.h) : \E j \in Chain(h, paths) : CopyOf(h[j], a.h[i])

\* The states with two more.
TwoMore(h, g, s, f) ==
  /\ IsHeap(g) /\ Len(g) = Len(h) + 2 /\ DOMAIN g = 1 .. Len(h) + 2
  /\ \A j \in DOMAIN h : g[j] = h[j]
  /\ g[Len(h) + 1] = s /\ g[Len(h) + 2] = f
\* What two more states make of the states.
LEMMA AddTwo ==
  ASSUME NEW h, IsHeap(h), NEW s, IsState(s), s.failure = None,
         NEW f, IsState(f), f.failure = None
  PROVE  TwoMore(h, h \o <<s, f>>, s, f)
<1> DEFINE t == <<s, f>>
           n == Len(h)
           g == h \o t
<1>1. IsSeq(h) /\ n \in Nat /\ DOMAIN h = 1 .. n /\ \A j \in 1 .. n : IsState(h[j]) /\ h[j].failure <= n
  BY SeqDomain DEF IsHeap
<1>2. IsSeq(t) /\ Len(t) = 2 /\ t[1] = s /\ t[2] = f
  BY PairIs
<1> HIDE DEF t
<1>3. /\ IsSeq(g) /\ Len(g) = n + 2
      /\ \A j \in 1 .. n : g[j] = h[j]
      /\ \A j \in 1 .. 2 : g[n + j] = t[j]
  <2>1. /\ IsSeq(h \o t) /\ Len(h \o t) = Len(h) + Len(t)
        /\ \A j \in 1 .. Len(h) : (h \o t)[j] = h[j]
        /\ \A j \in 1 .. Len(t) : (h \o t)[Len(h) + j] = t[j]
    <3>1. Joined(h, t)
      BY ONLY <1>1, <1>2, Joins
    <3> QED
      BY ONLY <3>1 DEF Joined
  <2> QED
    BY ONLY <1>2, <2>1
<1>4. DOMAIN g = 1 .. n + 2
  BY <1>3, SeqDomain
<1> HIDE DEF g, n
<1>5. g[n + 1] = s /\ g[n + 2] = f
  BY <1>2, <1>3
<1>6. ASSUME NEW j \in 1 .. n + 2
      PROVE  IsState(g[j]) /\ g[j].failure <= n + 2
  <2>1. CASE j \in 1 .. n
    <3>1. g[j] = h[j] /\ IsState(h[j]) /\ h[j].failure <= n
      BY <1>1, <1>3, <2>1
    <3>2. h[j].failure \in Nat
      BY <3>1, StateIs
    <3> QED
      BY ONLY <1>1, <3>1, <3>2
  <2>2. CASE j = n + 1 \/ j = n + 2
    <3>1. g[j] = s \/ g[j] = f
      BY <1>5, <2>2
    <3>2. 0 <= n + 2
      BY <1>1
    <3> QED
      BY <3>1, <3>2 DEF None
  <2> QED
    BY <1>1, <2>1, <2>2
<1>7. IsHeap(g)
  BY ONLY <1>3, <1>4, <1>6 DEF IsHeap
<1> QED
  BY <1>1, <1>3, <1>4, <1>5, <1>7 DEF TwoMore, g, t, n

\* One path more.
LEMMA ResolvedOne ==
  ASSUME NEW h, IsHeap(h), NEW paths, Sound(h, paths), NEW k \in 1 .. Len(paths),
         NEW a, ResolvedTo(h, paths, k - 1, a)
  PROVE  ResolvedTo(h, paths, k, ResolveStep(h, paths[k], a))
<1> DEFINE p == paths[k]
           b == ResolveStep(h, p, a)
           n == Len(a.h)
           x == a.paths
<1>1. /\ a = [h |-> a.h, paths |-> x]
      /\ IsHeap(a.h) /\ Len(h) <= n /\ \A j \in DOMAIN h : a.h[j] = h[j]
      /\ Sound(a.h, x) /\ Settled(a.h, x)
      /\ \A i \in Chain(a.h, x) :
           (\E c \in 1 .. k - 1 : i \in Parts(h, paths[c])) \/ i > Len(h)
      /\ \A i \in Len(h) + 1 .. n : \E j \in Chain(h, paths) : CopyOf(h[j], a.h[i])
  BY DEF ResolvedTo
<1>2. /\ IsSeq(h) /\ Len(h) \in Nat /\ DOMAIN h = 1 .. Len(h)
      /\ IsSeq(a.h) /\ n \in Nat /\ DOMAIN a.h = 1 .. n
      /\ IsSeq(paths) /\ DOMAIN paths = 1 .. Len(paths) /\ Len(paths) \in Nat
      /\ IsSeq(x)
  BY <1>1, SeqDomain DEF IsHeap, Sound
<1>3. IsPath(h, p)
  BY <1>2 DEF Sound
<1>4. /\ p = Path(p.state, p.status) /\ p.state \in DOMAIN h
      /\ h[p.state].failure # None =>
           /\ h[p.state].failure \in DOMAIN h /\ h[p.state].failure # p.state
           /\ h[h[p.state].failure].failure = None
  BY <1>3 DEF IsPath
<1>5. \A c \in 1 .. k - 1 : Parts(h, paths[c]) \cap Parts(h, p) = {}
  BY <1>2 DEF Sound
<1>6. \A j \in 1 .. Len(h) : j \in 1 .. n
  BY <1>1, <1>2
<1>7. CASE ~(p.status = "completed" /\ h[p.state].failure # None)
  <2>1. b = [a EXCEPT !.paths = Append(@, p)]
    BY <1>7 DEF ResolveStep
  <2>2. b = [h |-> a.h, paths |-> Append(x, p)]
    BY <1>1, <2>1
  <2>3. Append(x, p) = x \o <<p>>
    BY <1>2, AppendIs
  <2> DEFINE y == x \o <<p>>
  <2>4. b = [h |-> b.h, paths |-> b.paths] /\ b.h = a.h /\ b.paths = y
    BY <2>2, <2>3
  <2> HIDE DEF b
  <2>5. IsSeq(<<p>>) /\ Chain(a.h, <<p>>) = Parts(a.h, p)
    BY ChainOne
  <2>6. Parts(a.h, p) = Parts(h, p) /\ IsPath(a.h, p)
    <3>1. a.h[p.state] = h[p.state]
      BY <1>1, <1>4
    <3>2. Parts(a.h, p) = Parts(h, p)
      BY <3>1 DEF Parts
    <3>3. p.state \in DOMAIN a.h
      BY <1>2, <1>4, <1>6
    <3>4. ASSUME h[p.state].failure # None
          PROVE  /\ h[p.state].failure \in DOMAIN a.h /\ h[p.state].failure # p.state
                 /\ a.h[h[p.state].failure].failure = None
      BY <1>1, <1>2, <1>4, <1>6, <3>4
    <3> QED
      BY <1>4, <3>1, <3>2, <3>3, <3>4 DEF IsPath
  <2>7. Disjoint(a.h, x, <<p>>)
    <3> SUFFICES ASSUME NEW i, i \in Chain(a.h, x), i \in Parts(h, p) PROVE FALSE
      BY <2>5, <2>6 DEF Disjoint
    <3>1. CASE i > Len(h)
      <4>1. i \in 1 .. Len(h)
        BY <1>2, <1>4 DEF Parts
      <4> QED
        BY <1>2, <3>1, <4>1
    <3>2. CASE ~(i > Len(h))
      BY <1>1, <1>5, <3>2
    <3> QED
      BY <3>1, <3>2
  <2>8. Sound(a.h, y)
    <3>1. Sound(a.h, <<p>>)
      BY <2>6, SoundOne
    <3> QED
      BY <1>1, <1>2, <2>5, <2>7, <3>1, SoundConcat
  <2>9. Settled(a.h, y)
    <3>1. a.h[p.state] = h[p.state]
      BY <1>1, <1>4
    <3>2. Settled(a.h, <<p>>)
      BY <1>7, <3>1, SettledOne
    <3> QED
      BY <1>1, <1>2, <2>5, <3>2, SettledConcat
  <2>10. Chain(a.h, y) = Chain(a.h, x) \cup Parts(h, p)
    BY <1>2, <2>5, <2>6, ChainConcat
  <2> HIDE DEF y
  <2>11. ASSUME NEW i \in Chain(a.h, y)
         PROVE  (\E c \in 1 .. k : i \in Parts(h, paths[c])) \/ i > Len(h)
    <3>1. k \in 1 .. k /\ \A c \in 1 .. k - 1 : c \in 1 .. k
      BY <1>2
    <3>2. CASE i \in Parts(h, p)
      BY <3>1, <3>2
    <3>3. CASE i \notin Parts(h, p)
      BY <1>1, <2>10, <3>1, <3>3
    <3> QED
      BY <3>2, <3>3
  <2>12. ResolvedTo(h, paths, k, b)
    <3> HIDE DEF n, x, p
    <3>1. /\ IsHeap(a.h) /\ Len(h) <= Len(a.h) /\ \A j \in DOMAIN h : a.h[j] = h[j]
          /\ \A i \in Len(h) + 1 .. Len(a.h) : \E j \in Chain(h, paths) : CopyOf(h[j], a.h[i])
      BY ONLY <1>1 DEF n
    <3> QED
      BY ONLY <2>4, <2>8, <2>9, <2>11, <3>1 DEF ResolvedTo
  <2> QED
    BY <2>12 DEF b
<1>8. CASE p.status = "completed" /\ h[p.state].failure # None
  <2> DEFINE fl == h[p.state].failure
             s == [h[p.state] EXCEPT !.failure = None]
             f == h[fl]
             g == a.h \o <<s, f>>
             P1 == Path(n + 1, "completed")
             P2 == Path(n + 2, "completed")
             y == x \o <<P1, P2>>
  <2>1. fl \in DOMAIN h /\ fl # p.state /\ f.failure = None
    BY <1>4, <1>8
  <2>2. b = [h |-> g, paths |-> y]
    <3>1. a.h[p.state] = h[p.state] /\ a.h[fl] = h[fl]
      BY <1>1, <1>4, <2>1
    <3> QED
      BY <1>8, <3>1 DEF ResolveStep
  <2>3. /\ DOMAIN s = DOMAIN h[p.state] /\ s.failure = None /\ s.other = h[p.state].other
        /\ s.vars = h[p.state].vars /\ s.truth = h[p.state].truth
        /\ s.written = h[p.state].written /\ s.renewed = h[p.state].renewed
    BY <1>4, StateIs DEF IsHeap
  <2>4. IsState(s) /\ IsState(f)
    <3>1. IsState(h[p.state]) /\ IsState(f)
      BY <1>4, <2>1 DEF IsHeap
    <3> HIDE DEF s, f
    <3>2. None \in Nat
      BY DEF None
    <3> QED
      BY <2>3, <3>1, <3>2, StateIs
  <2>5. CopyOf(h[p.state], s) /\ CopyOf(h[fl], f)
    BY <2>3 DEF CopyOf
  <2> HIDE DEF s, f
  <2>6. TwoMore(a.h, g, s, f)
    BY <1>1, <2>1, <2>3, <2>4, AddTwo
  <2>7. b = [h |-> b.h, paths |-> b.paths] /\ b.h = g /\ b.paths = y
    <3> HIDE DEF b, g, y
    <3> QED
      BY ONLY <2>2
  <2> HIDE DEF g, b
  <2>8. /\ IsHeap(g) /\ Len(g) = n + 2 /\ DOMAIN g = 1 .. n + 2
        /\ \A j \in DOMAIN a.h : g[j] = a.h[j]
        /\ g[n + 1] = s /\ g[n + 2] = f
    BY <2>6 DEF TwoMore
  <2> DEFINE N == n + 1
             M == n + 2
  <2>9. /\ P1.state = N /\ P1.status = "completed" /\ P2.state = M /\ P2.status = "completed"
        /\ P1 = Path(P1.state, P1.status) /\ P2 = Path(P2.state, P2.status)
    BY DEF Path
  <2>10. N \in DOMAIN g /\ M \in DOMAIN g /\ N # M /\ N # None /\ M # None /\ N \notin 1 .. n /\ M \notin 1 .. n
    <3>1. n \in Nat /\ DOMAIN g = 1 .. n + 2
      BY <1>2, <2>8
    <3> HIDE DEF n
    <3> QED
      BY ONLY <3>1 DEF None
  <2>11. g[N].failure = None /\ g[M].failure = None
    BY <2>1, <2>3, <2>8
  <2> HIDE DEF P1, P2, N, M
  <2>12. IsPath(g, P1) /\ IsPath(g, P2) /\ Parts(g, P1) = {N} /\ Parts(g, P2) = {M}
    BY <2>9, <2>10, <2>11 DEF IsPath, Parts
  <2>13. /\ IsSeq(<<P1>>) /\ Chain(g, <<P1>>) = {N}
         /\ IsSeq(<<P2>>) /\ Chain(g, <<P2>>) = {M}
    BY <2>12, ChainOne
  <2> DEFINE two == <<P1>> \o <<P2>>
  <2>14. y = x \o two
    BY PairIs
  <2>15. IsSeq(two) /\ Chain(g, two) = {N, M}
    <3> DEFINE A1 == <<P1>>
               A2 == <<P2>>
    <3>1. IsSeq(A1) /\ Chain(g, A1) = {N} /\ IsSeq(A2) /\ Chain(g, A2) = {M}
      BY <2>13
    <3> HIDE DEF A1, A2
    <3>2. IsSeq(A1 \o A2) /\ Chain(g, A1 \o A2) = {N, M}
      BY ONLY <3>1, ChainConcat
    <3> QED
      BY <3>2 DEF A1, A2
  <2>16. Sound(g, two)
    <3>1. Sound(g, <<P1>>) /\ Sound(g, <<P2>>)
      BY <2>12, SoundOne
    <3>2. Disjoint(g, <<P1>>, <<P2>>)
      BY <2>10, <2>13 DEF Disjoint
    <3> QED
      BY <2>13, <3>1, <3>2, SoundConcat
  <2>17. Settled(g, two)
    <3>1. Settled(g, <<P1>>) /\ Settled(g, <<P2>>)
      BY <2>9, <2>11, SettledOne
    <3> QED
      BY <2>13, <3>1, SettledConcat
  <2> HIDE DEF two
  <2>18. /\ Chain(g, x) = Chain(a.h, x) /\ Sound(g, x)
         /\ Chain(a.h, x) \subseteq 1 .. n
    <3>1. Chain(a.h, x) \subseteq 1 .. n
      BY <1>1, <1>2, ChainInHeap
    <3>2. DOMAIN a.h \subseteq DOMAIN g
      <4>1. n \in Nat /\ DOMAIN g = 1 .. n + 2 /\ DOMAIN a.h = 1 .. n
        BY <1>2, <2>8
      <4> HIDE DEF n
      <4> QED
        BY ONLY <4>1
    <3>3. SameFailures(a.h, g, Chain(a.h, x))
      BY <1>2, <2>8, <3>1, <3>2 DEF SameFailures
    <3>4. \A c \in DOMAIN x : x[c].state \in DOMAIN a.h
      BY <1>1 DEF Sound, IsPath
    <3> QED
      BY <1>1, <1>2, <3>1, <3>3, <3>4, SoundSame
  <2>19. Disjoint(g, x, two)
    BY <2>10, <2>15, <2>18 DEF Disjoint
  <2>20. Sound(g, x \o two)
    BY <1>2, <2>15, <2>16, <2>18, <2>19, SoundConcat
  <2>21. Settled(g, x)
    <3>1. \A c \in DOMAIN x : x[c].state \in DOMAIN a.h
      BY <1>1 DEF Sound, IsPath
    <3> QED
      BY <1>1, <2>8, <3>1 DEF Settled
  <2>22. Settled(g, x \o two)
    BY <1>2, <2>15, <2>17, <2>21, SettledConcat
  <2>23. Chain(g, x \o two) = Chain(a.h, x) \cup {N, M}
    BY <1>2, <2>15, <2>18, ChainConcat
  <2>24. N > Len(h) /\ M > Len(h)
    <3>1. n \in Nat /\ Len(h) \in Nat /\ Len(h) <= n
      BY <1>1, <1>2
    <3> HIDE DEF n
    <3> QED
      BY ONLY <3>1 DEF N, M
  <2>25. ASSUME NEW i \in Chain(g, y)
         PROVE  (\E c \in 1 .. k : i \in Parts(h, paths[c])) \/ i > Len(h)
    <3>1. \A c \in 1 .. k - 1 : c \in 1 .. k
      BY <1>2
    <3>2. CASE i \in {N, M}
      BY <2>24, <3>2
    <3>3. CASE i \notin {N, M}
      BY <1>1, <2>14, <2>23, <2>25, <3>1, <3>3
    <3> QED
      BY <3>2, <3>3
  <2>26. ASSUME NEW i \in Len(h) + 1 .. n + 2
         PROVE  \E j \in Chain(h, paths) : CopyOf(h[j], g[i])
    <3>1. p.state \in Chain(h, paths) /\ fl \in Chain(h, paths)
      <4>1. p.state # None
        BY <1>2, <1>4 DEF None
      <4>2. p.state \in Parts(h, p) /\ fl \in Parts(h, p)
        BY <1>8, <4>1 DEF Parts
      <4> QED
        BY <1>2, <4>2, InChain
    <3>2. i \in Len(h) + 1 .. n \/ i = N \/ i = M
      <4>1. n \in Nat /\ Len(h) \in Nat /\ i \in Len(h) + 1 .. n + 2
        BY <1>2
      <4> HIDE DEF n
      <4> QED
        BY ONLY <4>1 DEF N, M
    <3>3. CASE i \in Len(h) + 1 .. n
      <4>1. i \in DOMAIN a.h
        <5>1. n \in Nat /\ Len(h) \in Nat /\ DOMAIN a.h = 1 .. n
          BY <1>2
        <5> HIDE DEF n
        <5> QED
          BY ONLY <3>3, <5>1
      <4> QED
        BY <1>1, <2>8, <3>3, <4>1
    <3>4. CASE i = N
      BY <2>5, <2>8, <3>1, <3>4 DEF N
    <3>5. CASE i = M
      BY <2>5, <2>8, <3>1, <3>5 DEF M
    <3> QED
      BY <3>2, <3>3, <3>4, <3>5
  <2>27. ResolvedTo(h, paths, k, b)
    <3>1. /\ IsHeap(g) /\ Len(h) <= Len(g) /\ \A j \in DOMAIN h : g[j] = h[j]
      <4>1. \A j \in DOMAIN h : g[j] = h[j]
        BY <1>1, <1>2, <1>6, <2>8
      <4>2. Len(h) \in Nat /\ n \in Nat /\ Len(h) <= n /\ Len(g) = n + 2
        BY <1>1, <1>2, <2>8
      <4>3. Len(h) <= Len(g)
        <5> HIDE DEF n
        <5> QED
          BY ONLY <4>2
      <4> QED
        BY <2>8, <4>1, <4>3
    <3>2. \A i \in Len(h) + 1 .. Len(g) : \E j \in Chain(h, paths) : CopyOf(h[j], g[i])
      BY <2>8, <2>26
    <3>3. Sound(g, y) /\ Settled(g, y)
      BY <2>14, <2>20, <2>22
    <3> HIDE DEF y, n, x, p, fl
    <3> QED
      BY ONLY <2>7, <2>25, <3>1, <3>2, <3>3 DEF ResolvedTo
  <2> QED
    BY <2>27 DEF b
<1> QED
  BY <1>7, <1>8 DEF p

\* What becomes of all paths.
LEMMA ResolvedIs ==
  ASSUME IsHeap(states), Sound(states, result.paths)
  PROVE  ResolvedTo(states, result.paths, Len(result.paths), Resolved)
<1> DEFINE base == [h |-> states, paths |-> <<>>]
           s == result.paths
           n == Len(s)
<1>1. IsSeq(s) /\ n \in Nat /\ s \in Seq(Range(s)) /\ Len(states) \in Nat
  BY SeqDomain DEF Sound, IsHeap
<1>2. Resolving!LeftSteps(states, base, s)
  <2> HIDE DEF base, s
  <2> QED
    BY ONLY <1>1, Resolving!LeftFold
<1>3. PICK g : /\ g[0] = base
               /\ \A k \in 1 .. n : g[k] = ResolveStep(states, s[k], g[k - 1])
               /\ Resolving!FromLeft(states, base, s) = g[n]
  BY <1>2 DEF Resolving!LeftSteps
<1> DEFINE Good == {k \in 0 .. n : ResolvedTo(states, s, k, g[k])}
<1>4. 0 \in Good
  <2>1. base.h = states /\ base.paths = <<>> /\ base = [h |-> base.h, paths |-> base.paths]
    OBVIOUS
  <2>2. Chain(states, <<>>) = {} /\ Sound(states, <<>>)
    BY ChainEmpty
  <2>3. Settled(states, <<>>)
    <3>1. DOMAIN <<>> = {}
      OBVIOUS
    <3> QED
      BY <3>1 DEF Settled
  <2>4. Len(states) + 1 .. Len(states) = {} /\ Len(states) <= Len(states)
    BY <1>1
  <2> HIDE DEF base
  <2>5. ResolvedTo(states, s, 0, base)
    BY <2>1, <2>2, <2>3, <2>4 DEF ResolvedTo
  <2>6. 0 \in 0 .. n
    BY <1>1
  <2> QED
    BY <1>3, <2>5, <2>6
<1>5. ASSUME NEW k \in 1 .. n, k - 1 \in Good
      PROVE  k \in Good
  <2>1. ResolvedTo(states, s, k - 1, g[k - 1]) /\ k \in 0 .. n
    BY <1>1, <1>5
  <2>2. ResolvedTo(states, s, k, ResolveStep(states, s[k], g[k - 1]))
    BY <2>1, ResolvedOne
  <2> QED
    BY <1>3, <2>1, <2>2
<1>6. n \in Good
  <2> HIDE DEF Good, n
  <2> QED
    BY <1>1, <1>4, <1>5, CountUp
<1>7. ResolvedTo(states, s, n, g[n])
  BY <1>6
<1> QED
  BY <1>3, <1>7, ResolvedFold

-------------------------------------------------------------------------------
(* The frames, and whose states they hold. *)

\* What a list holds is a sequence.
LEMMA IdleSeq ==
  ASSUME NEW fs, NEW ph, IsStack(fs, ph)
  PROVE  /\ IsSeq(fs) /\ Len(fs) \in Nat /\ DOMAIN fs = 1 .. Len(fs)
         /\ \A k \in 1 .. Len(fs) : IsSeq(Idle(fs, ph, k))
<1>1. IsSeq(fs) /\ Len(fs) \in Nat /\ DOMAIN fs = 1 .. Len(fs)
  BY SeqDomain DEF IsStack
<1>2. ASSUME NEW k \in 1 .. Len(fs)
      PROVE  IsSeq(Idle(fs, ph, k))
  <2>1. CASE ~IsListAt(fs, k)
    BY <2>1, ShortSeqs DEF Idle
  <2>2. CASE IsListAt(fs, k) /\ AtWork(fs, ph, k)
    <3>1. IsSeq(fs[k].next) /\ IsSeq(fs[k].todo) /\ fs[k].todo # <<>>
      BY <1>1, <2>2 DEF IsStack, IsListFrame
    <3>2. IsSeq(Tail(fs[k].todo))
      BY <3>1, HeadIs
    <3>3. Idle(fs, ph, k) = fs[k].next \o Tail(fs[k].todo)
      BY <2>2 DEF Idle
    <3> DEFINE a == fs[k].next
               b == Tail(fs[k].todo)
    <3> HIDE DEF a, b
    <3>4. Joined(a, b)
      BY <3>1, <3>2, Joins DEF a, b
    <3> QED
      BY <3>3, <3>4 DEF Joined, a, b
  <2>3. CASE IsListAt(fs, k) /\ ~AtWork(fs, ph, k)
    <3>1. IsSeq(fs[k].next) /\ IsSeq(fs[k].todo)
      BY <1>1, <2>3 DEF IsStack, IsListFrame
    <3>2. Idle(fs, ph, k) = fs[k].next \o fs[k].todo
      BY <2>3 DEF Idle
    <3> DEFINE a == fs[k].next
               b == fs[k].todo
    <3> HIDE DEF a, b
    <3>3. Joined(a, b)
      BY <3>1, Joins DEF a, b
    <3> QED
      BY <3>2, <3>3 DEF Joined, a, b
  <2> QED
    BY <2>1, <2>2, <2>3
<1> QED
  BY <1>1, <1>2

\* The innermost list, and its state.
LEMMA SelfIs ==
  ASSUME IsStack(frames, phase), phase \in {"statement", "body"}
  PROVE  /\ Self = SelfOf(frames)
         /\ Flying(frames, phase, result) = <<Path(Self, "completed")>>
<1> DEFINE S == {k \in DOMAIN frames : frames[k].kind = "list"}
<1>1. Self = Head(frames[Max(S)].todo).state
  BY DEF Self, List
<1>2. S \subseteq 1 .. Len(frames) /\ Len(frames) \in Nat
  BY IdleSeq
<1>3. Max(S) = Inner(frames)
  <2>1. \A k \in S : k \in Int
    BY <1>2
  <2>2. Max(S) = CHOOSE k \in S : \A l \in S : k >= l
    BY DEF Max
  <2>3. Inner(frames) = CHOOSE k \in DOMAIN frames :
                          k \in S /\ \A l \in DOMAIN frames : l \in S => l <= k
    BY DEF Inner, IsListAt
  <2>4. \A k : (k \in S /\ \A l \in S : k >= l)
               <=> (k \in DOMAIN frames /\ k \in S /\ \A l \in DOMAIN frames : l \in S => l <= k)
    BY <2>1
  <2> DEFINE A(k) == k \in S /\ \A l \in S : k >= l
             B(k) == k \in DOMAIN frames /\ k \in S /\ \A l \in DOMAIN frames : l \in S => l <= k
  <2>5. (CHOOSE k : A(k)) = (CHOOSE k : B(k))
    <3>1. \A k : A(k) <=> B(k)
      BY <2>4
    <3> HIDE DEF A, B
    <3> QED
      BY <3>1, Zenon
  <2> HIDE DEF S
  <2>6. Max(S) = CHOOSE k : A(k)
    BY <2>2, Zenon
  <2>7. Inner(frames) = CHOOSE k : B(k)
    BY <2>3, Zenon
  <2> QED
    BY <2>5, <2>6, <2>7, Zenon
<1>4. Self = SelfOf(frames)
  BY <1>1, <1>3 DEF SelfOf
<1> QED
  BY <1>4 DEF Flying

\* The paths that are evaluated, with those the innermost frame holds when it
\* is above n.
Upper(fs, ph, n) == IF Len(fs) = n THEN <<>> ELSE Idle(fs, ph, n + 1)
Above(fs, ph, res, n) == Flying(fs, ph, res) \o Upper(fs, ph, n)
IsAbove(h, fs, ph, res, n) ==
  /\ IsSeq(Flying(fs, ph, res)) /\ IsSeq(Upper(fs, ph, n))
  /\ Sound(h, Above(fs, ph, res, n))
  /\ Chain(h, Above(fs, ph, res, n)) = Live(h, fs, ph, res, n)
  /\ \A k \in 1 .. n : Disjoint(h, Above(fs, ph, res, n), Idle(fs, ph, k))
\* Those paths are sound, share no state with the frames up to n, and have the
\* live states.
LEMMA AboveIs ==
  ASSUME NEW h, NEW fs, NEW ph, NEW res, Owned(h, fs, ph, res),
         NEW n \in Nat, Len(fs) \in {n, n + 1}
  PROVE  IsAbove(h, fs, ph, res, n)
<1> DEFINE p == Flying(fs, ph, res)
           q == Upper(fs, ph, n)
<1>1. /\ 0 \in 0 .. Len(fs) /\ \A k \in 1 .. n : k \in 0 .. Len(fs) /\ k # 0 /\ k # n + 1
      /\ n + 1 # 0 /\ (Len(fs) # n => n + 1 \in 0 .. Len(fs))
  OBVIOUS
<1>2. /\ Group(fs, ph, res, 0) = p
      /\ \A k \in 1 .. Len(fs) : Group(fs, ph, res, k) = Idle(fs, ph, k)
  BY DEF Group
<1>3. /\ \A k \in 0 .. Len(fs) : Sound(h, Group(fs, ph, res, k))
      /\ \A k, l \in 0 .. Len(fs) : k # l => Disjoint(h, Group(fs, ph, res, k), Group(fs, ph, res, l))
  BY DEF Owned
<1>4. Sound(h, p)
  BY <1>1, <1>2, <1>3
<1>5. CASE Len(fs) = n
  <2>1. q = <<>>
    BY <1>5 DEF Upper
  <2>2. IsSeq(p) /\ IsSeq(q)
    BY <1>4, <2>1, ShortSeqs DEF Sound
  <2>3. p \o q = p
    BY <2>1, <2>2, ConcatIs
  <2>4. n + 1 .. Len(fs) = {}
    BY <1>5
  <2>5. Live(h, fs, ph, res, n) = Chain(h, p)
    BY <1>2, <2>4 DEF Live
  <2>6. \A k \in 1 .. n : Disjoint(h, p, Idle(fs, ph, k))
    BY <1>1, <1>2, <1>3, <1>5
  <2>7. Above(fs, ph, res, n) = p
    BY <2>3 DEF Above
  <2> HIDE DEF p, q
  <2> QED
    BY <1>4, <2>2, <2>5, <2>6, <2>7 DEF IsAbove, p, q
<1>6. CASE Len(fs) # n
  <2>1. q = Idle(fs, ph, n + 1) /\ Len(fs) = n + 1 /\ n + 1 \in 1 .. Len(fs)
    BY <1>6 DEF Upper
  <2>2. Sound(h, q) /\ Disjoint(h, p, q)
    BY <1>1, <1>2, <1>3, <1>6, <2>1
  <2>3. IsSeq(p) /\ IsSeq(q)
    BY <1>4, <2>2 DEF Sound
  <2>4. n + 1 .. Len(fs) = {n + 1}
    BY <2>1
  <2>5. Live(h, fs, ph, res, n) = Chain(h, p) \cup Chain(h, q)
    <3>1. {0} \cup n + 1 .. Len(fs) = {0, n + 1}
      BY <2>4
    <3>2. Live(h, fs, ph, res, n) = Chain(h, Group(fs, ph, res, 0)) \cup Chain(h, Group(fs, ph, res, n + 1))
      BY <3>1 DEF Live
    <3> QED
      BY <1>2, <2>1, <3>2
  <2>6. \A k \in 1 .. n : Disjoint(h, p, Idle(fs, ph, k)) /\ Disjoint(h, q, Idle(fs, ph, k))
    <3> SUFFICES ASSUME NEW k \in 1 .. n
                 PROVE  Disjoint(h, p, Idle(fs, ph, k)) /\ Disjoint(h, q, Idle(fs, ph, k))
      OBVIOUS
    <3>1. k \in 1 .. Len(fs)
      BY <2>1
    <3> QED
      BY <1>1, <1>2, <1>3, <2>1, <3>1
  <2> HIDE DEF p, q
  <2>7. Sound(h, p \o q)
    BY <1>4, <2>2, <2>3, SoundConcat
  <2>8. Chain(h, p \o q) = Chain(h, p) \cup Chain(h, q)
    BY <2>3, ChainConcat
  <2>9. \A k \in 1 .. n : Disjoint(h, p \o q, Idle(fs, ph, k))
    BY <2>6, <2>8 DEF Disjoint
  <2>10. Above(fs, ph, res, n) = p \o q
    BY DEF Above, p, q
  <2> QED
    BY <2>3, <2>5, <2>7, <2>8, <2>9, <2>10 DEF IsAbove, p, q
<1> QED
  BY <1>5, <1>6

-------------------------------------------------------------------------------
(* Steps that leave the frames up to n as they are. *)

Shift(h, fs, ph, res, g, gs, qh, qes, n) ==
  /\ n \in Nat /\ Len(fs) \in {n, n + 1} /\ Len(gs) \in {n, n + 1}
  /\ \A k \in 1 .. n : gs[k] = fs[k] /\ AtWork(fs, ph, k) /\ AtWork(gs, qh, k)
  /\ Len(h) <= Len(g)
  /\ \A k \in 1 .. n : \A i \in Chain(h, Idle(fs, ph, k)) : g[i] = h[i]
  /\ IsSeq(Flying(gs, qh, qes)) /\ Sound(g, Above(gs, qh, qes, n))
  /\ Settled(g, Upper(gs, qh, n)) /\ (qh = "return" \/ Settled(g, Flying(gs, qh, qes)))
  /\ \A i \in Chain(g, Above(gs, qh, qes, n)) :
       i \in Chain(h, Above(fs, ph, res, n)) \/ i > Len(h)

\* What these frames hold stays.
Stays(h, fs, ph, g, gs, qh, k) ==
  /\ IsListAt(gs, k) = IsListAt(fs, k) /\ Idle(gs, qh, k) = Idle(fs, ph, k)
  /\ \A a \in DOMAIN Idle(fs, ph, k) : Idle(fs, ph, k)[a].state \in Chain(h, Idle(fs, ph, k))
  /\ Chain(h, Idle(fs, ph, k)) \subseteq DOMAIN h
  /\ Chain(g, Idle(fs, ph, k)) = Chain(h, Idle(fs, ph, k))
  /\ Sound(g, Idle(fs, ph, k)) /\ Settled(g, Idle(fs, ph, k))
\* A step shifts no path that the frames up to n hold.
LEMMA ShiftStays ==
  ASSUME NEW h, IsHeap(h), NEW fs, NEW ph, NEW res, Owned(h, fs, ph, res),
         NEW g, IsHeap(g), NEW gs, NEW qh, NEW qes, NEW n,
         Shift(h, fs, ph, res, g, gs, qh, qes, n), NEW k \in 1 .. n
  PROVE  Stays(h, fs, ph, g, gs, qh, k)
<1>1. /\ n \in Nat /\ Len(fs) \in {n, n + 1} /\ Len(h) <= Len(g)
      /\ gs[k] = fs[k] /\ AtWork(fs, ph, k) /\ AtWork(gs, qh, k)
      /\ \A i \in Chain(h, Idle(fs, ph, k)) : g[i] = h[i]
  BY DEF Shift
<1>2. IsListAt(gs, k) = IsListAt(fs, k) /\ Idle(gs, qh, k) = Idle(fs, ph, k)
  BY <1>1 DEF IsListAt, Idle
<1>3. k \in 0 .. Len(fs) /\ k # 0
  BY <1>1
<1>4. Group(fs, ph, res, k) = Idle(fs, ph, k)
  BY <1>3 DEF Group
<1> DEFINE p == Idle(fs, ph, k)
<1>5. Sound(h, p) /\ Settled(h, p)
  BY <1>3, <1>4 DEF Owned
<1>6. /\ IsSeq(h) /\ Len(h) \in Nat /\ DOMAIN h = 1 .. Len(h)
      /\ IsSeq(g) /\ Len(g) \in Nat /\ DOMAIN g = 1 .. Len(g)
  BY SeqDomain DEF IsHeap
<1>7. IsSeq(p) /\ Chain(h, p) \subseteq DOMAIN h /\ \A a \in DOMAIN p : IsPath(h, p[a])
  BY <1>5, ChainInHeap DEF Sound
<1> HIDE DEF p
<1>8. ASSUME NEW a \in DOMAIN p
      PROVE  p[a].state \in Chain(h, p) /\ p[a].state \in DOMAIN h
  <2>1. p[a].state \in DOMAIN h
    BY <1>7 DEF IsPath
  <2>2. p[a].state \in Parts(h, p[a])
    BY <1>6, <2>1 DEF Parts, None
  <2> QED
    BY <1>7, <2>1, <2>2, InChain
<1>9. SameFailures(h, g, Chain(h, p))
  <2>1. DOMAIN h \subseteq DOMAIN g
    BY ONLY <1>1, <1>6
  <2>2. \A i \in Chain(h, p) : g[i].failure = h[i].failure
    BY <1>1 DEF p
  <2> QED
    BY <2>1, <2>2 DEF SameFailures
<1>10. Chain(g, p) = Chain(h, p) /\ Sound(g, p)
  BY <1>5, <1>7, <1>8, <1>9, SoundSame
<1>11. Settled(g, p)
  <2>1. \A i \in Chain(h, p) : g[i] = h[i]
    BY <1>1 DEF p
  <2> QED
    BY <1>5, <1>8, <2>1 DEF Settled
<1> QED
  BY <1>2, <1>5, <1>7, <1>8, <1>10, <1>11 DEF Stays, p

\* No state has two owners after the step.
LEMMA ShiftOwned ==
  ASSUME NEW h, IsHeap(h), NEW fs, NEW ph, NEW res, Owned(h, fs, ph, res),
         NEW g, IsHeap(g), NEW gs, NEW qh, IsStack(gs, qh), NEW qes, NEW n,
         Shift(h, fs, ph, res, g, gs, qh, qes, n)
  PROVE  Owned(g, gs, qh, qes)
<1> DEFINE p == Flying(gs, qh, qes)
           q == Upper(gs, qh, n)
           a == Above(fs, ph, res, n)
           b == Above(gs, qh, qes, n)
           I(k) == Idle(fs, ph, k)
           G(k) == Group(gs, qh, qes, k)
<1>1. /\ n \in Nat /\ Len(fs) \in {n, n + 1} /\ Len(gs) \in {n, n + 1}
      /\ IsSeq(p) /\ Sound(g, b) /\ b = p \o q
      /\ Settled(g, q) /\ (qh = "return" \/ Settled(g, p))
      /\ \A i \in Chain(g, b) : i \in Chain(h, a) \/ i > Len(h)
  BY DEF Shift, Above
<1>2. IsSeq(q)
  <2>1. CASE Len(gs) = n
    BY <2>1, ShortSeqs DEF Upper
  <2>2. CASE Len(gs) # n
    <3>1. n + 1 \in 1 .. Len(gs)
      BY <1>1, <2>2
    <3> QED
      BY <2>2, <3>1, IdleSeq DEF Upper
  <2> QED
    BY <2>1, <2>2
<1>3. IsAbove(h, fs, ph, res, n)
  BY <1>1, AboveIs
<1>4. \A k \in 1 .. n : Chain(h, a) \cap Chain(h, I(k)) = {}
  BY <1>3 DEF IsAbove, Disjoint
<1>5. \A k \in 1 .. n : Stays(h, fs, ph, g, gs, qh, k)
  BY ShiftStays
<1>6. DOMAIN h = 1 .. Len(h) /\ Len(h) \in Nat
  BY SeqDomain DEF IsHeap
<1> HIDE DEF p, q, a, b
<1>7. Sound(g, p) /\ Sound(g, q) /\ Disjoint(g, p, q)
  BY <1>1, <1>2, SoundConcat
<1>8. Chain(g, b) = Chain(g, p) \cup Chain(g, q)
  BY <1>1, <1>2, ChainConcat
<1>9. ASSUME NEW k \in 1 .. n
      PROVE  /\ G(k) = I(k) /\ Sound(g, G(k)) /\ Settled(g, G(k))
             /\ Disjoint(g, p, G(k)) /\ Disjoint(g, q, G(k))
  <2>1. k # 0
    BY <1>1
  <2>2. G(k) = I(k)
    BY <1>5, <2>1 DEF Group, Stays
  <2>3. /\ Sound(g, I(k)) /\ Settled(g, I(k)) /\ Chain(g, I(k)) = Chain(h, I(k))
        /\ Chain(h, I(k)) \subseteq DOMAIN h
    BY <1>5 DEF Stays
  <2> HIDE DEF I, G
  <2>4. \A i \in Chain(h, I(k)) : ~(i > Len(h))
    BY <1>6, <2>3
  <2>5. Chain(g, b) \cap Chain(g, I(k)) = {}
    BY <1>1, <1>4, <2>3, <2>4
  <2> QED
    BY <1>8, <2>2, <2>3, <2>5 DEF Disjoint
<1>10. ASSUME NEW k \in 1 .. n, NEW l \in 1 .. n, k # l
       PROVE  Disjoint(g, G(k), G(l))
  <2>1. k \in 0 .. Len(fs) /\ l \in 0 .. Len(fs) /\ k # 0 /\ l # 0
    BY <1>1
  <2>2. Disjoint(h, Group(fs, ph, res, k), Group(fs, ph, res, l))
    BY <1>10, <2>1 DEF Owned
  <2>3. Group(fs, ph, res, k) = I(k) /\ Group(fs, ph, res, l) = I(l)
    BY <2>1 DEF Group
  <2>4. G(k) = I(k) /\ G(l) = I(l)
    BY <1>9
  <2>5. Chain(g, I(k)) = Chain(h, I(k)) /\ Chain(g, I(l)) = Chain(h, I(l))
    BY <1>5 DEF Stays
  <2> QED
    BY <2>2, <2>3, <2>4, <2>5 DEF Disjoint
<1>11. G(0) = p
  BY DEF Group, p
<1>12. Len(gs) # n => Len(gs) = n + 1 /\ G(n + 1) = q
  BY <1>1 DEF Group, Upper, q
<1> HIDE DEF G, I
<1>13. ASSUME NEW k \in 0 .. Len(gs)
       PROVE  k = 0 \/ k \in 1 .. n \/ (k = n + 1 /\ Len(gs) # n)
  BY <1>1
<1>14. ASSUME NEW k \in 0 .. Len(gs)
       PROVE  /\ Sound(g, G(k)) /\ (k # 0 \/ qh # "return" => Settled(g, G(k)))
              /\ \A l \in 0 .. Len(gs) : k # l => Disjoint(g, G(k), G(l))
  <2>1. CASE k = 0
    <3>1. Sound(g, G(k)) /\ (k # 0 \/ qh # "return" => Settled(g, G(k)))
      BY <1>1, <1>7, <1>11, <2>1
    <3>2. \A l \in 0 .. Len(gs) : k # l => Disjoint(g, G(k), G(l))
      BY <1>7, <1>9, <1>11, <1>12, <1>13, <2>1
    <3> QED
      BY <3>1, <3>2
  <2>2. CASE k \in 1 .. n
    <3>1. \A l \in 1 .. n : k # l => Disjoint(g, G(k), G(l))
      BY <1>10, <2>2
    <3>2. Disjoint(g, G(k), p) /\ Disjoint(g, G(k), q)
      BY <1>9, <2>2 DEF Disjoint
    <3>3. \A l \in 0 .. Len(gs) : k # l => Disjoint(g, G(k), G(l))
      BY <1>11, <1>12, <1>13, <3>1, <3>2
    <3> QED
      BY <1>9, <2>2, <3>3
  <2>3. CASE k = n + 1 /\ Len(gs) # n
    <3>1. Sound(g, G(k)) /\ Settled(g, G(k))
      BY <1>1, <1>7, <1>12, <2>3
    <3>2. Disjoint(g, q, p) /\ \A l \in 1 .. n : Disjoint(g, q, G(l))
      BY <1>7, <1>9 DEF Disjoint
    <3>3. \A l \in 0 .. Len(gs) : k # l => Disjoint(g, G(k), G(l))
      BY <1>11, <1>12, <1>13, <2>3, <3>2
    <3> QED
      BY <3>1, <3>3
  <2> QED
    BY <1>13, <2>1, <2>2, <2>3
<1> QED
  BY <1>14 DEF Owned, G

-------------------------------------------------------------------------------
(* What paths retain. *)

\* The bytes of a state as they are kept, or counted from what it holds.
CountedOwnIn(h, i) == CountedBytes(h[i].vars) + h[i].other
CountedIn(h, i) ==
  CountedOwnIn(h, i) + (IF h[i].failure = None THEN 0
                        ELSE EntryBytes + CountedOwnIn(h, h[i].failure))
Worth(c, i) == IF c.counted THEN CountedIn(c.h, i) ELSE StateBytes(c.h, i)
Kind(h, counted) == [h |-> h, counted |-> counted]
SumStep(c, p, acc) == acc + Worth(c, p.state)
Adding == INSTANCE FoldsProofs WITH FoldStep <- SumStep
Total(c, paths) == Adding!FromLeft(c, 0, paths)

\* The sums of the model are these.
LEMMA SumIsTotal ==
  ASSUME NEW h, NEW paths
  PROVE  SumOver(h, paths) = Total(Kind(h, FALSE), paths)
<1> DEFINE c == Kind(h, FALSE)
           One(p, n) == n + StateBytes(h, p.state)
           Does(g) == [x \in SUBSET DOMAIN paths |->
               IF x = {} THEN 0
               ELSE SumStep(c, paths[Adding!Largest(x)], g[x \ {Adding!Largest(x)}])]
           Same(g) == [x \in SUBSET DOMAIN paths |->
               IF x = {} THEN 0 ELSE One(paths[Adding!Largest(x)], g[x \ {Adding!Largest(x)}])]
<1>1. \A p, n : SumStep(c, p, n) = One(p, n)
  <2>1. c.counted = FALSE /\ c.h = h
    BY DEF Kind
  <2> HIDE DEF c
  <2> QED
    BY <2>1, Zenon DEF SumStep, Worth
<1>2. SumOver(h, paths) = (CHOOSE g : g = Same(g))[DOMAIN paths]
  BY Zenon DEF SumOver, FoldLeft, MapThenFoldSet, Adding!Largest, Max
<1>3. Adding!FromLeft(c, 0, paths) = (CHOOSE g : g = Does(g))[DOMAIN paths]
  BY Zenon DEF Adding!FromLeft
<1>4. ASSUME NEW g
      PROVE  Does(g) = Same(g)
  <2> HIDE DEF One, c
  <2> QED
    BY <1>1, Zenon
<1>5. (CHOOSE g : g = Does(g)) = (CHOOSE g : g = Same(g))
  <2> HIDE DEF Does, Same
  <2> QED
    BY <1>4, Zenon
<1> QED
  BY <1>2, <1>3, <1>5, Zenon DEF Total

\* What is counted anew is such a sum, too.
LEMMA CountedIsTotal ==
  ASSUME NEW paths
  PROVE  Counted(paths) = Total(Kind(states, TRUE), paths)
<1> DEFINE c == Kind(states, TRUE)
           One(p, n) == n + CountedState(p.state)
           Does(g) == [x \in SUBSET DOMAIN paths |->
               IF x = {} THEN 0
               ELSE SumStep(c, paths[Adding!Largest(x)], g[x \ {Adding!Largest(x)}])]
           Same(g) == [x \in SUBSET DOMAIN paths |->
               IF x = {} THEN 0 ELSE One(paths[Adding!Largest(x)], g[x \ {Adding!Largest(x)}])]
<1>1. \A p, n : SumStep(c, p, n) = One(p, n)
  <2>1. c.counted = TRUE /\ c.h = states
    BY DEF Kind
  <2> HIDE DEF c
  <2>2. \A i : Worth(c, i) = CountedState(i)
    BY <2>1 DEF Worth, CountedIn, CountedOwnIn, CountedState, CountedOwn
  <2> QED
    BY <2>2, Zenon DEF SumStep
<1>2. Counted(paths) = (CHOOSE g : g = Same(g))[DOMAIN paths]
  BY Zenon DEF Counted, FoldLeft, MapThenFoldSet, Adding!Largest, Max
<1>3. Adding!FromLeft(c, 0, paths) = (CHOOSE g : g = Does(g))[DOMAIN paths]
  BY Zenon DEF Adding!FromLeft
<1>4. ASSUME NEW g
      PROVE  Does(g) = Same(g)
  <2> HIDE DEF One, c
  <2> QED
    BY <1>1, Zenon
<1>5. (CHOOSE g : g = Does(g)) = (CHOOSE g : g = Same(g))
  <2> HIDE DEF Does, Same
  <2> QED
    BY <1>4, Zenon
<1> QED
  BY <1>2, <1>3, <1>5, Zenon DEF Total

\* Sums of integers.
Worths(c, paths) == \A a \in DOMAIN paths : Worth(c, paths[a].state) \in Int

\* The first elements have partial sums.
Partial(c, paths, g) ==
  /\ g[0] = 0
  /\ \A k \in 1 .. Len(paths) : g[k] = g[k - 1] + Worth(c, paths[k].state)
  /\ Total(c, paths) = g[Len(paths)]
  /\ \A k \in 0 .. Len(paths) : g[k] \in Int
\* A sum of integers has partial sums.
LEMMA PartialSums ==
  ASSUME NEW c, NEW paths, IsSeq(paths), Worths(c, paths)
  PROVE  \E g : Partial(c, paths, g)
<1>1. /\ paths \in Seq(Range(paths)) /\ Len(paths) \in Nat /\ DOMAIN paths = 1 .. Len(paths)
  BY SeqDomain
<1>2. Adding!LeftSteps(c, 0, paths)
  BY <1>1, Adding!LeftFold
<1>3. PICK g : /\ g[0] = 0
               /\ \A k \in 1 .. Len(paths) : g[k] = SumStep(c, paths[k], g[k - 1])
               /\ Total(c, paths) = g[Len(paths)]
  BY <1>2 DEF Adding!LeftSteps, Total
<1>4. \A k \in 1 .. Len(paths) : g[k] = g[k - 1] + Worth(c, paths[k].state)
  BY <1>3 DEF SumStep
<1>5. \A k \in 1 .. Len(paths) : Worth(c, paths[k].state) \in Int
  BY <1>1 DEF Worths
<1> DEFINE Good == {k \in 0 .. Len(paths) : \A l \in 0 .. k : g[l] \in Int}
<1>6. 0 \in Good
  BY <1>1, <1>3
<1>7. ASSUME NEW k \in 1 .. Len(paths), k - 1 \in Good
      PROVE  k \in Good
  <2>1. \A l \in 0 .. k - 1 : g[l] \in Int
    BY <1>7
  <2>2. k - 1 \in 0 .. k - 1 /\ k \in 0 .. Len(paths) /\ k \in Int
    BY <1>1
  <2>3. g[k] \in Int
    BY <1>4, <1>5, <2>1, <2>2
  <2>4. \A l \in 0 .. k : l \in 0 .. k - 1 \/ l = k
    BY <2>2
  <2>5. \A l \in 0 .. k : g[l] \in Int
    BY <2>1, <2>3, <2>4
  <2> QED
    BY <2>2, <2>5
<1>8. Len(paths) \in Good
  <2> HIDE DEF Good
  <2> QED
    BY <1>1, <1>6, <1>7, CountUp
<1> QED
  BY <1>3, <1>4, <1>8 DEF Partial

\* The sum is a number, and none of no paths.
LEMMA TotalType ==
  ASSUME NEW c, NEW paths, IsSeq(paths), Worths(c, paths)
  PROVE  Total(c, paths) \in Int /\ (Len(paths) = 0 => Total(c, paths) = 0)
<1>1. PICK g : Partial(c, paths, g)
  BY PartialSums
<1>2. Len(paths) \in Nat
  BY SeqDomain
<1>3. Len(paths) \in 0 .. Len(paths)
  BY <1>2
<1> QED
  BY <1>1, <1>3 DEF Partial

\* Paths that are worth the same have the same sum.
LEMMA TotalSame ==
  ASSUME NEW c, NEW p, IsSeq(p), Worths(c, p), NEW d, NEW q, IsSeq(q), Len(q) = Len(p),
         \A a \in DOMAIN p : Worth(d, q[a].state) = Worth(c, p[a].state)
  PROVE  Total(d, q) = Total(c, p)
<1>1. Len(p) \in Nat /\ DOMAIN p = 1 .. Len(p) /\ DOMAIN q = 1 .. Len(p)
  BY SeqDomain
<1>2. Worths(d, q)
  BY <1>1 DEF Worths
<1>3. PICK f : Partial(c, p, f)
  BY PartialSums
<1>4. PICK g : Partial(d, q, g)
  BY <1>2, PartialSums
<1> DEFINE Good == {k \in 0 .. Len(p) : g[k] = f[k]}
<1>5. 0 \in Good
  BY <1>1, <1>3, <1>4 DEF Partial
<1>6. ASSUME NEW k \in 1 .. Len(p), k - 1 \in Good
      PROVE  k \in Good
  <2>1. k \in 0 .. Len(p) /\ g[k - 1] = f[k - 1] /\ k \in DOMAIN p
    BY <1>1, <1>6
  <2>2. /\ f[k] = f[k - 1] + Worth(c, p[k].state)
        /\ g[k] = g[k - 1] + Worth(d, q[k].state)
    BY <1>3, <1>4 DEF Partial
  <2> QED
    BY <2>1, <2>2
<1>7. Len(p) \in Good
  <2> HIDE DEF Good
  <2> QED
    BY <1>1, <1>5, <1>6, CountUp
<1> QED
  BY <1>3, <1>4, <1>7 DEF Partial

\* The sum of paths one after the other.
LEMMA TotalConcat ==
  ASSUME NEW c, NEW p, IsSeq(p), Worths(c, p), NEW q, IsSeq(q), Worths(c, q)
  PROVE  Total(c, p \o q) = Total(c, p) + Total(c, q) /\ Worths(c, p \o q)
<1> DEFINE s == p \o q
           m == Len(p)
           n == Len(q)
<1>1. Joined(p, q)
  BY Joins
<1>2. /\ IsSeq(s) /\ Len(s) = m + n /\ m \in Nat /\ n \in Nat
      /\ \A i \in 1 .. m : s[i] = p[i]
      /\ \A i \in 1 .. n : s[m + i] = q[i]
  BY <1>1, SeqDomain DEF Joined
<1>3. DOMAIN s = 1 .. m + n /\ DOMAIN p = 1 .. m /\ DOMAIN q = 1 .. n
  BY <1>2, SeqDomain
<1> HIDE DEF s, m, n
<1>4. Worths(c, s)
  <2>1. \A a \in 1 .. m : Worth(c, p[a].state) \in Int
    BY <1>3 DEF Worths
  <2>2. \A a \in 1 .. n : Worth(c, q[a].state) \in Int
    BY <1>3 DEF Worths
  <2>3. ASSUME NEW a \in 1 .. m + n
        PROVE  Worth(c, s[a].state) \in Int
    <3>1. CASE a \in 1 .. m
      BY <1>2, <2>1, <3>1
    <3>2. CASE a \notin 1 .. m
      <4>1. a - m \in 1 .. n /\ m + (a - m) = a
        BY <1>2, <3>2
      <4>2. s[m + (a - m)] = q[a - m]
        BY <1>2, <4>1
      <4> QED
        BY <2>2, <4>1, <4>2
    <3> QED
      BY <3>1, <3>2
  <2> QED
    BY <1>3, <2>3 DEF Worths
<1>5. PICK f : Partial(c, p, f)
  BY PartialSums
<1>6. PICK e : Partial(c, q, e)
  BY PartialSums
<1>7. PICK g : Partial(c, s, g)
  BY <1>2, <1>4, PartialSums
<1>8. /\ f[0] = 0 /\ \A k \in 1 .. m : f[k] = f[k - 1] + Worth(c, p[k].state)
      /\ Total(c, p) = f[m] /\ f[m] \in Int
      /\ e[0] = 0 /\ \A k \in 1 .. n : e[k] = e[k - 1] + Worth(c, q[k].state)
      /\ Total(c, q) = e[n] /\ \A k \in 0 .. n : e[k] \in Int
      /\ g[0] = 0 /\ \A k \in 1 .. m + n : g[k] = g[k - 1] + Worth(c, s[k].state)
      /\ Total(c, s) = g[m + n]
  <2>1. m \in 0 .. m
    BY <1>2
  <2> QED
    BY <1>2, <1>5, <1>6, <1>7, <2>1 DEF Partial, m, n
<1> DEFINE Good == {k \in 0 .. m : g[k] = f[k]}
<1>9. m \in Good
  <2>1. 0 \in Good
    BY <1>2, <1>8
  <2>2. ASSUME NEW k \in 1 .. m, k - 1 \in Good
        PROVE  k \in Good
    <3>1. k \in 0 .. m /\ g[k - 1] = f[k - 1] /\ k \in 1 .. m + n /\ s[k] = p[k]
      BY <1>2, <2>2
    <3>2. f[k] = f[k - 1] + Worth(c, p[k].state) /\ g[k] = g[k - 1] + Worth(c, s[k].state)
      BY <1>8, <3>1
    <3> QED
      BY <3>1, <3>2
  <2> HIDE DEF Good
  <2> QED
    BY <1>2, <2>1, <2>2, CountUp
<1> DEFINE Fine == {k \in 0 .. n : g[m + k] = f[m] + e[k]}
<1>10. n \in Fine
  <2>1. 0 \in Fine
    <3>1. g[m] = f[m] /\ m + 0 = m /\ f[m] + 0 = f[m] /\ 0 \in 0 .. n
      BY <1>2, <1>8, <1>9
    <3> QED
      BY <1>8, <3>1
  <2>2. ASSUME NEW k \in 1 .. n, k - 1 \in Fine
        PROVE  k \in Fine
    <3>1. /\ k \in 0 .. n /\ k - 1 \in 0 .. n /\ m + k \in 1 .. m + n
          /\ m + k - 1 = m + (k - 1) /\ s[m + k] = q[k]
      BY <1>2
    <3>2. g[m + (k - 1)] = f[m] + e[k - 1]
      BY <2>2
    <3>3. e[k] = e[k - 1] + Worth(c, q[k].state) /\ e[k] \in Int /\ e[k - 1] \in Int
      BY <1>8, <3>1
    <3>4. g[m + k] = g[m + (k - 1)] + Worth(c, q[k].state)
      <4> DEFINE l == m + k
      <4>1. l \in 1 .. m + n /\ l - 1 = m + (k - 1) /\ s[l] = q[k]
        BY <1>2, <3>1
      <4> HIDE DEF l
      <4>2. g[l] = g[l - 1] + Worth(c, s[l].state)
        BY <1>8, <4>1
      <4>3. g[l] = g[m + (k - 1)] + Worth(c, q[k].state)
        BY ONLY <4>1, <4>2
      <4> QED
        BY <4>3 DEF l
    <3>5. Worth(c, q[k].state) \in Int
      BY <1>3 DEF Worths
    <3>6. g[m + k] = f[m] + e[k]
      BY <1>8, <3>2, <3>3, <3>4, <3>5
    <3> QED
      BY <3>1, <3>6
  <2> HIDE DEF Fine
  <2> QED
    BY <1>2, <2>1, <2>2, CountUp
<1>11. Total(c, s) = Total(c, p) + Total(c, q)
  BY <1>8, <1>10
<1> QED
  BY <1>4, <1>11 DEF s

\* The sum of one path.
LEMMA TotalOne ==
  ASSUME NEW c, NEW x, Worth(c, x.state) \in Int
  PROVE  Total(c, <<x>>) = Worth(c, x.state) /\ Worths(c, <<x>>)
<1> DEFINE p == <<x>>
<1>1. IsSeq(p) /\ Len(p) = 1 /\ p[1] = x /\ DOMAIN p = {1}
  BY ChainOne
<1> HIDE DEF p
<1>2. Worths(c, p)
  BY <1>1 DEF Worths
<1>3. PICK g : Partial(c, p, g)
  BY <1>1, <1>2, PartialSums
<1>4. g[0] = 0 /\ g[1] = g[0] + Worth(c, x.state) /\ Total(c, p) = g[1]
  <2>1. 1 \in 1 .. 1 /\ 1 - 1 = 0
    OBVIOUS
  <2> QED
    BY <1>1, <1>3, <2>1 DEF Partial
<1> QED
  BY <1>2, <1>4 DEF p

-------------------------------------------------------------------------------
(* Budgets. *)

\* Paths of states that there are.
InHeap(h, paths) == IsSeq(paths) /\ \A a \in DOMAIN paths : paths[a].state \in DOMAIN h
\* Sound paths are of states that there are.
LEMMA SoundInHeap ==
  ASSUME NEW h, NEW paths, Sound(h, paths)
  PROVE  InHeap(h, paths)
  BY DEF Sound, IsPath, InHeap

\* What a state retains, and its failure with it.
StateSums(h, i) ==
  /\ StateBytes(h, i) \in Int /\ CountedIn(h, i) = StateBytes(h, i)
  /\ Own(h, i) \in Int
\* The bytes of a state are a number; those kept are those counted anew.
LEMMA BytesAre ==
  ASSUME NEW h, IsHeap(h), NEW i \in DOMAIN h
  PROVE  StateSums(h, i)
<1>1. EntryBytes \in Int
  BY AssignmentsAssumption
<1>2. ASSUME NEW j \in DOMAIN h
      PROVE  h[j].vars.bytes = CountedBytes(h[j].vars) /\ h[j].vars.bytes \in Int /\ h[j].other \in Int
  <2> DEFINE vs == h[j].vars
  <2>1. IsVars(vs) /\ Owners(vs) \subseteq Name /\ h[j].other \in Nat
    BY DEF IsHeap, IsState
  <2> HIDE DEF vs
  <2>2. /\ IsFiniteSet(DOMAIN vs.data) /\ IsFiniteSet(DOMAIN vs.indexed)
        /\ IsFiniteSet(vs.unknown) /\ IsFiniteSet(DOMAIN vs.versions)
        /\ \A n \in DOMAIN vs.data : DataCosts(vs)[n] \in Int
        /\ \A n \in DOMAIN vs.indexed : SlotCosts(vs)[n] \in Int
        /\ \A n \in vs.unknown : Marks(vs.unknown)[n] \in Int
        /\ \A n \in DOMAIN vs.versions : Marks(DOMAIN vs.versions)[n] \in Int
    BY <2>1, PartTypes
  <2>3. SumFunctionOnSet(DataCosts(vs), DOMAIN vs.data) \in Int
    BY <2>2, SumType
  <2>4. SumFunctionOnSet(SlotCosts(vs), DOMAIN vs.indexed) \in Int
    BY <2>2, SumType
  <2>5. SumFunctionOnSet(Marks(vs.unknown), vs.unknown) \in Int
    BY <2>2, SumType
  <2>6. SumFunctionOnSet(Marks(DOMAIN vs.versions), DOMAIN vs.versions) \in Int
    BY <2>2, SumType
  <2>7. CountedBytes(vs) \in Int
    BY <2>3, <2>4, <2>5, <2>6, CountedParts
  <2> QED
    BY <2>1, <2>7 DEF IsVars, vs
<1>3. \A j \in DOMAIN h : Own(h, j) \in Int /\ CountedOwnIn(h, j) = Own(h, j)
  BY <1>2 DEF Own, CountedOwnIn
<1>4. h[i].failure # None => h[i].failure \in DOMAIN h
  <2>1. h[i].failure <= Len(h) /\ h[i].failure \in Nat /\ Len(h) \in Nat /\ DOMAIN h = 1 .. Len(h)
    BY SeqDomain DEF IsHeap, IsState
  <2> QED
    BY <2>1 DEF None
<1>5. StateBytes(h, i) \in Int
  BY <1>1, <1>3, <1>4 DEF StateBytes, Failure
<1>6. CountedIn(h, i) = StateBytes(h, i)
  BY <1>3, <1>4 DEF StateBytes, Failure, CountedIn
<1> QED
  BY <1>3, <1>5, <1>6 DEF StateSums

\* The sums over paths.
LEMMA KindIs ==
  ASSUME NEW h, IsHeap(h), NEW paths, InHeap(h, paths), NEW counted \in BOOLEAN
  PROVE  Worths(Kind(h, counted), paths)
         /\ \A a \in DOMAIN paths :
              Worth(Kind(h, counted), paths[a].state) = StateBytes(h, paths[a].state)
<1> DEFINE c == Kind(h, counted)
<1>1. c.counted = counted /\ c.h = h
  BY DEF Kind
<1> HIDE DEF c
<1>2. \A i \in DOMAIN h : StateSums(h, i)
  BY BytesAre
<1>3. \A i \in DOMAIN h : Worth(c, i) = StateBytes(h, i) /\ Worth(c, i) \in Int
  BY <1>1, <1>2 DEF Worth, StateSums
<1> QED
  BY <1>3 DEF InHeap, Worths, c

PathSums(h, p) == SumOver(h, p) \in Int /\ (Len(p) = 0 => SumOver(h, p) = 0)
\* The bytes of paths are a number, which is 0 of no path.
LEMMA SumIs ==
  ASSUME NEW h, IsHeap(h), NEW p, InHeap(h, p)
  PROVE  PathSums(h, p)
<1>1. Worths(Kind(h, FALSE), p)
  BY KindIs
<1> QED
  BY <1>1, TotalType, SumIsTotal DEF InHeap, PathSums

\* The bytes of paths one after the other are the sum of both.
LEMMA SumConcat ==
  ASSUME NEW h, IsHeap(h), NEW p, InHeap(h, p), NEW q, InHeap(h, q)
  PROVE  SumOver(h, p \o q) = SumOver(h, p) + SumOver(h, q)
<1>1. Worths(Kind(h, FALSE), p) /\ Worths(Kind(h, FALSE), q)
  BY KindIs
<1>2. IsSeq(p) /\ IsSeq(q)
  BY DEF InHeap
<1>3. Total(Kind(h, FALSE), p \o q) = Total(Kind(h, FALSE), p) + Total(Kind(h, FALSE), q)
  BY <1>1, <1>2, TotalConcat
<1> QED
  BY <1>3, SumIsTotal

\* The bytes of one path are those of its state.
LEMMA SumOnePath ==
  ASSUME NEW h, IsHeap(h), NEW x, x.state \in DOMAIN h
  PROVE  SumOver(h, <<x>>) = StateBytes(h, x.state)
<1> DEFINE p == <<x>>
<1>1. IsSeq(p) /\ Len(p) = 1 /\ p[1] = x /\ DOMAIN p = {1}
  BY ChainOne
<1> HIDE DEF p
<1>2. InHeap(h, p)
  BY <1>1 DEF InHeap
<1>3. Worths(Kind(h, FALSE), p) /\ Worth(Kind(h, FALSE), x.state) = StateBytes(h, x.state)
  BY <1>1, <1>2, KindIs
<1>4. Worth(Kind(h, FALSE), x.state) \in Int
  BY <1>1, <1>3 DEF Worths
<1>5. Total(Kind(h, FALSE), <<x>>) = StateBytes(h, x.state)
  BY <1>3, <1>4, TotalOne
<1> QED
  BY <1>5, SumIsTotal

\* Paths of the same states.
SameStates(h, p, g, q) ==
  /\ Len(q) = Len(p)
  /\ \A a \in DOMAIN p : StateBytes(g, q[a].state) = StateBytes(h, p[a].state)
\* Paths of states with the same bytes have the same bytes.
LEMMA SumSameStates ==
  ASSUME NEW h, IsHeap(h), NEW p, InHeap(h, p), NEW g, IsHeap(g), NEW q, InHeap(g, q),
         SameStates(h, p, g, q)
  PROVE  SumOver(g, q) = SumOver(h, p)
<1> DEFINE c == Kind(h, FALSE)
           d == Kind(g, FALSE)
<1>1. /\ Worths(c, p) /\ \A a \in DOMAIN p : Worth(c, p[a].state) = StateBytes(h, p[a].state)
      /\ \A a \in DOMAIN q : Worth(d, q[a].state) = StateBytes(g, q[a].state)
  BY KindIs
<1>2. IsSeq(p) /\ IsSeq(q) /\ DOMAIN p = 1 .. Len(p) /\ DOMAIN q = 1 .. Len(q) /\ Len(q) = Len(p)
  BY SeqDomain DEF InHeap, SameStates
<1>3. \A a \in DOMAIN p : Worth(d, q[a].state) = Worth(c, p[a].state)
  BY <1>1, <1>2 DEF SameStates
<1> HIDE DEF c, d
<1>4. Total(d, q) = Total(c, p)
  BY <1>1, <1>2, <1>3, TotalSame
<1> QED
  BY <1>4, SumIsTotal DEF c, d

\* The bytes of paths counted anew are those that are kept.
LEMMA CountedIs ==
  ASSUME IsHeap(states), NEW p, InHeap(states, p)
  PROVE  Counted(p) = SumOver(states, p)
<1> DEFINE c == Kind(states, FALSE)
           d == Kind(states, TRUE)
<1>1. /\ Worths(c, p) /\ \A a \in DOMAIN p : Worth(c, p[a].state) = StateBytes(states, p[a].state)
      /\ \A a \in DOMAIN p : Worth(d, p[a].state) = StateBytes(states, p[a].state)
  BY KindIs
<1>2. IsSeq(p)
  BY DEF InHeap
<1> HIDE DEF c, d
<1>3. Total(d, p) = Total(c, p)
  BY <1>1, <1>2, TotalSame
<1> QED
  BY <1>3, SumIsTotal, CountedIsTotal DEF c, d

\* What is charged stays charged for what the frames up to n hold.
LEMMA ShiftBudgets ==
  ASSUME NEW h, IsHeap(h), NEW fs, NEW ph, NEW res, Owned(h, fs, ph, res), Budgets(h, fs, ph),
         NEW g, IsHeap(g), NEW gs, NEW qh, NEW qes, NEW n,
         Shift(h, fs, ph, res, g, gs, qh, qes, n),
         Len(gs) = n + 1 /\ IsListAt(gs, n + 1) => BudgetAt(g, gs, qh, n + 1)
  PROVE  Budgets(g, gs, qh)
<1>1. /\ n \in Nat /\ Len(fs) \in {n, n + 1} /\ Len(gs) \in {n, n + 1}
      /\ \A k \in 1 .. n : gs[k] = fs[k] /\ AtWork(fs, ph, k) /\ AtWork(gs, qh, k)
      /\ \A k \in 1 .. n : \A i \in Chain(h, Idle(fs, ph, k)) : g[i] = h[i]
  BY DEF Shift
<1>2. ASSUME NEW k \in 1 .. n, IsListAt(gs, k)
      PROVE  BudgetAt(g, gs, qh, k)
  <2> DEFINE p == Idle(fs, ph, k)
  <2>1. Stays(h, fs, ph, g, gs, qh, k)
    BY ShiftStays
  <2>2. /\ IsListAt(fs, k) /\ Idle(gs, qh, k) = p
        /\ \A a \in DOMAIN p : p[a].state \in Chain(h, p)
        /\ Chain(h, p) \subseteq DOMAIN h
        /\ Sound(g, p)
    BY <1>2, <2>1 DEF Stays
  <2>3. \A i \in Chain(h, p) : g[i] = h[i]
    BY <1>1
  <2>4. k \in 1 .. Len(fs)
    BY <1>1
  <2>5. BudgetAt(h, fs, ph, k)
    BY <2>2, <2>4 DEF Budgets
  <2>6. gs[k] = fs[k] /\ AtWork(fs, ph, k) /\ AtWork(gs, qh, k)
    BY <1>1
  <2> HIDE DEF p
  <2>7. InHeap(h, p) /\ InHeap(g, p) /\ IsSeq(p)
    BY <2>2, SoundInHeap DEF InHeap
  <2>8. ASSUME NEW a \in DOMAIN p
        PROVE  StateBytes(g, p[a].state) = StateBytes(h, p[a].state)
    <3> DEFINE i == p[a].state
               f == h[i].failure
    <3>1. i \in Chain(h, p) /\ g[i] = h[i] /\ i \in DOMAIN h
      BY <2>2, <2>3
    <3>2. f # None => f \in Chain(h, p)
      <4>1. f # None => f \in Parts(h, p[a])
        BY DEF Parts
      <4> HIDE DEF f, i
      <4> QED
        BY <2>7, <4>1, InChain
    <3>3. f # None => g[f] = h[f]
      BY <2>3, <3>2
    <3> HIDE DEF i
    <3> QED
      BY <3>1, <3>3 DEF StateBytes, Failure, Own, i
  <2>9. SumOver(g, p) = SumOver(h, p)
    BY <2>7, <2>8, SumSameStates DEF SameStates
  <2> QED
    BY <2>2, <2>5, <2>6, <2>9 DEF BudgetAt, p
<1>3. \A k \in 1 .. Len(gs) : k \in 1 .. n \/ (k = n + 1 /\ Len(gs) = n + 1)
  BY <1>1
<1> QED
  BY <1>2, <1>3 DEF Budgets

-------------------------------------------------------------------------------
(* The journal. *)

\* The records are those there were, with perhaps one more of a state that is
\* evaluated; the innermost list may undo no more of the former.
Journaled(h, fs, ph, res, js, gs, ks, n) ==
  /\ IsSeq(ks)
  /\ \A m \in 1 .. Len(ks) :
       \/ m <= Len(js) /\ ks[m] = js[m]
       \/ /\ m = Len(js) + 1 /\ ks[m].state \in Chain(h, Above(fs, ph, res, n))
          /\ \E name \in Name : ks[m] = Record(h, ks[m].state, name)
  /\ \A k \in 1 .. n : IsListAt(fs, k) => fs[k].checkpoint <= Len(ks)
  /\ Len(gs) = n + 1 /\ IsListAt(gs, n + 1) =>
       /\ gs[n + 1].checkpoint <= Len(ks)
       /\ \A k \in 1 .. n : IsListAt(fs, k) => fs[k].checkpoint <= gs[n + 1].checkpoint
       /\ \/ gs[n + 1].checkpoint = Len(ks)
          \/ /\ Len(fs) = n + 1 /\ IsListAt(fs, n + 1)
             /\ fs[n + 1].checkpoint <= gs[n + 1].checkpoint

\* A record of a state as it is.
LEMMA RecordIs ==
  ASSUME NEW h, IsHeap(h), NEW i \in DOMAIN h, NEW n \in Name
  PROVE  IsRecord(h, Record(h, i, n))
<1> DEFINE vs == h[i].vars
           r  == Record(h, i, n)
<1>1. /\ IsVars(vs) /\ HasValues(h[i].truth) /\ Agrees(vs, h[i].truth)
      /\ h[i].written \in Counts
  BY DEF IsHeap, IsState
<1>2. /\ r.state = i /\ r.name = n /\ r.entry = Entry(vs, n)
      /\ r.truth = Entry(h[i].truth, n) /\ r.version = Version(vs, n)
      /\ r.written = h[i].written[n]
  BY DEF Record
<1> HIDE DEF r
<1>3. IsEntry(Entry(vs, n))
  BY <1>1, EntryIs
<1>4. HasValues(vs)
  BY <1>1 DEF IsVars
<1>5. AgreeingEntries(Entry(vs, n), Entry(h[i].truth, n))
  BY <1>1, <1>4, EntriesAgree
<1>6. Version(vs, n) \in 0 .. vs.revision
  BY <1>1, VersionsAre
<1>7. h[i].written[n] \in Nat
  BY <1>1 DEF Counts
<1> QED
  BY <1>2, <1>3, <1>5, <1>6, <1>7 DEF IsRecord, r

\* The states have been written since, or not.
Forward(h, g) ==
  /\ DOMAIN h \subseteq DOMAIN g
  /\ \A j \in DOMAIN h : g[j].vars.revision >= h[j].vars.revision
\* What was a record of the states is one of later states.
LEMMA RecordKept ==
  ASSUME NEW h, IsHeap(h), NEW g, IsHeap(g), Forward(h, g), NEW r, IsRecord(h, r)
  PROVE  IsRecord(g, r)
<1>1. /\ r.state \in DOMAIN h /\ r.state \in DOMAIN g
      /\ r.version \in 0 .. h[r.state].vars.revision
      /\ g[r.state].vars.revision >= h[r.state].vars.revision
  BY DEF IsRecord, Forward
<1>2. g[r.state].vars.revision \in Nat /\ h[r.state].vars.revision \in Nat
  BY <1>1 DEF IsHeap, IsState, IsVars
<1>3. r.version \in 0 .. g[r.state].vars.revision
  BY ONLY <1>1, <1>2
<1> QED
  BY <1>1, <1>3 DEF IsRecord

\* What a step makes of the journal consists of records of the later states.
LEMMA JournalKept ==
  ASSUME NEW h, IsHeap(h), NEW fs, NEW ph, NEW res, Owned(h, fs, ph, res),
         NEW js, IsJournal(h, js), NEW gs, NEW ks, NEW n \in Nat, Len(fs) \in {n, n + 1},
         Journaled(h, fs, ph, res, js, gs, ks, n), NEW g, IsHeap(g), Forward(h, g)
  PROVE  IsJournal(g, ks)
<1>1. IsSeq(ks) /\ DOMAIN ks = 1 .. Len(ks) /\ IsSeq(js) /\ DOMAIN js = 1 .. Len(js) /\ Len(js) \in Nat
  BY SeqDomain DEF Journaled, IsJournal
<1>2. ASSUME NEW m \in 1 .. Len(ks)
      PROVE  IsRecord(h, ks[m])
  <2>1. CASE m <= Len(js) /\ ks[m] = js[m]
    <3>1. m \in 1 .. Len(js)
      BY <1>1, <2>1
    <3> QED
      BY <1>1, <2>1, <3>1 DEF IsJournal
  <2>2. CASE /\ ks[m].state \in Chain(h, Above(fs, ph, res, n))
             /\ \E name \in Name : ks[m] = Record(h, ks[m].state, name)
    <3>1. IsAbove(h, fs, ph, res, n)
      BY AboveIs
    <3>2. Chain(h, Above(fs, ph, res, n)) \subseteq DOMAIN h
      BY <3>1, ChainInHeap DEF IsAbove
    <3>3. ks[m].state \in DOMAIN h
      BY <2>2, <3>2
    <3>4. PICK name \in Name : ks[m] = Record(h, ks[m].state, name)
      BY <2>2
    <3>5. IsRecord(h, Record(h, ks[m].state, name))
      BY <3>3, RecordIs
    <3> QED
      BY <3>4, <3>5
  <2> QED
    BY <2>1, <2>2 DEF Journaled
<1>3. \A m \in 1 .. Len(ks) : IsRecord(g, ks[m])
  BY <1>2, RecordKept
<1> QED
  BY <1>1, <1>3 DEF IsJournal

\* Which records a list may undo, after a step.
LEMMA ShiftJournal ==
  ASSUME NEW h, IsHeap(h), NEW fs, NEW ph, NEW res, Owned(h, fs, ph, res),
         NEW js, IsSeq(js), Checkpoints(fs, js), RecordsApart(h, fs, ph, js),
         \A k \in 1 .. Len(fs) : IsListAt(fs, k) => fs[k].checkpoint \in Nat,
         NEW g, IsHeap(g), NEW gs, NEW qh, NEW qes, NEW n,
         Len(gs) = n + 1 /\ IsListAt(gs, n + 1) => gs[n + 1].checkpoint \in Nat,
         Shift(h, fs, ph, res, g, gs, qh, qes, n), NEW ks,
         Journaled(h, fs, ph, res, js, gs, ks, n)
  PROVE  Checkpoints(gs, ks) /\ RecordsApart(g, gs, qh, ks)
<1>1. /\ n \in Nat /\ Len(fs) \in {n, n + 1} /\ Len(gs) \in {n, n + 1}
      /\ \A k \in 1 .. n : gs[k] = fs[k]
  BY DEF Shift
<1>2. /\ Len(ks) \in Nat /\ Len(js) \in Nat
      /\ \A m \in 1 .. Len(ks) :
           \/ m <= Len(js) /\ ks[m] = js[m]
           \/ m = Len(js) + 1 /\ ks[m].state \in Chain(h, Above(fs, ph, res, n))
      /\ \A k \in 1 .. n : IsListAt(fs, k) => fs[k].checkpoint <= Len(ks)
      /\ Len(gs) = n + 1 /\ IsListAt(gs, n + 1) =>
           /\ gs[n + 1].checkpoint <= Len(ks)
           /\ \A k \in 1 .. n : IsListAt(fs, k) => fs[k].checkpoint <= gs[n + 1].checkpoint
           /\ \/ gs[n + 1].checkpoint = Len(ks)
              \/ /\ Len(fs) = n + 1 /\ IsListAt(fs, n + 1)
                 /\ fs[n + 1].checkpoint <= gs[n + 1].checkpoint
  BY SeqDomain DEF Journaled
<1>3. \A k \in 1 .. n : k \in 1 .. Len(fs) /\ k \in 1 .. Len(gs) /\ IsListAt(gs, k) = IsListAt(fs, k)
  BY <1>1 DEF IsListAt
<1>4. \A k \in 1 .. Len(gs) : k \in 1 .. n \/ (k = n + 1 /\ Len(gs) = n + 1)
  BY <1>1
<1>5. Checkpoints(gs, ks)
  <2> SUFFICES ASSUME NEW k \in 1 .. Len(gs), IsListAt(gs, k)
               PROVE  /\ gs[k].checkpoint <= Len(ks)
                      /\ \A l \in 1 .. Len(gs) : k < l /\ IsListAt(gs, l) =>
                           gs[k].checkpoint <= gs[l].checkpoint
    BY DEF Checkpoints
  <2>1. CASE k \in 1 .. n
    <3>1. IsListAt(fs, k) /\ gs[k] = fs[k] /\ k \in 1 .. Len(fs)
      BY <1>1, <1>3, <2>1
    <3>2. gs[k].checkpoint <= Len(ks)
      BY <1>2, <2>1, <3>1
    <3>3. ASSUME NEW l \in 1 .. n, k < l, IsListAt(gs, l)
          PROVE  gs[k].checkpoint <= gs[l].checkpoint
      BY <1>1, <1>3, <3>1, <3>3 DEF Checkpoints
    <3>4. ASSUME Len(gs) = n + 1, IsListAt(gs, n + 1)
          PROVE  gs[k].checkpoint <= gs[n + 1].checkpoint
      BY <1>2, <2>1, <3>1, <3>4
    <3> QED
      BY <1>4, <3>2, <3>3, <3>4
  <2>2. CASE k = n + 1 /\ Len(gs) = n + 1
    <3>1. gs[k].checkpoint <= Len(ks)
      BY <1>2, <2>2
    <3>2. \A l \in 1 .. Len(gs) : ~(k < l)
      BY <1>1, <2>2
    <3> QED
      BY <3>1, <3>2
  <2> QED
    BY <1>4, <2>1, <2>2
<1>6. RecordsApart(g, gs, qh, ks)
  <2> SUFFICES ASSUME NEW k \in 1 .. Len(gs), NEW l \in 1 .. Len(gs), k < l, IsListAt(gs, l),
                      NEW m \in gs[l].checkpoint + 1 .. Len(ks)
               PROVE  ks[m].state \notin Chain(g, Idle(gs, qh, k))
    BY DEF RecordsApart
  <2>1. k \in 1 .. n
    BY <1>1, <1>4
  <2>2. Stays(h, fs, ph, g, gs, qh, k)
    BY <2>1, ShiftStays
  <2>3. Chain(g, Idle(gs, qh, k)) = Chain(h, Idle(fs, ph, k))
    BY <2>2 DEF Stays
  <2>4. /\ l \in 1 .. Len(fs) /\ IsListAt(fs, l)
        /\ fs[l].checkpoint \in Nat /\ gs[l].checkpoint \in Nat
        /\ fs[l].checkpoint <= gs[l].checkpoint
    <3>1. CASE l \in 1 .. n
      BY <1>1, <1>3, <3>1
    <3>2. CASE l = n + 1 /\ Len(gs) = n + 1
      <4>1. gs[n + 1].checkpoint \in Nat
        BY <3>2
      <4>2. gs[n + 1].checkpoint # Len(ks)
        BY <1>2, <3>2, <4>1
      <4>3. /\ Len(fs) = n + 1 /\ IsListAt(fs, n + 1)
            /\ fs[n + 1].checkpoint <= gs[n + 1].checkpoint
        BY <1>2, <3>2, <4>2
      <4>4. l \in 1 .. Len(fs)
        BY <1>1, <3>2, <4>3
      <4> QED
        BY <3>2, <4>1, <4>3, <4>4
    <3> QED
      BY <1>4, <3>1, <3>2
  <2>5. m \in fs[l].checkpoint + 1 .. Len(ks) /\ m \in 1 .. Len(ks)
    BY <1>2, <2>4
  <2>6. CASE m <= Len(js) /\ ks[m] = js[m]
    <3>1. m \in fs[l].checkpoint + 1 .. Len(js) /\ k \in 1 .. Len(fs)
      BY <1>2, <1>3, <2>1, <2>4, <2>5, <2>6
    <3>2. js[m].state \notin Chain(h, Idle(fs, ph, k))
      BY <2>4, <3>1 DEF RecordsApart
    <3> QED
      BY <2>3, <2>6, <3>2
  <2>7. CASE ks[m].state \in Chain(h, Above(fs, ph, res, n))
    <3>1. IsAbove(h, fs, ph, res, n)
      BY <1>1, AboveIs
    <3>2. Chain(h, Above(fs, ph, res, n)) \cap Chain(h, Idle(fs, ph, k)) = {}
      BY <2>1, <3>1 DEF IsAbove, Disjoint
    <3> QED
      BY <2>3, <2>7, <3>2
  <2> QED
    BY <1>2, <2>5, <2>6, <2>7
<1> QED
  BY <1>5, <1>6

-------------------------------------------------------------------------------
(* What was seen of a state stays true of it when it is written later. *)

Onward(h, g) == DOMAIN h \subseteq DOMAIN g /\ \A j \in DOMAIN h : Later(h[j], g[j])

\* The counts of a state are numbers.
LEMMA CountsAre ==
  ASSUME NEW h, IsHeap(h), NEW i \in DOMAIN h, NEW n \in Name
  PROVE  h[i].written[n] \in Nat /\ h[i].renewed[n] \in Nat
  BY DEF IsHeap, IsState, Counts

\* What a list has seen before its statement still holds in later states.
LEMMA SinceLater ==
  ASSUME NEW h, IsHeap(h), NEW g, IsHeap(g), Onward(h, g), NEW f, IsListFrame(f),
         SinceStatement(h, f)
  PROVE  SinceStatement(g, f)
<1> SUFFICES ASSUME NEW i \in DOMAIN f.before
             PROVE  /\ i \in DOMAIN g
                    /\ \A n \in Name :
                         /\ NotBefore(g[i], n, f.before[i].written[n], f.before[i].renewed[n])
                         /\ Untouched(g[i], n, f.before[i].written, f.before[i].renewed) =>
                              /\ Entry(g[i].vars, n) = Entry(f.before[i].vars, n)
                              /\ Version(g[i].vars, n) = Version(f.before[i].vars, n)
  BY DEF SinceStatement
<1> DEFINE b == f.before[i]
           s == h[i]
           u == g[i]
<1>1. i \in DOMAIN h /\ i \in DOMAIN g /\ Later(s, u)
  BY DEF SinceStatement, Onward
<1>2. ASSUME NEW n \in Name
      PROVE  /\ NotBefore(u, n, b.written[n], b.renewed[n])
             /\ Untouched(u, n, b.written, b.renewed) =>
                  /\ Entry(u.vars, n) = Entry(b.vars, n)
                  /\ Version(u.vars, n) = Version(b.vars, n)
  <2>1. /\ s.written[n] \in Nat /\ s.renewed[n] \in Nat
        /\ u.written[n] \in Nat /\ u.renewed[n] \in Nat
    BY <1>1, CountsAre
  <2>2. b.written[n] \in Nat /\ b.renewed[n] \in Nat
    BY DEF IsListFrame, Counts
  <2>3. /\ NotBefore(s, n, b.written[n], b.renewed[n])
        /\ Untouched(s, n, b.written, b.renewed) =>
             /\ Entry(s.vars, n) = Entry(b.vars, n)
             /\ Version(s.vars, n) = Version(b.vars, n)
    BY DEF SinceStatement
  <2>4. /\ NotBefore(u, n, s.written[n], s.renewed[n])
        /\ Untouched(u, n, s.written, s.renewed) =>
             Entry(u.vars, n) = Entry(s.vars, n) /\ Version(u.vars, n) = Version(s.vars, n)
    BY <1>1 DEF Later
  <2> HIDE DEF b, s, u
  <2> QED
    BY <2>1, <2>2, <2>3, <2>4 DEF NotBefore, Untouched
<1> QED
  BY <1>1, <1>2

\* What a list has seen before a record still holds in later states.
LEMMA RecordSinceLater ==
  ASSUME NEW h, IsHeap(h), NEW g, IsHeap(g), Onward(h, g), NEW f, IsListFrame(f),
         SinceStatement(h, f), NEW r, IsRecord(h, r), RecordSinceStatement(h, f, r)
  PROVE  RecordSinceStatement(g, f, r)
<1> SUFFICES ASSUME r.state \in DOMAIN f.before
             PROVE  RecordSinceStatement(g, f, r)
  BY DEF RecordSinceStatement
<1> DEFINE i == r.state
           n == r.name
           b == f.before[i]
<1>1. i \in DOMAIN h /\ i \in DOMAIN g /\ n \in Name /\ Later(h[i], g[i])
  BY DEF IsRecord, Onward
<1>2. h[i].renewed[n] \in Nat /\ g[i].renewed[n] \in Nat
  BY <1>1, CountsAre
<1>3. b.renewed[n] \in Nat
  BY <1>1 DEF IsListFrame, Counts
<1>4. h[i].renewed[n] >= b.renewed[n]
  BY <1>1 DEF SinceStatement, NotBefore
<1>5. g[i].renewed[n] >= h[i].renewed[n]
  BY <1>1 DEF Later, NotBefore
<1>6. g[i].renewed[n] = b.renewed[n] => h[i].renewed[n] = b.renewed[n]
  BY ONLY <1>2, <1>3, <1>4, <1>5
<1> QED
  BY <1>6 DEF RecordSinceStatement

\* A record that is made now is of a state the list has seen.
LEMMA RecordNow ==
  ASSUME NEW h, NEW f, SinceStatement(h, f), NEW i \in DOMAIN h, NEW n \in Name
  PROVE  RecordSinceStatement(h, f, Record(h, i, n))
<1> DEFINE r == Record(h, i, n)
<1>1. /\ r.state = i /\ r.name = n /\ r.written = h[i].written[n]
      /\ r.entry = Entry(h[i].vars, n) /\ r.version = Version(h[i].vars, n)
  BY DEF Record
<1> HIDE DEF r
<1>2. RecordSinceStatement(h, f, r)
  BY <1>1 DEF RecordSinceStatement, SinceStatement, NotBefore, Untouched
<1> QED
  BY <1>2 DEF r

\* The same for what a call has seen.
Versioned(f) ==
  /\ f.written \in Counts /\ f.renewed \in Counts /\ Lasting(f) \subseteq Name
  /\ \A n \in Lasting(f) : f.saved[n].applied \in Nat
\* Call frames whose names were assigned at known versions are so.
LEMMA VersionedIs ==
  ASSUME NEW f, IsCallFrame(f), \A n \in Lasting(f) : f.saved[n].applied \in Nat
  PROVE  Versioned(f)
  BY DEF IsCallFrame, IsSaved, Versioned, Lasting

\* What a call has seen of a state still holds in a later one.
LEMMA CallLater ==
  ASSUME NEW f, Versioned(f), NEW s, IsState(s), NEW u, IsState(u), Later(s, u),
         StateSinceCall(s, f)
  PROVE  StateSinceCall(u, f)
<1>1. ASSUME NEW n \in Lasting(f)
      PROVE  /\ NotBefore(u, n, f.written[n], f.renewed[n])
             /\ u.vars.revision >= f.saved[n].applied
             /\ u.renewed[n] = f.renewed[n] =>
                  (u.written[n] = f.written[n] <=> Version(u.vars, n) = f.saved[n].applied)
  <2>1. n \in Name /\ f.written[n] \in Nat /\ f.renewed[n] \in Nat /\ f.saved[n].applied \in Nat
    BY DEF Versioned, Counts
  <2>2. /\ s.written[n] \in Nat /\ s.renewed[n] \in Nat
        /\ u.written[n] \in Nat /\ u.renewed[n] \in Nat
        /\ s.vars.revision \in Nat /\ u.vars.revision \in Nat
        /\ Version(u.vars, n) \in Nat
    BY <2>1, VersionsAre DEF IsState, Counts
  <2>3. /\ NotBefore(s, n, f.written[n], f.renewed[n])
        /\ s.vars.revision >= f.saved[n].applied
        /\ s.renewed[n] = f.renewed[n] =>
             (s.written[n] = f.written[n] <=> Version(s.vars, n) = f.saved[n].applied)
    BY DEF StateSinceCall
  <2>4. /\ u.vars.revision >= s.vars.revision
        /\ NotBefore(u, n, s.written[n], s.renewed[n])
        /\ Untouched(u, n, s.written, s.renewed) => Version(u.vars, n) = Version(s.vars, n)
        /\ u.written[n] # s.written[n] /\ u.renewed[n] = s.renewed[n] =>
             Version(u.vars, n) > s.vars.revision
    BY <2>1 DEF Later
  <2> QED
    BY ONLY <2>1, <2>2, <2>3, <2>4 DEF NotBefore, Untouched
<1> QED
  BY <1>1 DEF StateSinceCall

\* What a call has seen of a state holds of its copy.
LEMMA CallCopy ==
  ASSUME NEW f, NEW s, NEW u, CopyOf(s, u), StateSinceCall(s, f)
  PROVE  StateSinceCall(u, f)
  BY DEF CopyOf, StateSinceCall, NotBefore

\* A record of a state that a later call of that state has not seen.
LEMMA RecordCallLater ==
  ASSUME NEW h, IsHeap(h), NEW g, IsHeap(g), Onward(h, g), NEW f, Versioned(f),
         NEW r, IsRecord(h, r), RecordSinceCall(h, f, r)
  PROVE  RecordSinceCall(g, f, r)
<1> SUFFICES ASSUME r.name \in Lasting(f)
             PROVE  RecordSinceCall(g, f, r)
  BY DEF RecordSinceCall
<1> DEFINE i == r.state
           n == r.name
<1>1. i \in DOMAIN h /\ i \in DOMAIN g /\ n \in Name /\ Later(h[i], g[i])
  BY DEF IsRecord, Onward
<1>2. h[i].renewed[n] \in Nat /\ g[i].renewed[n] \in Nat /\ f.renewed[n] \in Nat
  BY <1>1, CountsAre DEF Versioned, Counts
<1>3. h[i].renewed[n] >= f.renewed[n] /\ g[i].renewed[n] >= h[i].renewed[n]
  BY <1>1 DEF RecordSinceCall, Later, NotBefore
<1>4. /\ g[i].renewed[n] = f.renewed[n] => h[i].renewed[n] = f.renewed[n]
      /\ g[i].renewed[n] >= f.renewed[n]
  BY ONLY <1>2, <1>3
<1> QED
  BY <1>4 DEF RecordSinceCall

\* A record that is made now is of a state that the call has seen.
LEMMA RecordNowCall ==
  ASSUME NEW h, NEW i \in DOMAIN h, NEW n \in Name, NEW f, StateSinceCall(h[i], f)
  PROVE  RecordSinceCall(h, f, Record(h, i, n))
<1> DEFINE r == Record(h, i, n)
<1>1. /\ r.state = i /\ r.name = n /\ r.written = h[i].written[n]
      /\ r.version = Version(h[i].vars, n)
  BY DEF Record
<1> HIDE DEF r
<1>2. RecordSinceCall(h, f, r)
  BY <1>1 DEF RecordSinceCall, StateSinceCall, NotBefore
<1> QED
  BY <1>2 DEF r

-------------------------------------------------------------------------------
(* Steps that leave the frames up to n as they are keep the invariant. *)

\* States are written, or copied.
Moves(h, fs, ph, res, g, gs, qh, qes, n) ==
  /\ Onward(h, g)
  /\ \A i \in Chain(g, Above(gs, qh, qes, n)) :
       \/ i \in Chain(h, Above(fs, ph, res, n))
       \/ \E j \in Chain(h, Above(fs, ph, res, n)) : CopyOf(h[j], g[i])

\* The states that may be on a path when call k ends: those of the innermost
\* frame and those that lists in between hold.
LiveIs(h, fs, ph, res, n, k) ==
  Live(h, fs, ph, res, k) =
    Live(h, fs, ph, res, n) \cup UNION {Chain(h, Idle(fs, ph, l)) : l \in k + 1 .. n}
\* The live states are those of these two kinds.
LEMMA LiveParts ==
  ASSUME NEW h, NEW fs, NEW ph, NEW res, NEW n \in Nat, Len(fs) \in {n, n + 1},
         NEW k \in 1 .. n
  PROVE  LiveIs(h, fs, ph, res, n, k)
<1> DEFINE G(l) == Chain(h, Group(fs, ph, res, l))
<1>1. \A l \in k + 1 .. n : G(l) = Chain(h, Idle(fs, ph, l))
  BY DEF Group
<1>2. {0} \cup k + 1 .. Len(fs) = ({0} \cup n + 1 .. Len(fs)) \cup k + 1 .. n
  OBVIOUS
<1>3. Live(h, fs, ph, res, k) = UNION {G(l) : l \in {0} \cup k + 1 .. Len(fs)}
  BY DEF Live
<1>4. Live(h, fs, ph, res, n) = UNION {G(l) : l \in {0} \cup n + 1 .. Len(fs)}
  BY DEF Live
<1> DEFINE A == {0} \cup n + 1 .. Len(fs)
           B == k + 1 .. n
           C == {0} \cup k + 1 .. Len(fs)
<1> HIDE DEF A, B, C, G
<1>5. UNION {G(l) : l \in C} = (UNION {G(l) : l \in A}) \cup (UNION {G(l) : l \in B})
  BY <1>2 DEF A, B, C
<1>6. UNION {G(l) : l \in B} = UNION {Chain(h, Idle(fs, ph, l)) : l \in B}
  BY <1>1 DEF B
<1> QED
  BY <1>3, <1>4, <1>5, <1>6 DEF LiveIs, A, B, C

\* What a list in between has seen.
LEMMA ShiftStatement ==
  ASSUME NEW h, IsHeap(h), NEW fs, NEW ph, NEW res, Owned(h, fs, ph, res),
         NEW js, IsJournal(h, js), Len(js) \in Nat, NEW g, IsHeap(g), Onward(h, g),
         NEW gs, NEW ks, Len(ks) \in Nat, NEW n \in Nat, Len(fs) \in {n, n + 1},
         Journaled(h, fs, ph, res, js, gs, ks, n),
         NEW f, IsListFrame(f), StatementSeen(h, f, js)
  PROVE  StatementSeen(g, f, ks)
<1>1. SinceStatement(h, f)
  BY DEF StatementSeen
<1>2. SinceStatement(g, f)
  BY <1>1, SinceLater
<1>3. f.checkpoint \in Nat
  BY DEF IsListFrame
<1>4. ASSUME NEW m \in f.checkpoint + 1 .. Len(ks)
      PROVE  RecordSinceStatement(g, f, ks[m])
  <2>1. m \in 1 .. Len(ks)
    BY <1>3
  <2>2. CASE m <= Len(js) /\ ks[m] = js[m]
    <3>1. m \in f.checkpoint + 1 .. Len(js) /\ m \in 1 .. Len(js)
      BY <1>3, <2>1, <2>2
    <3>2. RecordSinceStatement(h, f, js[m])
      BY <3>1 DEF StatementSeen
    <3>3. IsRecord(h, js[m])
      BY <3>1, SeqDomain DEF IsJournal
    <3> QED
      BY <1>1, <2>2, <3>2, <3>3, RecordSinceLater
  <2>3. CASE /\ ks[m].state \in Chain(h, Above(fs, ph, res, n))
             /\ \E name \in Name : ks[m] = Record(h, ks[m].state, name)
    <3>1. ks[m].state \in DOMAIN h
      <4>1. IsAbove(h, fs, ph, res, n)
        BY AboveIs
      <4> QED
        BY <2>3, <4>1, ChainInHeap DEF IsAbove
    <3>2. PICK name \in Name : ks[m] = Record(h, ks[m].state, name)
      BY <2>3
    <3> DEFINE r == Record(h, ks[m].state, name)
    <3>3. IsRecord(h, r)
      BY <3>1, RecordIs
    <3>4. RecordSinceStatement(h, f, r)
      BY <1>1, <3>1, RecordNow
    <3> HIDE DEF r
    <3>5. RecordSinceStatement(g, f, r)
      BY <1>1, <3>3, <3>4, RecordSinceLater
    <3> QED
      BY <3>2, <3>5 DEF r
  <2> QED
    BY <2>1, <2>2, <2>3 DEF Journaled
<1> QED
  BY <1>2, <1>4 DEF StatementSeen

\* What a call in between has seen.
LEMMA ShiftCall ==
  ASSUME NEW h, IsHeap(h), NEW fs, NEW ph, IsStack(fs, ph), NEW res, Owned(h, fs, ph, res),
         NEW js, IsJournal(h, js), NEW g, IsHeap(g), NEW gs, NEW qh, IsStack(gs, qh),
         NEW qes, Owned(g, gs, qh, qes), NEW ks, NEW n,
         Shift(h, fs, ph, res, g, gs, qh, qes, n),
         Journaled(h, fs, ph, res, js, gs, ks, n),
         Moves(h, fs, ph, res, g, gs, qh, qes, n),
         NEW k \in 1 .. n, ~IsListAt(fs, k), CallSeen(h, fs, ph, res, js, k)
  PROVE  CallSeen(g, gs, qh, qes, ks, k)
<1> DEFINE f == fs[k]
           a == Chain(h, Above(fs, ph, res, n))
           b == Chain(g, Above(gs, qh, qes, n))
<1>1. /\ n \in Nat /\ Len(fs) \in {n, n + 1} /\ Len(gs) \in {n, n + 1}
      /\ \A l \in 1 .. n : gs[l] = fs[l]
      /\ \A l \in 1 .. n : \A i \in Chain(h, Idle(fs, ph, l)) : g[i] = h[i]
  BY DEF Shift
<1>2. k \in 1 .. Len(fs) /\ k \in DOMAIN fs /\ gs[k] = f
  BY <1>1, IdleSeq
<1>3. Versioned(f)
  <2>1. IsCallFrame(f)
    BY <1>2 DEF IsStack
  <2> QED
    BY <2>1, VersionedIs DEF CallSeen
<1>4. a = Live(h, fs, ph, res, n) /\ b = Live(g, gs, qh, qes, n) /\ a \subseteq DOMAIN h
  <2>1. IsAbove(h, fs, ph, res, n)
    BY <1>1, AboveIs
  <2>2. IsAbove(g, gs, qh, qes, n)
    BY <1>1, AboveIs
  <2> QED
    BY <2>1, <2>2, ChainInHeap DEF IsAbove
<1>5. LiveIs(h, fs, ph, res, n, k) /\ LiveIs(g, gs, qh, qes, n, k)
  BY <1>1, LiveParts
<1> HIDE DEF f, a, b
<1>6. /\ Onward(h, g)
      /\ \A i \in b : i \in a \/ \E j \in a : CopyOf(h[j], g[i])
  BY DEF Moves, a, b
<1>7. \A i \in Live(h, fs, ph, res, k) : StateSinceCall(h[i], f)
  BY DEF CallSeen, f
<1>8. \A i \in a : StateSinceCall(h[i], f) /\ StateSinceCall(g[i], f)
  <2> SUFFICES ASSUME NEW i \in a PROVE StateSinceCall(h[i], f) /\ StateSinceCall(g[i], f)
    OBVIOUS
  <2>1. i \in Live(h, fs, ph, res, k) /\ i \in DOMAIN h
    BY <1>4, <1>5 DEF LiveIs
  <2>2. i \in DOMAIN g /\ Later(h[i], g[i])
    BY <1>6, <2>1 DEF Onward
  <2>3. IsState(h[i]) /\ IsState(g[i])
    BY <2>1, <2>2 DEF IsHeap
  <2>4. StateSinceCall(h[i], f)
    BY <1>7, <2>1
  <2> QED
    BY <1>3, <2>2, <2>3, <2>4, CallLater
<1>9. ASSUME NEW i \in Live(g, gs, qh, qes, k)
      PROVE  StateSinceCall(g[i], f)
  <2>1. CASE i \in b
    <3>1. CASE i \in a
      BY <1>8, <3>1
    <3>2. CASE \E j \in a : CopyOf(h[j], g[i])
      BY <1>8, <3>2, CallCopy
    <3> QED
      BY <1>6, <2>1, <3>1, <3>2
  <2>2. CASE i \notin b
    <3>1. PICK l \in k + 1 .. n : i \in Chain(g, Idle(gs, qh, l))
      BY <1>4, <1>5, <2>2 DEF LiveIs
    <3>2. l \in 1 .. n
      BY <1>1
    <3>3. Stays(h, fs, ph, g, gs, qh, l)
      BY <3>2, ShiftStays
    <3>4. i \in Chain(h, Idle(fs, ph, l))
      BY <3>1, <3>3 DEF Stays
    <3>5. g[i] = h[i]
      BY <1>1, <3>2, <3>4
    <3>6. i \in Live(h, fs, ph, res, k)
      BY <1>5, <3>4 DEF LiveIs
    <3> QED
      BY <1>7, <3>5, <3>6
  <2> QED
    BY <2>1, <2>2
<1>10. IsSeq(ks) /\ Len(ks) \in Nat /\ Len(js) \in Nat /\ DOMAIN js = 1 .. Len(js)
  BY SeqDomain DEF Journaled, IsJournal
<1>11. ASSUME NEW m \in Undoable(gs, ks, k)
       PROVE  RecordSinceCall(g, f, ks[m])
  <2>1. PICK l \in k + 1 .. Len(gs) : IsListAt(gs, l) /\ m \in gs[l].checkpoint + 1 .. Len(ks)
    BY DEF Undoable
  <2>2. l \in DOMAIN gs /\ gs[l].checkpoint \in Nat
    <3>1. l \in 1 .. Len(gs)
      BY <1>1, <2>1
    <3>2. l \in DOMAIN gs
      BY <3>1, IdleSeq
    <3> QED
      BY <2>1, <3>2 DEF IsStack, IsListFrame
  <2>3. /\ l \in k + 1 .. Len(fs) /\ IsListAt(fs, l) /\ m \in fs[l].checkpoint + 1 .. Len(ks)
        /\ fs[l].checkpoint \in Nat
    <3>1. CASE l \in 1 .. n
      <4>1. fs[l] = gs[l] /\ IsListAt(fs, l)
        BY <1>1, <2>1, <3>1 DEF IsListAt
      <4>2. l \in k + 1 .. Len(fs)
        BY <1>1, <2>1, <3>1
      <4> QED
        BY <2>1, <2>2, <4>1, <4>2
    <3>2. CASE l = n + 1 /\ Len(gs) = n + 1
      <4>1. gs[n + 1].checkpoint # Len(ks)
        BY <1>10, <2>1, <2>2, <3>2
      <4>2. Len(fs) = n + 1 /\ IsListAt(fs, n + 1) /\ fs[n + 1].checkpoint <= gs[n + 1].checkpoint
        BY <2>1, <3>2, <4>1 DEF Journaled
      <4>3. l \in k + 1 .. Len(fs) /\ l \in 1 .. Len(fs)
        BY <2>1, <1>1, <3>2, <4>2
      <4>4. fs[l].checkpoint \in Nat
        BY <3>2, <4>2, <4>3, IdleSeq DEF IsStack, IsListFrame
      <4>5. fs[l].checkpoint <= gs[l].checkpoint /\ IsListAt(fs, l)
        BY <3>2, <4>2
      <4>6. m \in fs[l].checkpoint + 1 .. Len(ks)
        BY ONLY <1>10, <2>1, <2>2, <4>4, <4>5
      <4> QED
        BY <4>3, <4>4, <4>5, <4>6
    <3>3. l \in 1 .. n \/ (l = n + 1 /\ Len(gs) = n + 1)
      BY <1>1, <2>1
    <3> QED
      BY <3>1, <3>2, <3>3
  <2>4. m \in 1 .. Len(ks)
    BY <1>10, <2>3
  <2>5. CASE m <= Len(js) /\ ks[m] = js[m]
    <3>1. m \in fs[l].checkpoint + 1 .. Len(js) /\ m \in DOMAIN js
      BY <1>10, <2>3, <2>4, <2>5
    <3>2. m \in Undoable(fs, js, k)
      BY <2>3, <3>1 DEF Undoable
    <3>3. RecordSinceCall(h, f, js[m]) /\ IsRecord(h, js[m])
      BY <3>1, <3>2 DEF CallSeen, IsJournal, f
    <3> QED
      BY <1>3, <1>6, <2>5, <3>3, RecordCallLater
  <2>6. CASE /\ ks[m].state \in a
             /\ \E name \in Name : ks[m] = Record(h, ks[m].state, name)
    <3>1. PICK name \in Name : ks[m] = Record(h, ks[m].state, name)
      BY <2>6
    <3> DEFINE r == Record(h, ks[m].state, name)
    <3>2. StateSinceCall(h[ks[m].state], f) /\ ks[m].state \in DOMAIN h
      BY <1>4, <1>8, <2>6
    <3>3. IsRecord(h, r) /\ RecordSinceCall(h, f, r)
      BY <3>2, RecordIs, RecordNowCall
    <3> HIDE DEF r
    <3>4. RecordSinceCall(g, f, r)
      BY <1>3, <1>6, <3>3, RecordCallLater
    <3> QED
      BY <3>1, <3>4 DEF r
  <2> QED
    BY <2>4, <2>5, <2>6 DEF Journaled, a
<1>12. \A l \in Lasting(f) : f.saved[l].applied \in Nat
  BY <1>3 DEF Versioned
<1> QED
  BY <1>2, <1>9, <1>11, <1>12 DEF CallSeen

\* What has to hold of the innermost frame after the step.
Entered(g, gs, qh, qes, ks, n) ==
  Len(gs) = n + 1 =>
    /\ IsListAt(gs, n + 1) => BudgetAt(g, gs, qh, n + 1)
    /\ SeenAt(g, gs, qh, qes, ks, n + 1)

\* A step that leaves alone what the frames up to n hold keeps the invariant.
LEMMA ShiftInv ==
  ASSUME NEW h, NEW fs, NEW ph, NEW res, NEW js, Inv(h, fs, ph, res, js),
         NEW g, IsHeap(g), NEW gs, NEW qh, IsStack(gs, qh), NEW qes, NEW ks, NEW n,
         Shift(h, fs, ph, res, g, gs, qh, qes, n),
         Journaled(h, fs, ph, res, js, gs, ks, n),
         Moves(h, fs, ph, res, g, gs, qh, qes, n),
         Entered(g, gs, qh, qes, ks, n)
  PROVE  Inv(g, gs, qh, qes, ks)
<1>1. /\ IsHeap(h) /\ IsJournal(h, js) /\ IsStack(fs, ph)
      /\ Owned(h, fs, ph, res) /\ Budgets(h, fs, ph)
      /\ Checkpoints(fs, js) /\ RecordsApart(h, fs, ph, js)
      /\ Seen(h, fs, ph, res, js)
  BY DEF Inv
<1>2. /\ n \in Nat /\ Len(fs) \in {n, n + 1} /\ Len(gs) \in {n, n + 1}
      /\ \A l \in 1 .. n : gs[l] = fs[l]
  BY DEF Shift
<1>3. Owned(g, gs, qh, qes)
  BY <1>1, ShiftOwned
<1>4. Budgets(g, gs, qh)
  BY <1>1, ShiftBudgets DEF Entered
<1>5. IsJournal(g, ks)
  <2>1. Forward(h, g)
    BY DEF Moves, Onward, Later, Forward
  <2> QED
    BY <1>1, <1>2, <2>1, JournalKept
<1>6. /\ \A k \in 1 .. Len(fs) : k \in DOMAIN fs /\ (IsListAt(fs, k) => fs[k].checkpoint \in Nat)
      /\ \A k \in 1 .. Len(gs) : k \in DOMAIN gs /\ (IsListAt(gs, k) => gs[k].checkpoint \in Nat)
  <2>1. DOMAIN fs = 1 .. Len(fs) /\ DOMAIN gs = 1 .. Len(gs)
    BY <1>1, IdleSeq
  <2> QED
    BY <1>1, <2>1 DEF IsStack, IsListFrame
<1>7. Checkpoints(gs, ks) /\ RecordsApart(g, gs, qh, ks)
  <2>1. IsSeq(js)
    BY <1>1 DEF IsJournal
  <2>2. Len(gs) = n + 1 => n + 1 \in 1 .. Len(gs)
    BY <1>2
  <2>3. Len(gs) = n + 1 /\ IsListAt(gs, n + 1) => gs[n + 1].checkpoint \in Nat
    BY <1>6, <2>2
  <2> QED
    BY <1>1, <1>6, <2>1, <2>3, ShiftJournal
<1>8. ASSUME NEW k \in 1 .. n
      PROVE  SeenAt(g, gs, qh, qes, ks, k)
  <2>1. k \in 1 .. Len(fs) /\ gs[k] = fs[k] /\ IsListAt(gs, k) = IsListAt(fs, k)
    BY <1>2 DEF IsListAt
  <2>2. SeenAt(h, fs, ph, res, js, k)
    BY <1>1, <2>1 DEF Seen
  <2>3. CASE IsListAt(fs, k)
    <3>1. IsListFrame(fs[k])
      BY <1>1, <1>6, <2>1, <2>3 DEF IsStack
    <3>2. Len(js) \in Nat /\ Len(ks) \in Nat
      BY <1>1, SeqDomain DEF IsJournal, Journaled
    <3>3. StatementSeen(h, fs[k], js)
      BY <2>2, <2>3 DEF SeenAt
    <3>4. Onward(h, g)
      BY DEF Moves
    <3>5. StatementSeen(g, fs[k], ks)
      BY <1>1, <1>2, <3>1, <3>2, <3>3, <3>4, ShiftStatement
    <3> QED
      BY <2>1, <2>3, <3>5 DEF SeenAt
  <2>4. CASE ~IsListAt(fs, k)
    <3>1. CallSeen(h, fs, ph, res, js, k)
      BY <2>2, <2>4 DEF SeenAt
    <3>2. CallSeen(g, gs, qh, qes, ks, k)
      BY <1>1, <1>3, <2>4, <3>1, ShiftCall
    <3> QED
      BY <2>1, <2>4, <3>2 DEF SeenAt
  <2> QED
    BY <2>3, <2>4
<1>9. Seen(g, gs, qh, qes, ks)
  <2>1. \A k \in 1 .. Len(gs) : k \in 1 .. n \/ (k = n + 1 /\ Len(gs) = n + 1)
    BY <1>2
  <2> QED
    BY <1>8, <2>1 DEF Seen, Entered
<1> QED
  BY <1>3, <1>4, <1>5, <1>7, <1>9 DEF Inv
================================================================================
