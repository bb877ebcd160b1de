--------------------------- MODULE AssignmentsProofs ---------------------------
(***************************************************************************)
(* Who undoes an assignment, and what the paths of a list are charged for, *)
(* for any names, variables, lists of assignments, limits and bounds: the  *)
(* steps of Assignments keep the invariant that AssignmentsLemmas states,  *)
(* and the four properties follow from it.                                 *)
(***************************************************************************)
EXTENDS AssignmentsLemmas

-------------------------------------------------------------------------------
(* The innermost frame. *)

\* A sequence with one element more.
Longer(s, x) ==
  /\ IsSeq(Append(s, x)) /\ Len(Append(s, x)) = Len(s) + 1
  /\ \A i \in 1 .. Len(s) : Append(s, x)[i] = s[i]
  /\ Append(s, x)[Len(s) + 1] = x
\* What Append makes of a sequence.
LEMMA Lengthens ==
  ASSUME NEW s, IsSeq(s), NEW x
  PROVE  Longer(s, x)
  BY AppendIs, Zenon DEF Longer

\* A sequence with another element at one place.
Exchanged(s, i, x) ==
  /\ IsSeq([s EXCEPT ![i] = x]) /\ Len([s EXCEPT ![i] = x]) = Len(s)
  /\ [s EXCEPT ![i] = x][i] = x
  /\ \A j \in DOMAIN s : j # i => [s EXCEPT ![i] = x][j] = s[j]
\* What EXCEPT makes of a sequence.
LEMMA Exchanges ==
  ASSUME NEW s, IsSeq(s), NEW i \in DOMAIN s, NEW x
  PROVE  Exchanged(s, i, x)
  BY ExceptIs, Zenon DEF Exchanged

\* The frames below the innermost.
IsBelow(fs, n, gs) ==
  /\ n \in Nat /\ Len(fs) = n + 1 /\ Len(gs) = n /\ IsSeq(gs)
  /\ \A k \in 1 .. n : gs[k] = fs[k] /\ IsListAt(gs, k) = IsListAt(fs, k)
  /\ IsStack(gs, "return")
\* What is left of a stack without its innermost frame.
LEMMA BelowIs ==
  ASSUME NEW fs, NEW ph, IsStack(fs, ph), fs # <<>>
  PROVE  IsBelow(fs, Len(fs) - 1, Front(fs))
<1> DEFINE n  == Len(fs) - 1
           gs == Front(fs)
<1>1. IsSeq(fs) /\ Len(fs) \in Nat /\ DOMAIN fs = 1 .. Len(fs) /\ Len(fs) # 0
  BY SeqDomain DEF IsStack
<1>2. IsSeq(gs) /\ Len(gs) = n /\ \A k \in 1 .. n : gs[k] = fs[k]
  BY <1>1, FrontIs
<1>3. DOMAIN gs = 1 .. n
  BY <1>2, SeqDomain
<1>4. n \in Nat /\ Len(fs) = n + 1 /\ \A k \in 1 .. n : k \in DOMAIN fs /\ k < Len(fs)
  BY <1>1
<1> HIDE DEF gs, n
<1>5. \A k \in 1 .. n : IsListAt(gs, k) = IsListAt(fs, k)
  BY <1>2 DEF IsListAt
<1>6. \A k \in DOMAIN gs : IF IsListAt(gs, k) THEN IsListFrame(gs[k]) ELSE IsCallFrame(gs[k])
  BY <1>2, <1>3, <1>4, <1>5 DEF IsStack
<1>7. \A k \in DOMAIN gs : IsListAt(gs, k) => gs[k].todo # <<>>
  BY <1>2, <1>3, <1>4, <1>5 DEF IsStack, AtWork
<1>8. gs # <<>> => IsListAt(gs, 1)
  <2>1. gs # <<>> => n # 0
    BY <1>2, SeqDomain
  <2>2. n # 0 => 1 \in 1 .. n
    BY <1>4
  <2> QED
    BY <1>1, <1>5, <2>1, <2>2, SeqDomain DEF IsStack
<1>9. IsStack(gs, "return")
  BY <1>2, <1>6, <1>7, <1>8 DEF IsStack
<1> QED
  BY <1>2, <1>4, <1>5, <1>9 DEF IsBelow, gs, n

\* The innermost frame replaced.
PutTop(fs, f) == [fs EXCEPT ![Len(fs)] = f]
IsTopPut(fs, f, qh, n, gs) ==
  /\ n \in Nat /\ Len(fs) = n + 1 /\ Len(gs) = n + 1 /\ IsSeq(gs)
  /\ \A k \in 1 .. n : gs[k] = fs[k] /\ IsListAt(gs, k) = IsListAt(fs, k)
  /\ gs[n + 1] = f /\ IsListAt(gs, n + 1)
  /\ IsStack(gs, qh)
\* What a stack is after its innermost frame was replaced by a list.
LEMMA TopPutIs ==
  ASSUME NEW fs, NEW ph, IsStack(fs, ph), fs # <<>>, NEW f, IsListFrame(f),
         NEW qh \in {"list", "statement", "return"}, qh # "list" => f.todo # <<>>
  PROVE  IsTopPut(fs, f, qh, Len(fs) - 1, PutTop(fs, f))
<1> DEFINE n  == Len(fs) - 1
           gs == PutTop(fs, f)
<1>1. IsSeq(fs) /\ Len(fs) \in Nat /\ DOMAIN fs = 1 .. Len(fs) /\ Len(fs) # 0
  BY SeqDomain DEF IsStack
<1>2. /\ n \in Nat /\ Len(fs) = n + 1 /\ n + 1 \in DOMAIN fs
      /\ ~(n + 1 < Len(fs))
      /\ \A k \in 1 .. n : k \in DOMAIN fs /\ k # n + 1 /\ k < Len(fs)
  <2>1. \A m \in Nat : m # 0 =>
          /\ m - 1 \in Nat /\ m = m - 1 + 1 /\ m \in 1 .. m
          /\ \A k \in 1 .. m - 1 : k \in 1 .. m /\ k # m /\ k < m
    OBVIOUS
  <2>2. Len(fs) - 1 + 1 = Len(fs) /\ ~(Len(fs) < Len(fs))
    BY <1>1
  <2>3. Len(fs) - 1 \in Nat /\ Len(fs) \in DOMAIN fs
    BY <1>1, <2>1
  <2>4. \A k \in 1 .. n : k \in DOMAIN fs /\ k # Len(fs) /\ k < Len(fs)
    BY <1>1, <2>1
  <2> QED
    BY ONLY <2>2, <2>3, <2>4
<1>3. IsSeq(gs) /\ Len(gs) = n + 1 /\ gs[n + 1] = f /\ \A k \in 1 .. n : gs[k] = fs[k]
  <2>1. Len(fs) \in DOMAIN fs
    BY <1>1
  <2>2. /\ IsSeq(gs) /\ Len(gs) = Len(fs) /\ gs[Len(fs)] = f
        /\ \A k \in DOMAIN fs : k # Len(fs) => gs[k] = fs[k]
    <3>1. Exchanged(fs, Len(fs), f)
      BY ONLY <1>1, <2>1, Exchanges
    <3> QED
      BY ONLY <3>1 DEF PutTop, Exchanged
  <2> HIDE DEF n, gs
  <2>3. \A k \in 1 .. n : k \in DOMAIN fs /\ k # Len(fs)
    BY <1>2
  <2> QED
    BY <1>2, <2>2, <2>3
<1>4. DOMAIN gs = 1 .. n + 1
  BY <1>3, SeqDomain
<1>5. IsListAt(gs, n + 1)
  BY <1>3 DEF IsListAt, IsListFrame
<1> HIDE DEF gs, n
<1>6. \A k \in 1 .. n : IsListAt(gs, k) = IsListAt(fs, k)
  BY <1>3 DEF IsListAt
<1>7. \A k \in 1 .. n + 1 : k \in 1 .. n \/ k = n + 1
  BY <1>2
<1>8. \A k \in DOMAIN gs : IF IsListAt(gs, k) THEN IsListFrame(gs[k]) ELSE IsCallFrame(gs[k])
  BY <1>2, <1>3, <1>4, <1>5, <1>6, <1>7 DEF IsStack
<1>9. \A k \in DOMAIN gs : IsListAt(gs, k) /\ AtWork(gs, qh, k) => gs[k].todo # <<>>
  BY <1>2, <1>3, <1>4, <1>6, <1>7 DEF IsStack, AtWork
<1>10. IsListAt(gs, 1)
  BY <1>1, <1>2, <1>3, <1>5, <1>6, <1>7, SeqDomain DEF IsStack
<1>11. gs # <<>> /\ Len(gs) = n + 1
  BY <1>2, <1>3, SeqDomain
<1>12. IsStack(gs, qh)
  BY <1>3, <1>5, <1>8, <1>9, <1>10, <1>11 DEF IsStack
<1> QED
  BY <1>2, <1>3, <1>5, <1>6, <1>12 DEF IsTopPut, gs, n

\* A frame more.
IsPushed(fs, f, qh, gs) ==
  /\ Len(fs) \in Nat /\ Len(gs) = Len(fs) + 1 /\ IsSeq(gs)
  /\ \A k \in 1 .. Len(fs) : gs[k] = fs[k] /\ IsListAt(gs, k) = IsListAt(fs, k)
  /\ gs[Len(fs) + 1] = f
  /\ IsStack(gs, qh)
\* What a stack is with one frame more.
LEMMA PushedIs ==
  ASSUME NEW fs, NEW ph, IsStack(fs, ph), ph \in {"statement", "body"}, NEW f, NEW qh,
         \/ f.kind = "list" /\ IsListFrame(f) /\ qh = "list"
         \/ f.kind = "call" /\ IsCallFrame(f) /\ qh = "body"
  PROVE  IsPushed(fs, f, qh, Append(fs, f))
<1> DEFINE n  == Len(fs)
           gs == Append(fs, f)
<1>1. IsSeq(fs) /\ n \in Nat /\ DOMAIN fs = 1 .. n /\ n # 0
  BY SeqDomain DEF IsStack
<1>2. IsSeq(gs) /\ Len(gs) = n + 1 /\ gs[n + 1] = f /\ \A k \in 1 .. n : gs[k] = fs[k]
  <2>1. Longer(fs, f)
    BY <1>1, Lengthens
  <2> QED
    BY <2>1 DEF Longer
<1>3. DOMAIN gs = 1 .. n + 1
  BY <1>2, SeqDomain
<1> HIDE DEF gs
<1>4. \A k \in 1 .. n : IsListAt(gs, k) = IsListAt(fs, k)
  BY <1>2 DEF IsListAt
<1>5. IsListAt(gs, n + 1) = (f.kind = "list")
  BY <1>2 DEF IsListAt
<1>6. \A k \in 1 .. n + 1 : k \in 1 .. n \/ k = n + 1
  BY <1>1
<1>7. \A k \in DOMAIN gs : IF IsListAt(gs, k) THEN IsListFrame(gs[k]) ELSE IsCallFrame(gs[k])
  BY <1>1, <1>2, <1>3, <1>4, <1>5, <1>6 DEF IsStack
<1>8. \A k \in DOMAIN gs : IsListAt(gs, k) /\ AtWork(gs, qh, k) => gs[k].todo # <<>>
  <2>1. \A k \in 1 .. n : AtWork(fs, ph, k)
    BY DEF AtWork
  <2>2. ~(n + 1 < Len(gs))
    BY <1>1, <1>2
  <2>3. IsListAt(gs, n + 1) => ~AtWork(gs, qh, n + 1)
    BY <1>5, <2>2 DEF AtWork
  <2> QED
    BY <1>1, <1>2, <1>3, <1>4, <1>6, <2>1, <2>3 DEF IsStack
<1>9. IsListAt(gs, 1)
  BY <1>1, <1>4, SeqDomain DEF IsStack
<1>10. gs # <<>>
  BY <1>1, <1>2, SeqDomain
<1>11. qh \in {"list", "body"} /\ (qh = "body") = ~IsListAt(gs, Len(gs))
  BY <1>2, <1>5
<1>12. IsStack(gs, qh)
  BY <1>2, <1>7, <1>8, <1>9, <1>10, <1>11 DEF IsStack
<1> HIDE DEF n
<1> QED
  BY <1>1, <1>2, <1>4, <1>12 DEF IsPushed, gs, n

\* A list that is the only one is the only frame, when it is the innermost.
LEMMA AtTopIs ==
  ASSUME IsStack(frames, phase), frames # <<>>, IsListAt(frames, Len(frames)), AtTop
  PROVE  Len(frames) = 1
<1> DEFINE S == {k \in DOMAIN frames : frames[k].kind = "list"}
<1>1. Len(frames) \in Nat /\ DOMAIN frames = 1 .. Len(frames) /\ Len(frames) # 0
  BY SeqDomain DEF IsStack
<1>2. 1 \in S /\ Len(frames) \in S
  BY <1>1 DEF IsStack, IsListAt
<1>3. IsFiniteSet(S)
  <2>1. IsFiniteSet(1 .. Len(frames))
    BY <1>1, FS_Interval
  <2> QED
    BY <1>1, <2>1, FS_Subset
<1>4. Cardinality(S) = 1
  BY DEF AtTop
<1> HIDE DEF S
<1>5. PICK x : S = {x}
  BY <1>3, <1>4, FS_Singleton
<1> QED
  BY <1>2, <1>5

\* The innermost list.
LEMMA InnerTop ==
  ASSUME NEW fs, NEW ph, IsStack(fs, ph), fs # <<>>, IsListAt(fs, Len(fs))
  PROVE  SelfOf(fs) = Head(fs[Len(fs)].todo).state
<1>1. Len(fs) \in Nat /\ DOMAIN fs = 1 .. Len(fs) /\ Len(fs) # 0
  BY SeqDomain DEF IsStack
<1>2. Len(fs) \in DOMAIN fs /\ \A l \in DOMAIN fs : l <= Len(fs)
  BY <1>1
<1>3. \A k \in DOMAIN fs : (\A l \in DOMAIN fs : IsListAt(fs, l) => l <= k) => Len(fs) <= k
  BY <1>2
<1>4. \A k \in DOMAIN fs : Len(fs) <= k => k = Len(fs)
  BY <1>1
<1>5. Inner(fs) = Len(fs)
  BY <1>2, <1>3, <1>4 DEF Inner
<1> QED
  BY <1>5 DEF SelfOf

\* A call evaluates the state that its list evaluates.
LEMMA InnerBelow ==
  ASSUME NEW fs, NEW ph, IsStack(fs, ph), NEW f, f.kind = "call", NEW qh, NEW gs,
         IsPushed(fs, f, qh, gs)
  PROVE  fs # <<>> => SelfOf(gs) = SelfOf(fs)
<1> SUFFICES ASSUME fs # <<>> PROVE SelfOf(gs) = SelfOf(fs)
  OBVIOUS
<1> DEFINE n == Len(fs)
<1>1. n \in Nat /\ DOMAIN fs = 1 .. n /\ n # 0 /\ IsListAt(fs, 1)
  BY SeqDomain DEF IsStack
<1>2. /\ DOMAIN gs = 1 .. n + 1 /\ gs[n + 1] = f
      /\ \A k \in 1 .. n : gs[k] = fs[k] /\ IsListAt(gs, k) = IsListAt(fs, k)
  BY SeqDomain DEF IsPushed
<1>3. ~IsListAt(gs, n + 1)
  BY <1>2 DEF IsListAt
<1> HIDE DEF n
<1>4. \A k : k \in DOMAIN gs /\ IsListAt(gs, k) <=> k \in DOMAIN fs /\ IsListAt(fs, k)
  BY <1>1, <1>2, <1>3
<1> DEFINE A(k) == k \in DOMAIN gs /\ IsListAt(gs, k) /\ \A l \in DOMAIN gs : IsListAt(gs, l) => l <= k
           B(k) == k \in DOMAIN fs /\ IsListAt(fs, k) /\ \A l \in DOMAIN fs : IsListAt(fs, l) => l <= k
<1>5. \A k : A(k) <=> B(k)
  BY <1>4
<1>6. (CHOOSE k : A(k)) = (CHOOSE k : B(k))
  <2> HIDE DEF A, B
  <2> QED
    BY <1>5, Zenon
<1>7. Inner(gs) = (CHOOSE k : A(k)) /\ Inner(fs) = (CHOOSE k : B(k))
  BY Zenon DEF Inner
<1>8. \E k : B(k)
  <2> DEFINE S == {k \in 1 .. n : IsListAt(fs, k)}
  <2>1. S \subseteq 1 .. n /\ 1 \in S
    BY <1>1
  <2>2. IsFiniteSet(1 .. n)
    BY <1>1, FS_Interval
  <2>3. IsFiniteSet(S)
    BY <2>1, <2>2, FS_Subset
  <2>6. S # {} /\ S \in SUBSET Int
    BY <2>1
  <2>4. PICK k \in S : \A l \in S : k >= l
    BY <2>3, <2>6, Greatest
  <2>5. B(k)
    BY <1>1, <2>4
  <2> QED
    BY <2>5
<1>9. Inner(gs) = Inner(fs) /\ Inner(fs) \in DOMAIN fs
  BY <1>6, <1>7, <1>8
<1>10. gs[Inner(fs)] = fs[Inner(fs)]
  BY <1>1, <1>2, <1>9
<1> QED
  BY <1>9, <1>10 DEF SelfOf

-------------------------------------------------------------------------------
(* Steps of the frames alone. *)

\* The frames up to n stay, and are at work before and after.
Follows(fs, ph, gs, qh, n) ==
  /\ n \in Nat /\ Len(fs) \in {n, n + 1} /\ Len(gs) \in {n, n + 1}
  /\ \A k \in 1 .. n : gs[k] = fs[k] /\ AtWork(fs, ph, k) /\ AtWork(gs, qh, k)
\* The paths above are some of those there were.
Moved(h, fs, ph, res, gs, qh, qes, n) ==
  /\ IsSeq(Flying(gs, qh, qes)) /\ Sound(h, Above(gs, qh, qes, n))
  /\ Settled(h, Upper(gs, qh, n)) /\ (qh = "return" \/ Settled(h, Flying(gs, qh, qes)))
  /\ Chain(h, Above(gs, qh, qes, n)) \subseteq Chain(h, Above(fs, ph, res, n))
\* A step that only hands paths on keeps the invariant.
LEMMA MoveInv ==
  ASSUME NEW h, NEW fs, NEW ph, NEW res, NEW js, Inv(h, fs, ph, res, js),
         NEW gs, NEW qh, IsStack(gs, qh), NEW qes, NEW ks, NEW n,
         Follows(fs, ph, gs, qh, n), Moved(h, fs, ph, res, gs, qh, qes, n),
         Journaled(h, fs, ph, res, js, gs, ks, n),
         Entered(h, gs, qh, qes, ks, n)
  PROVE  Inv(h, gs, qh, qes, ks)
<1>1. IsHeap(h)
  BY DEF Inv
<1>2. Len(h) \in Nat
  BY <1>1, SeqDomain DEF IsHeap
<1>3. Shift(h, fs, ph, res, h, gs, qh, qes, n)
  BY <1>2 DEF Shift, Follows, Moved
<1>4. \A j \in DOMAIN h : Later(h[j], h[j])
  BY <1>1, LaterSame DEF IsHeap
<1>5. Moves(h, fs, ph, res, h, gs, qh, qes, n)
  BY <1>4 DEF Moves, Moved, Onward
<1> QED
  BY <1>1, <1>3, <1>5, ShiftInv

\* The journal is cut off, or stays.
Shorter(js, ks) == IsSeq(ks) /\ Len(ks) <= Len(js) /\ \A m \in 1 .. Len(ks) : ks[m] = js[m]
\* A journal that stays is not cut off anywhere.
LEMMA ShorterSame ==
  ASSUME NEW js, IsSeq(js)
  PROVE  Shorter(js, js)
  BY SeqDomain DEF Shorter

\* A journal that is cut off at c has c records.
LEMMA ShorterCut ==
  ASSUME NEW js, IsSeq(js), NEW c \in 0 .. Len(js)
  PROVE  Shorter(js, SubSeq(js, 1, c)) /\ Len(SubSeq(js, 1, c)) = c
<1>1. IsSeq(SubSeq(js, 1, c)) /\ Len(SubSeq(js, 1, c)) = c
      /\ \A i \in 1 .. c : SubSeq(js, 1, c)[i] = js[i]
  BY PrefixIs
<1>2. Len(js) \in Nat
  BY SeqDomain
<1> DEFINE ks == SubSeq(js, 1, c)
<1> HIDE DEF ks
<1>3. IsSeq(ks) /\ Len(ks) = c /\ c <= Len(js) /\ \A i \in 1 .. c : ks[i] = js[i]
  BY <1>1, <1>2 DEF ks
<1>4. Shorter(js, ks)
  BY ONLY <1>3 DEF Shorter
<1> QED
  BY <1>3, <1>4 DEF ks

\* A list at n + 1 may undo what it could, or nothing.
SameRecords(fs, gs, ks, n) ==
  Len(gs) = n + 1 /\ IsListAt(gs, n + 1) =>
    \/ gs[n + 1].checkpoint = Len(ks)
    \/ /\ Len(fs) = n + 1 /\ IsListAt(fs, n + 1) /\ gs[n + 1].checkpoint = fs[n + 1].checkpoint
       /\ gs[n + 1].checkpoint <= Len(ks)
\* A step that records nothing leaves every list the records it may undo.
LEMMA CutJournal ==
  ASSUME NEW h, NEW fs, NEW ph, NEW res, NEW js, Inv(h, fs, ph, res, js),
         NEW gs, NEW qh, NEW ks, NEW n, Follows(fs, ph, gs, qh, n), Shorter(js, ks),
         n = 0 \/ Len(ks) = Len(js) \/ (Len(fs) = n + 1 /\ IsListAt(fs, n + 1) /\ Len(ks) = fs[n + 1].checkpoint),
         SameRecords(fs, gs, ks, n)
  PROVE  Journaled(h, fs, ph, res, js, gs, ks, n)
<1>1. n \in Nat /\ Len(fs) \in {n, n + 1} /\ Len(gs) \in {n, n + 1}
  BY DEF Follows
<1>2. IsSeq(ks) /\ Len(ks) \in Nat /\ Len(js) \in Nat /\ Len(ks) <= Len(js)
      /\ \A m \in 1 .. Len(ks) : ks[m] = js[m]
  BY SeqDomain DEF Shorter, Inv, IsJournal
<1>3. \A k \in 1 .. Len(fs) : IsListAt(fs, k) =>
        /\ fs[k].checkpoint <= Len(js)
        /\ \A l \in 1 .. Len(fs) : k < l /\ IsListAt(fs, l) => fs[k].checkpoint <= fs[l].checkpoint
  BY DEF Inv, Checkpoints
<1>4. \A m \in 1 .. Len(ks) : m <= Len(js)
  BY <1>2
<1>5. ASSUME NEW k \in 1 .. n, IsListAt(fs, k)
      PROVE  fs[k].checkpoint <= Len(ks)
  <2>1. k \in 1 .. Len(fs) /\ n # 0
    BY <1>1
  <2>2. CASE Len(ks) = Len(js)
    BY <1>3, <1>5, <2>1, <2>2
  <2>3. CASE Len(fs) = n + 1 /\ IsListAt(fs, n + 1) /\ Len(ks) = fs[n + 1].checkpoint
    <3>1. n + 1 \in 1 .. Len(fs) /\ k < n + 1
      BY <1>1, <2>3
    <3>2. fs[k].checkpoint <= fs[n + 1].checkpoint
      BY <1>3, <1>5, <2>1, <2>3, <3>1
    <3> QED
      BY <2>3, <3>2
  <2> QED
    BY <2>1, <2>2, <2>3
<1>6. ASSUME Len(gs) = n + 1, IsListAt(gs, n + 1)
      PROVE  /\ gs[n + 1].checkpoint <= Len(ks)
             /\ \A k \in 1 .. n : IsListAt(fs, k) => fs[k].checkpoint <= gs[n + 1].checkpoint
             /\ \/ gs[n + 1].checkpoint = Len(ks)
                \/ /\ Len(fs) = n + 1 /\ IsListAt(fs, n + 1)
                   /\ fs[n + 1].checkpoint <= gs[n + 1].checkpoint
  <2>1. CASE gs[n + 1].checkpoint = Len(ks)
    BY <1>2, <1>5, <2>1
  <2>2. CASE /\ Len(fs) = n + 1 /\ IsListAt(fs, n + 1) /\ gs[n + 1].checkpoint = fs[n + 1].checkpoint
             /\ gs[n + 1].checkpoint <= Len(ks)
    <3>1. n + 1 \in 1 .. Len(fs) /\ \A k \in 1 .. n : k < n + 1 /\ k \in 1 .. Len(fs)
      BY <1>1, <2>2
    <3>2. \A k \in 1 .. n : IsListAt(fs, k) => fs[k].checkpoint <= fs[n + 1].checkpoint
      BY <1>3, <2>2, <3>1
    <3>3. fs[n + 1].checkpoint <= fs[n + 1].checkpoint
      <4>1. fs[n + 1].checkpoint \in Nat
        <5>1. n + 1 \in DOMAIN fs /\ IsStack(fs, ph)
          BY <3>1, IdleSeq DEF Inv
        <5> QED
          BY <2>2, <5>1 DEF IsStack, IsListFrame
      <4> QED
        BY <4>1
    <3> QED
      BY <2>2, <3>2, <3>3
  <2> QED
    BY <1>6, <2>1, <2>2 DEF SameRecords
<1> QED
  BY <1>2, <1>4, <1>5, <1>6 DEF Journaled

\* A list is left.
LEMMA PopInv ==
  ASSUME NEW h, NEW fs, NEW ph, NEW res, NEW js, Inv(h, fs, ph, res, js), fs # <<>>,
         NEW gs, gs = Front(fs), NEW n, n = Len(fs) - 1, NEW qes,
         Moved(h, fs, ph, res, gs, "return", qes, n),
         NEW ks, Shorter(js, ks), n = 0 \/ Len(ks) = Len(js)
  PROVE  Inv(h, gs, "return", qes, ks)
<1>1. IsBelow(fs, n, gs)
  BY BelowIs DEF Inv
<1>2. Follows(fs, ph, gs, "return", n)
  <2>1. \A k \in 1 .. n : k < Len(fs)
    BY <1>1 DEF IsBelow
  <2> QED
    BY <1>1, <2>1 DEF IsBelow, Follows, AtWork
<1>3. Len(gs) # n + 1
  BY <1>1 DEF IsBelow
<1>4. Journaled(h, fs, ph, res, js, gs, ks, n)
  BY <1>2, <1>3, CutJournal DEF SameRecords
<1> QED
  BY <1>1, <1>2, <1>3, <1>4, MoveInv DEF Entered, IsBelow

\* The innermost list changes.
LEMMA TopInv ==
  ASSUME NEW h, NEW fs, NEW ph, NEW res, NEW js, Inv(h, fs, ph, res, js), fs # <<>>,
         IsListAt(fs, Len(fs)), NEW n, n = Len(fs) - 1, NEW f, IsListFrame(f), NEW gs, NEW qh,
         IsTopPut(fs, f, qh, n, gs), NEW qes,
         Moved(h, fs, ph, res, gs, qh, qes, n), BudgetAt(h, gs, qh, n + 1),
         NEW ks, \/ f.before = fs[n + 1].before /\ f.checkpoint = fs[n + 1].checkpoint /\ ks = js
                 \/ /\ f.before = h /\ f.checkpoint = Len(ks) /\ Shorter(js, ks)
                    /\ n = 0 \/ Len(ks) = Len(js)
  PROVE  Inv(h, gs, qh, qes, ks)
<1>1. /\ n \in Nat /\ Len(fs) = n + 1 /\ Len(gs) = n + 1
      /\ gs[n + 1] = f /\ IsListAt(gs, n + 1) /\ IsListAt(fs, n + 1) /\ IsStack(gs, qh)
  BY DEF IsTopPut
<1>2. Follows(fs, ph, gs, qh, n)
  <2>1. \A k \in 1 .. n : k < Len(fs) /\ k < Len(gs)
    BY <1>1
  <2> QED
    BY <2>1 DEF IsTopPut, Follows, AtWork
<1>3. n + 1 \in 1 .. Len(fs)
  BY <1>1
<1>4. IsSeq(js) /\ IsHeap(h)
  BY DEF Inv, IsJournal
<1>5. CASE f.before = fs[n + 1].before /\ f.checkpoint = fs[n + 1].checkpoint /\ ks = js
  <2>1. Shorter(js, ks)
    BY <1>4, <1>5, ShorterSame
  <2>2. fs[n + 1].checkpoint <= Len(js)
    BY <1>1, <1>3 DEF Inv, Checkpoints
  <2>3. SameRecords(fs, gs, ks, n)
    BY <1>1, <1>5, <2>2 DEF SameRecords
  <2>4. Journaled(h, fs, ph, res, js, gs, ks, n)
    BY <1>2, <1>5, <2>1, <2>3, CutJournal
  <2>5. StatementSeen(h, fs[n + 1], js)
    BY <1>1, <1>3 DEF Inv, Seen, SeenAt
  <2>6. StatementSeen(h, f, js)
    <3>1. SinceStatement(h, f)
      BY <1>5, <2>5 DEF StatementSeen, SinceStatement
    <3>2. \A m \in f.checkpoint + 1 .. Len(js) : RecordSinceStatement(h, f, js[m])
      BY ONLY <1>5, <2>5 DEF StatementSeen, RecordSinceStatement
    <3> QED
      BY <3>1, <3>2 DEF StatementSeen
  <2> QED
    BY <1>1, <1>2, <1>5, <2>4, <2>6, MoveInv DEF Entered, SeenAt
<1>6. CASE /\ f.before = h /\ f.checkpoint = Len(ks) /\ Shorter(js, ks)
           /\ n = 0 \/ Len(ks) = Len(js)
  <2>1. SameRecords(fs, gs, ks, n)
    BY <1>1, <1>6 DEF SameRecords
  <2>2. Journaled(h, fs, ph, res, js, gs, ks, n)
    BY <1>2, <1>6, <2>1, CutJournal
  <2>3. SinceStatement(h, f)
    <3>1. \A i \in DOMAIN h : \A k \in Name : h[i].written[k] \in Nat /\ h[i].renewed[k] \in Nat
      BY <1>4, CountsAre
    <3>2. \A i \in DOMAIN h : \A k \in Name : NotBefore(h[i], k, h[i].written[k], h[i].renewed[k])
      BY <3>1 DEF NotBefore
    <3> QED
      BY <1>6, <3>2 DEF SinceStatement
  <2>4. f.checkpoint + 1 .. Len(ks) = {}
    <3>1. Len(ks) \in Nat
      BY <1>6, SeqDomain DEF Shorter
    <3> QED
      BY <1>6, <3>1
  <2>5. StatementSeen(h, f, ks)
    BY <2>3, <2>4 DEF StatementSeen
  <2> QED
    BY <1>1, <1>2, <2>2, <2>5, MoveInv DEF Entered, SeenAt
<1> QED
  BY <1>5, <1>6

-------------------------------------------------------------------------------
(* Steps of the states: what is evaluated is written, copied or resolved. *)

\* Without a frame above n, the paths above n are those that are evaluated.
LEMMA AboveFlat ==
  ASSUME NEW fs, NEW ph, NEW res, NEW n, Len(fs) = n, IsSeq(Flying(fs, ph, res))
  PROVE  /\ Above(fs, ph, res, n) = Flying(fs, ph, res)
         /\ Upper(fs, ph, n) = <<>> /\ \A h : Settled(h, Upper(fs, ph, n))
<1>1. Upper(fs, ph, n) = <<>>
  BY DEF Upper
<1>2. Flying(fs, ph, res) \o <<>> = Flying(fs, ph, res)
  BY ConcatIs, Zenon
<1>3. \A h : Settled(h, <<>>)
  BY DEF Settled
<1> QED
  BY <1>1, <1>2, <1>3 DEF Above

\* The state that is evaluated.
IsSelf(h, fs, ph, res, i) ==
  /\ i \in DOMAIN h /\ h[i].failure = None
  /\ Flying(fs, ph, res) = <<Path(i, "completed")>>
  /\ Chain(h, Flying(fs, ph, res)) = {i}
\* The state that is evaluated is one there is, without a failure.
LEMMA SelfState ==
  ASSUME NEW h, NEW fs, NEW ph, NEW res, NEW js, Inv(h, fs, ph, res, js),
         ph \in {"statement", "body"}
  PROVE  IsSelf(h, fs, ph, res, SelfOf(fs))
<1> DEFINE i == SelfOf(fs)
           x == Path(i, "completed")
<1>1. Flying(fs, ph, res) = <<x>>
  BY DEF Flying
<1>2. Sound(h, <<x>>) /\ Settled(h, <<x>>)
  <2>1. 0 \in 0 .. Len(fs)
    BY IdleSeq DEF Inv
  <2>2. Group(fs, ph, res, 0) = Flying(fs, ph, res)
    BY DEF Group
  <2> QED
    BY <1>1, <2>1, <2>2 DEF Inv, Owned
<1>3. x.state = i /\ x.status = "completed"
  BY DEF Path
<1> HIDE DEF x, i
<1>4. IsPath(h, x) /\ h[i].failure = None
  BY <1>2, <1>3, SoundOne, SettledOne
<1>5. i \in DOMAIN h
  BY <1>3, <1>4 DEF IsPath
<1>6. Chain(h, <<x>>) = Parts(h, x)
  BY ChainOne
<1>7. i # None
  BY <1>5, SeqDomain DEF Inv, IsHeap, None
<1>8. Parts(h, x) = {i}
  BY <1>3, <1>4, <1>7 DEF Parts
<1>9. Flying(fs, ph, res) = <<Path(i, "completed")>>
  BY <1>1 DEF x
<1>10. Chain(h, Flying(fs, ph, res)) = {i}
  BY <1>1, <1>6, <1>8
<1>11. IsSelf(h, fs, ph, res, i)
  BY ONLY <1>4, <1>5, <1>9, <1>10 DEF IsSelf
<1> QED
  BY <1>11 DEF i

\* The state is written, or it is not known which of two it is.
Ends(h, g, i) ==
  \/ Evolves(h, g, {i}) /\ Len(g) = Len(h) /\ g[i].failure = None
  \/ Splits(h, g, i)
Outcome(h, g, i, paths) ==
  /\ IsHeap(g) /\ Onward(h, g) /\ Len(h) <= Len(g) /\ \A j \in DOMAIN h : j # i => g[j] = h[j]
  /\ IsSeq(paths) /\ Sound(g, paths)
  /\ \A j \in Chain(g, paths) : j = i \/ (j > Len(h) /\ CopyOf(h[i], g[j]))
\* A path of that state is sound, and of it or of a copy.
LEMMA EndsIs ==
  ASSUME NEW h, NEW g, NEW i \in DOMAIN h, Ends(h, g, i), NEW status
  PROVE  Outcome(h, g, i, <<Path(i, status)>>)
<1> DEFINE x == Path(i, status)
<1>1. x.state = i /\ x = Path(x.state, x.status)
  BY DEF Path
<1> HIDE DEF x
<1>2. Evolves(h, g, {i})
  BY DEF Ends, Splits
<1>3. /\ IsHeap(h) /\ IsHeap(g) /\ Len(h) <= Len(g) /\ Len(h) \in Nat /\ Len(g) \in Nat
      /\ DOMAIN h = 1 .. Len(h) /\ DOMAIN g = 1 .. Len(g)
  BY <1>2, SeqDomain DEF Evolves, IsHeap
<1>4. DOMAIN h \subseteq DOMAIN g
  BY <1>3
<1>5. Onward(h, g) /\ \A j \in DOMAIN h : j # i => g[j] = h[j]
  BY <1>2, <1>4 DEF Evolves, Onward
<1>6. IsSeq(<<x>>) /\ Chain(g, <<x>>) = Parts(g, x)
  BY ChainOne
<1>7. /\ IsPath(g, x)
      /\ \A j \in Parts(g, x) : j = i \/ (j > Len(h) /\ CopyOf(h[i], g[j]))
  <2>1. CASE g[i].failure = None
    BY <1>1, <1>4, <2>1 DEF IsPath, Parts
  <2>2. CASE Splits(h, g, i)
    <3>1. /\ Len(g) = Len(h) + 1 /\ g[i].failure = Len(g)
          /\ g[Len(g)].failure = None /\ CopyOf(h[i], g[Len(g)])
      BY <2>2 DEF Splits
    <3>2. Len(g) \in DOMAIN g /\ Len(g) # i /\ i \in DOMAIN g /\ Len(g) > Len(h)
      BY <1>3, <3>1
    <3> QED
      BY <1>1, <3>1, <3>2 DEF IsPath, Parts
  <2> QED
    BY <2>1, <2>2 DEF Ends
<1>8. Sound(g, <<x>>)
  BY <1>7, SoundOne
<1> QED
  BY <1>3, <1>5, <1>6, <1>7, <1>8 DEF Outcome, x

\* The journal is as it was, or has a record of the state more.
Recorded(h, i, js, ks) ==
  ks = js \/ \E n \in Name : ks = Append(js, Record(h, i, n))

\* The state that is evaluated is handed back.
LEMMA WorkInv ==
  ASSUME NEW h, NEW fs, NEW ph, NEW res, NEW js, Inv(h, fs, ph, res, js),
         ph \in {"statement", "body"}, NEW i, i = SelfOf(fs),
         NEW g, Ends(h, g, i), NEW qes, NEW status, qes.paths = <<Path(i, status)>>,
         NEW ks, Recorded(h, i, js, ks)
  PROVE  Inv(g, fs, "return", qes, ks)
<1> DEFINE n == Len(fs)
           p == <<Path(i, status)>>
<1>1. /\ IsHeap(h) /\ IsJournal(h, js) /\ IsStack(fs, ph) /\ Owned(h, fs, ph, res)
      /\ Checkpoints(fs, js)
  BY DEF Inv
<1>2. IsSelf(h, fs, ph, res, i)
  BY SelfState
<1>3. i \in DOMAIN h /\ Chain(h, Flying(fs, ph, res)) = {i}
  BY <1>2 DEF IsSelf
<1>4. Outcome(h, g, i, p)
  BY <1>3, EndsIs
<1> HIDE DEF p
<1>5. /\ IsHeap(g) /\ Onward(h, g) /\ Len(h) <= Len(g) /\ \A j \in DOMAIN h : j # i => g[j] = h[j]
      /\ IsSeq(p) /\ Sound(g, p)
      /\ \A j \in Chain(g, p) : j = i \/ (j > Len(h) /\ CopyOf(h[i], g[j]))
  BY <1>4 DEF Outcome
<1>6. Flying(fs, "return", qes) = p
  BY DEF Flying, p
<1>7. n \in Nat /\ Len(fs) = n
  BY <1>1, IdleSeq
<1>8. IsStack(fs, "return")
  <2>1. \A k \in DOMAIN fs : AtWork(fs, ph, k)
    BY DEF AtWork
  <2> QED
    BY <1>1, <2>1 DEF IsStack
<1>9. IsAbove(h, fs, ph, res, n)
  BY <1>1, <1>7, AboveIs
<1> HIDE DEF n
<1>10. /\ Above(fs, ph, res, n) = Flying(fs, ph, res)
       /\ Above(fs, "return", qes, n) = p /\ Settled(g, Upper(fs, "return", n))
  <2>1. IsSeq(Flying(fs, ph, res))
    BY <1>9 DEF IsAbove
  <2>2. Above(fs, ph, res, n) = Flying(fs, ph, res)
    BY <1>7, <2>1, AboveFlat
  <2>3. Above(fs, "return", qes, n) = Flying(fs, "return", qes) /\ Settled(g, Upper(fs, "return", n))
    BY <1>5, <1>6, <1>7, AboveFlat
  <2> QED
    BY <1>6, <2>2, <2>3
<1>11. Shift(h, fs, ph, res, g, fs, "return", qes, n)
  <2>1. \A k \in 1 .. n : AtWork(fs, ph, k) /\ AtWork(fs, "return", k)
    BY DEF AtWork
  <2>2. \A k \in 1 .. n : \A j \in Chain(h, Idle(fs, ph, k)) : g[j] = h[j]
    <3> SUFFICES ASSUME NEW k \in 1 .. n, NEW j \in Chain(h, Idle(fs, ph, k))
                 PROVE  g[j] = h[j]
      OBVIOUS
    <3>1. Disjoint(h, Above(fs, ph, res, n), Idle(fs, ph, k))
      BY <1>9 DEF IsAbove
    <3>2. j # i
      BY <1>3, <1>10, <3>1 DEF Disjoint
    <3>3. j \in DOMAIN h
      <4>1. k \in 0 .. Len(fs) /\ k # 0
        BY <1>7
      <4>2. Sound(h, Group(fs, ph, res, k)) /\ Group(fs, ph, res, k) = Idle(fs, ph, k)
        BY <1>1, <4>1 DEF Owned, Group
      <4> QED
        BY <4>2, ChainInHeap
    <3> QED
      BY <1>5, <3>2, <3>3
  <2> QED
    BY <1>3, <1>5, <1>6, <1>7, <1>10, <2>1, <2>2 DEF Shift
<1>12. Moves(h, fs, ph, res, g, fs, "return", qes, n)
  BY <1>3, <1>5, <1>10 DEF Moves
<1>13. Journaled(h, fs, ph, res, js, fs, ks, n)
  <2>1. IsSeq(js) /\ Len(js) \in Nat
    BY <1>1, SeqDomain DEF IsJournal
  <2>2. /\ IsSeq(ks) /\ Len(ks) \in Nat /\ Len(js) <= Len(ks)
        /\ \A m \in 1 .. Len(ks) :
             \/ m <= Len(js) /\ ks[m] = js[m]
             \/ /\ m = Len(js) + 1 /\ ks[m].state = i
                /\ \E name \in Name : ks[m] = Record(h, i, name)
    <3>1. CASE ks = js
      BY <2>1, <3>1
    <3>2. CASE \E name \in Name : ks = Append(js, Record(h, i, name))
      <4>1. PICK name \in Name : ks = Append(js, Record(h, i, name))
        BY <3>2
      <4> DEFINE r == Record(h, i, name)
      <4>2. r.state = i
        BY DEF Record
      <4> HIDE DEF r
      <4>3. Longer(js, r)
        BY <2>1, Lengthens
      <4>4. /\ IsSeq(ks) /\ Len(ks) = Len(js) + 1
            /\ \A m \in 1 .. Len(js) : ks[m] = js[m]
            /\ ks[Len(js) + 1] = r
        BY <4>1, <4>3 DEF Longer, r
      <4>5. \A m \in 1 .. Len(ks) : m \in 1 .. Len(js) \/ m = Len(js) + 1
        BY <2>1, <4>4
      <4>6. Len(ks) \in Nat /\ Len(js) <= Len(ks)
        BY <2>1, <4>4
      <4>7. \E other \in Name : r = Record(h, i, other)
        BY DEF r
      <4> QED
        BY <2>1, <4>2, <4>4, <4>5, <4>6, <4>7
    <3> QED
      BY <3>1, <3>2 DEF Recorded
  <2>3. \A k \in 1 .. n : IsListAt(fs, k) => fs[k].checkpoint <= Len(ks)
    <3> SUFFICES ASSUME NEW k \in 1 .. n, IsListAt(fs, k) PROVE fs[k].checkpoint <= Len(ks)
      OBVIOUS
    <3>1. fs[k].checkpoint <= Len(js)
      BY <1>1, <1>7 DEF Checkpoints
    <3>2. fs[k].checkpoint \in Nat
      BY <1>1, <1>7, IdleSeq DEF IsStack, IsListFrame
    <3> QED
      BY <2>1, <2>2, <3>1, <3>2
  <2>4. Len(fs) # n + 1
    BY <1>7
  <2>5. i \in Chain(h, Above(fs, ph, res, n))
    BY <1>3, <1>10
  <2> QED
    BY <2>2, <2>3, <2>4, <2>5 DEF Journaled
<1>14. Entered(g, fs, "return", qes, ks, n)
  BY <1>7 DEF Entered
<1> QED
  BY <1>5, <1>8, <1>11, <1>12, <1>13, <1>14, ShiftInv

\* What was handed back is resolved.
LEMMA ResolveInv ==
  ASSUME NEW h, NEW fs, NEW res, NEW js, Inv(h, fs, "return", res, js),
         NEW a, ResolvedTo(h, res.paths, Len(res.paths), a), NEW qes, qes.paths = a.paths
  PROVE  Inv(a.h, fs, "return", qes, js)
<1> DEFINE n == Len(fs)
           g == a.h
           p == res.paths
<1>1. /\ IsHeap(h) /\ IsJournal(h, js) /\ IsStack(fs, "return") /\ Owned(h, fs, "return", res)
  BY DEF Inv
<1>2. /\ IsHeap(g) /\ Len(h) <= Len(g) /\ \A j \in DOMAIN h : g[j] = h[j]
      /\ Sound(g, a.paths) /\ Settled(g, a.paths)
      /\ \A i \in Chain(g, a.paths) :
           (\E b \in 1 .. Len(p) : i \in Parts(h, p[b])) \/ i > Len(h)
      /\ \A i \in Len(h) + 1 .. Len(g) : \E j \in Chain(h, p) : CopyOf(h[j], g[i])
  BY DEF ResolvedTo
<1>3. n \in Nat /\ Len(fs) = n
  BY <1>1, IdleSeq
<1>4. Flying(fs, "return", res) = p /\ Flying(fs, "return", qes) = a.paths
  BY DEF Flying
<1>5. IsAbove(h, fs, "return", res, n)
  BY <1>1, <1>3, AboveIs
<1>6. IsSeq(p) /\ IsSeq(a.paths)
  BY <1>2, <1>4, <1>5 DEF IsAbove, Sound
<1>7. DOMAIN p = 1 .. Len(p) /\ DOMAIN h = 1 .. Len(h) /\ DOMAIN g = 1 .. Len(g)
      /\ Len(h) \in Nat /\ Len(g) \in Nat
  BY <1>1, <1>2, <1>6, SeqDomain DEF IsHeap
<1> HIDE DEF n, g, p
<1>8. /\ Above(fs, "return", res, n) = p /\ Above(fs, "return", qes, n) = a.paths
      /\ Settled(g, Upper(fs, "return", n))
  BY <1>3, <1>4, <1>6, AboveFlat
<1>9. \A i \in Chain(g, a.paths) : i \in Chain(h, p) \/ (i > Len(h) /\ \E j \in Chain(h, p) : CopyOf(h[j], g[i]))
  <2> SUFFICES ASSUME NEW i \in Chain(g, a.paths), i \notin Chain(h, p)
               PROVE  i > Len(h) /\ \E j \in Chain(h, p) : CopyOf(h[j], g[i])
    OBVIOUS
  <2>1. i > Len(h)
    BY <1>2, <1>6, <1>7, InChain
  <2>2. i \in 1 .. Len(g)
    BY <1>2, <1>7, ChainInHeap
  <2>3. i \in Len(h) + 1 .. Len(g)
    BY <1>7, <2>1, <2>2
  <2> QED
    BY <1>2, <2>1, <2>3
<1>10. DOMAIN h \subseteq DOMAIN g
  BY <1>2, <1>7
<1>11. Moves(h, fs, "return", res, g, fs, "return", qes, n)
  <2>1. \A j \in DOMAIN h : Later(h[j], g[j])
    BY <1>1, <1>2, LaterSame DEF IsHeap
  <2> QED
    BY <1>8, <1>9, <1>10, <2>1 DEF Moves, Onward
<1>12. Shift(h, fs, "return", res, g, fs, "return", qes, n)
  <2>1. \A k \in 1 .. n : AtWork(fs, "return", k)
    BY DEF AtWork
  <2>2. \A k \in 1 .. n : \A j \in Chain(h, Idle(fs, "return", k)) : g[j] = h[j]
    <3> SUFFICES ASSUME NEW k \in 1 .. n, NEW j \in Chain(h, Idle(fs, "return", k))
                 PROVE  g[j] = h[j]
      OBVIOUS
    <3>1. k \in 0 .. Len(fs) /\ k # 0
      BY <1>3
    <3>2. Sound(h, Group(fs, "return", res, k)) /\ Group(fs, "return", res, k) = Idle(fs, "return", k)
      BY <1>1, <3>1 DEF Owned, Group
    <3> QED
      BY <1>2, <3>2, ChainInHeap
  <2> QED
    BY <1>2, <1>3, <1>4, <1>6, <1>8, <1>9, <2>1, <2>2 DEF Shift
<1>13. Journaled(h, fs, "return", res, js, fs, js, n)
  <2>1. \A k \in 1 .. n : AtWork(fs, "return", k)
    BY DEF AtWork
  <2>2. Follows(fs, "return", fs, "return", n)
    BY <1>3, <2>1 DEF Follows
  <2>3. IsSeq(js)
    BY <1>1 DEF IsJournal
  <2>4. Len(fs) # n + 1
    BY <1>3
  <2> QED
    BY <2>2, <2>3, <2>4, ShorterSame, CutJournal DEF SameRecords
<1>14. Entered(g, fs, "return", qes, js, n)
  BY <1>3 DEF Entered
<1> QED
  BY <1>1, <1>2, <1>11, <1>12, <1>13, <1>14, ShiftInv DEF g

-------------------------------------------------------------------------------
(* What the innermost list holds. *)

\* Paths one after the other.
Both(h, p, q) ==
  /\ IsSeq(p \o q) /\ Sound(h, p \o q) /\ Chain(h, p \o q) = Chain(h, p) \cup Chain(h, q)
  /\ Settled(h, p) /\ Settled(h, q) => Settled(h, p \o q)
  /\ SumOver(h, p \o q) = SumOver(h, p) + SumOver(h, q)
  /\ Len(p \o q) = Len(p) + Len(q)
\* Sound paths that share no state are sound together, and cost the sum of
\* both.
LEMMA BothAre ==
  ASSUME NEW h, IsHeap(h), NEW p, Sound(h, p), NEW q, Sound(h, q), Disjoint(h, p, q)
  PROVE  Both(h, p, q)
<1>1. IsSeq(p) /\ IsSeq(q)
  BY DEF Sound
<1>2. Joined(p, q)
  BY <1>1, Joins
<1>3. Sound(h, p \o q)
  BY <1>1, SoundConcat
<1>4. Chain(h, p \o q) = Chain(h, p) \cup Chain(h, q)
  BY <1>1, ChainConcat
<1>5. SumOver(h, p \o q) = SumOver(h, p) + SumOver(h, q)
  BY SoundInHeap, SumConcat
<1>6. Settled(h, p) /\ Settled(h, q) => Settled(h, p \o q)
  BY <1>1, SettledConcat
<1> QED
  BY <1>2, <1>3, <1>4, <1>5, <1>6 DEF Joined, Both

\* One path, and those after it.
First(h, s) ==
  /\ IsSeq(Tail(s)) /\ IsSeq(<<Head(s)>>) /\ s = <<Head(s)>> \o Tail(s)
  /\ Sound(h, <<Head(s)>>) /\ Sound(h, Tail(s)) /\ Disjoint(h, <<Head(s)>>, Tail(s))
  /\ Chain(h, s) = Chain(h, <<Head(s)>>) \cup Chain(h, Tail(s))
  /\ Settled(h, s) => Settled(h, <<Head(s)>>) /\ Settled(h, Tail(s))
  /\ IsPath(h, Head(s)) /\ SumOver(h, <<Head(s)>>) = StateBytes(h, (Head(s)).state)
  /\ StateBytes(h, (Head(s)).state) \in Int
  /\ SumOver(h, s) = StateBytes(h, (Head(s)).state) + SumOver(h, Tail(s))
  /\ Len(s) = 1 + Len(Tail(s))
\* The first path of sound paths is sound, and shares no state with the others.
LEMMA FirstIs ==
  ASSUME NEW h, IsHeap(h), NEW s, Sound(h, s), s # <<>>
  PROVE  First(h, s)
<1> DEFINE x == Head(s)
           p == <<x>>
           t == Tail(s)
<1>1. IsSeq(s)
  BY DEF Sound
<1>2. IsSeq(t) /\ s = p \o t
  BY <1>1, HeadIs
<1>3. IsSeq(p) /\ Len(p) = 1
  BY ChainOne
<1> HIDE DEF t, p
<1>4. Sound(h, p) /\ Sound(h, t) /\ Disjoint(h, p, t)
  BY <1>2, <1>3, SoundConcat
<1>5. Both(h, p, t)
  BY <1>4, BothAre
<1>6. Settled(h, s) => Settled(h, p) /\ Settled(h, t)
  BY <1>2, <1>3, SettledConcat
<1> HIDE DEF x
<1>7. IsPath(h, x)
  BY <1>4, SoundOne DEF p
<1>8. SumOver(h, p) = StateBytes(h, x.state) /\ StateBytes(h, x.state) \in Int
  BY <1>7, SumOnePath, BytesAre DEF p, IsPath, StateSums
<1>9. /\ Chain(h, s) = Chain(h, p) \cup Chain(h, t) /\ Len(s) = 1 + Len(t)
      /\ SumOver(h, s) = SumOver(h, p) + SumOver(h, t)
  BY <1>2, <1>3, <1>5 DEF Both
<1> QED
  BY <1>2, <1>3, <1>4, <1>6, <1>7, <1>8, <1>9 DEF First, p, t, x

\* Paths that failed.
LEMMA FailedIs ==
  ASSUME NEW h, NEW p, Sound(h, p)
  PROVE  Sound(h, Failed(p)) /\ Chain(h, Failed(p)) = Chain(h, p)
<1> DEFINE q == Failed(p)
           S(a) == IF p[a].status = "completed" THEN "incomplete" ELSE p[a].status
<1>1. IsSeq(p) /\ Len(p) \in Nat /\ DOMAIN p = 1 .. Len(p)
  BY SeqDomain DEF Sound
<1>2. \A a \in DOMAIN p : p[a] = [state |-> p[a].state, status |-> p[a].status]
  BY DEF Sound, IsPath, Path
<1>3. q = [a \in DOMAIN p |-> [p[a] EXCEPT !.status = IF @ = "completed" THEN "incomplete" ELSE @]]
  BY DEF Failed
<1> HIDE DEF q
<1>4. DOMAIN q = 1 .. Len(p) /\ q = [a \in 1 .. Len(p) |-> q[a]]
  BY <1>1, <1>3
<1>5. IsSeq(q) /\ Len(q) = Len(p)
  BY <1>1, <1>4, FunctionIsSeq
<1>6. \A a \in DOMAIN p : q[a] = [state |-> p[a].state, status |-> S(a)]
  BY <1>2, <1>3
<1> HIDE DEF S
<1>7. ASSUME NEW a \in DOMAIN p
      PROVE  /\ q[a].state = p[a].state
             /\ q[a] = [state |-> q[a].state, status |-> q[a].status]
  <2> DEFINE u == S(a)
             v == p[a].state
  <2>1. q[a] = [state |-> v, status |-> u]
    BY <1>6
  <2> HIDE DEF u, v, q
  <2>2. q[a].state = v /\ q[a].status = u
    BY ONLY <2>1
  <2> QED
    BY ONLY <2>1, <2>2 DEF v
<1>8. ASSUME NEW a \in DOMAIN p
      PROVE  Parts(h, q[a]) = Parts(h, p[a]) /\ IsPath(h, q[a])
  <2>1. IsPath(h, p[a])
    BY <1>8 DEF Sound
  <2>2. q[a].state = p[a].state /\ q[a] = [state |-> q[a].state, status |-> q[a].status]
    BY <1>7, <1>8
  <2> DEFINE x == q[a]
             y == p[a]
  <2> HIDE DEF x, y, q, S
  <2>3. Parts(h, x) = Parts(h, y)
    BY ONLY <2>2 DEF Parts, x, y
  <2>4. IsPath(h, x)
    BY ONLY <2>1, <2>2 DEF IsPath, Path, x, y
  <2> QED
    BY <2>3, <2>4 DEF x, y
<1>9. Sound(h, q)
  BY <1>1, <1>4, <1>5, <1>8 DEF Sound
<1>10. Chain(h, q) = Chain(h, p)
  <2>1. Chain(h, q) = UNION {Parts(h, q[a]) : a \in DOMAIN q}
    BY <1>5, ChainIs
  <2>2. Chain(h, p) = UNION {Parts(h, p[a]) : a \in DOMAIN p}
    BY <1>1, ChainIs
  <2> QED
    BY <1>1, <1>4, <1>8, <2>1, <2>2
<1> QED
  BY <1>9, <1>10 DEF q

\* The innermost list, when its paths are handed on, and when a statement is over.
Holds(h, fs, ph, res, f, n) ==
  /\ n \in Nat /\ Len(fs) = n + 1 /\ f = fs[n + 1] /\ IsListFrame(f)
  /\ IsSeq(f.todo) /\ IsSeq(f.next) /\ Sound(h, f.next) /\ Settled(h, f.next)
  /\ f.budget.count \in Int /\ f.budget.bytes \in Int /\ f.previous \in Int
HoldsAll(h, fs, ph, res, f, n) ==
  /\ Holds(h, fs, ph, res, f, n)
  /\ Sound(h, f.todo) /\ Settled(h, f.todo) /\ Disjoint(h, f.next, f.todo)
  /\ Chain(h, Above(fs, ph, res, n)) = Chain(h, f.next) \cup Chain(h, f.todo)
  /\ f.budget.bytes = SumOver(h, f.next) + SumOver(h, f.todo)
  /\ f.budget.count = Len(f.next) + Len(f.todo)
HoldsRest(h, fs, ph, res, f, n) ==
  /\ Holds(h, fs, ph, res, f, n)
  /\ f.todo # <<>> /\ IsSeq(Tail(f.todo))
  /\ Sound(h, Tail(f.todo)) /\ Settled(h, Tail(f.todo)) /\ Disjoint(h, f.next, Tail(f.todo))
  /\ Sound(h, res.paths) /\ Disjoint(h, res.paths, f.next) /\ Disjoint(h, res.paths, Tail(f.todo))
  /\ Chain(h, Above(fs, ph, res, n)) =
       Chain(h, res.paths) \cup (Chain(h, f.next) \cup Chain(h, Tail(f.todo)))
  /\ f.budget.bytes = SumOver(h, f.next) + SumOver(h, Tail(f.todo)) + f.previous
  /\ f.budget.count = Len(f.next) + Len(Tail(f.todo)) + 1

\* By the invariant, the innermost list holds that.
LEMMA ListHolds ==
  ASSUME NEW h, NEW fs, NEW ph, NEW res, NEW js, Inv(h, fs, ph, res, js), fs # <<>>,
         IsListAt(fs, Len(fs)), ph \in {"list", "return"}
  PROVE  /\ ph = "list" => HoldsAll(h, fs, ph, res, fs[Len(fs)], Len(fs) - 1)
         /\ ph = "return" => HoldsRest(h, fs, ph, res, fs[Len(fs)], Len(fs) - 1)
<1> DEFINE n == Len(fs) - 1
           f == fs[Len(fs)]
           p == IF ph = "list" THEN f.todo ELSE Tail(f.todo)
           a == f.next
           q == Flying(fs, ph, res)
<1>1. IsHeap(h) /\ IsStack(fs, ph) /\ Owned(h, fs, ph, res) /\ Budgets(h, fs, ph)
  BY DEF Inv
<1>2. Len(fs) \in Nat /\ Len(fs) # 0 /\ DOMAIN fs = 1 .. Len(fs)
  BY <1>1, SeqDomain DEF IsStack
<1>3. n \in Nat /\ Len(fs) = n + 1 /\ n + 1 \in 1 .. Len(fs) /\ n + 1 \in 0 .. Len(fs) /\ n + 1 # 0
  BY <1>2
<1> HIDE DEF n
<1>4. f = fs[n + 1] /\ IsListAt(fs, n + 1) /\ IsListFrame(f)
  BY <1>1, <1>2, <1>3 DEF IsStack
<1> HIDE DEF f
<1>5. AtWork(fs, ph, n + 1) = (ph # "list")
  BY <1>3 DEF AtWork
<1>6. Idle(fs, ph, n + 1) = a \o p
  BY <1>4, <1>5 DEF Idle
<1>7. IsSeq(a) /\ IsSeq(f.todo) /\ (ph = "return" => f.todo # <<>>)
  BY <1>1, <1>2, <1>3, <1>4, <1>5 DEF IsStack, IsListFrame
<1>8. IsSeq(p)
  BY <1>7, HeadIs
<1> HIDE DEF a, p
<1>9. /\ Sound(h, a \o p) /\ Settled(h, a \o p) /\ Sound(h, q) /\ Disjoint(h, q, a \o p)
  <2>1. 0 \in 0 .. Len(fs) /\ n + 1 # 0
    BY ONLY <1>3
  <2>2. Group(fs, ph, res, n + 1) = a \o p
    BY ONLY <1>6, <2>1 DEF Group
  <2>3. Group(fs, ph, res, 0) = q
    BY DEF Group
  <2> HIDE DEF q
  <2> QED
    BY <1>1, <1>3, <2>1, <2>2, <2>3 DEF Owned
<1>10. IsAbove(h, fs, ph, res, n)
  BY <1>1, <1>3, AboveIs
<1>11. Above(fs, ph, res, n) = q \o (a \o p)
  <2>1. Len(fs) # n
    BY ONLY <1>3
  <2> QED
    BY ONLY <1>6, <2>1 DEF Above, Upper, q
<1>12. /\ f.budget.bytes = SumOver(h, a \o p) + (IF ph # "list" THEN f.previous ELSE 0)
       /\ f.budget.count = Len(a \o p) + (IF ph # "list" THEN 1 ELSE 0)
       /\ f.previous \in Int
  BY <1>1, <1>3, <1>4, <1>5, <1>6 DEF Budgets, BudgetAt
<1> HIDE DEF q
<1>13. Sound(h, a) /\ Sound(h, p) /\ Disjoint(h, a, p) /\ Settled(h, a) /\ Settled(h, p)
  BY <1>7, <1>8, <1>9, SoundConcat, SettledConcat DEF a
<1>14. Both(h, a, p)
  BY <1>1, <1>13, BothAre
<1>15. /\ Chain(h, a \o p) = Chain(h, a) \cup Chain(h, p)
       /\ SumOver(h, a \o p) = SumOver(h, a) + SumOver(h, p)
       /\ Len(a \o p) = Len(a) + Len(p)
  BY <1>14 DEF Both
<1>16. Disjoint(h, q, a) /\ Disjoint(h, q, p)
  BY <1>9, <1>15 DEF Disjoint
<1>17. Chain(h, Above(fs, ph, res, n)) = Chain(h, q) \cup (Chain(h, a) \cup Chain(h, p))
  <2>1. IsSeq(q) /\ IsSeq(a \o p)
    BY <1>9 DEF Sound
  <2> DEFINE b == a \o p
  <2> HIDE DEF b
  <2>2. Chain(h, q \o b) = Chain(h, q) \cup Chain(h, b)
    BY <2>1, ChainConcat DEF b
  <2> QED
    BY <1>11, <1>15, <2>2 DEF b
<1>18. Len(a) \in Int /\ Len(p) \in Int /\ SumOver(h, a) \in Int /\ SumOver(h, p) \in Int
  <2>1. InHeap(h, a) /\ InHeap(h, p)
    BY <1>13, SoundInHeap
  <2>2. PathSums(h, a) /\ PathSums(h, p)
    BY <1>1, <2>1, SumIs
  <2> QED
    BY <1>7, <1>8, <2>2, SeqDomain DEF PathSums, a
<1>19. Holds(h, fs, ph, res, f, n)
  <2>1. f.budget.count \in Int /\ f.budget.bytes \in Int
    BY ONLY <1>12, <1>15, <1>18
  <2> QED
    BY <1>3, <1>4, <1>7, <1>12, <1>13, <2>1 DEF Holds, a
<1>20. ASSUME ph = "list"
       PROVE  HoldsAll(h, fs, ph, res, f, n)
  <2>1. p = f.todo /\ Chain(h, q) = {}
    BY <1>20, ChainEmpty DEF p, q, Flying
  <2>2. f.budget.bytes = SumOver(h, a) + SumOver(h, p) /\ f.budget.count = Len(a) + Len(p)
    BY ONLY <1>12, <1>15, <1>18, <1>20
  <2> QED
    BY <1>13, <1>17, <1>19, <2>1, <2>2 DEF HoldsAll, a
<1>21. ASSUME ph = "return"
       PROVE  HoldsRest(h, fs, ph, res, f, n)
  <2>1. p = Tail(f.todo) /\ q = res.paths
    BY <1>21 DEF p, q, Flying
  <2>2. f.budget.bytes = SumOver(h, a) + SumOver(h, p) + f.previous /\ f.budget.count = Len(a) + Len(p) + 1
    BY ONLY <1>12, <1>15, <1>18, <1>21
  <2> QED
    BY <1>7, <1>8, <1>9, <1>13, <1>16, <1>17, <1>19, <1>21, <2>1, <2>2 DEF HoldsRest, a
<1> QED
  BY <1>20, <1>21 DEF f, n

-------------------------------------------------------------------------------
(* The steps of the innermost list. *)

\* The innermost list and what it holds.
TopHolds(gs, qh, qes, f, n, idle) ==
  /\ Upper(gs, qh, n) = idle /\ Above(gs, qh, qes, n) = Flying(gs, qh, qes) \o idle
  /\ Idle(gs, qh, n + 1) = idle /\ gs[n + 1] = f /\ AtWork(gs, qh, n + 1) = (qh # "list")
IdleOf(f, qh) == IF qh = "list" THEN f.next \o f.todo ELSE f.next \o Tail(f.todo)
\* The list that was put there holds what it says.
LEMMA TopIdle ==
  ASSUME NEW fs, NEW f, NEW qh, NEW n, NEW gs, IsTopPut(fs, f, qh, n, gs), NEW qes
  PROVE  TopHolds(gs, qh, qes, f, n, IdleOf(f, qh))
<1>1. n \in Nat /\ Len(gs) = n + 1 /\ gs[n + 1] = f /\ IsListAt(gs, n + 1)
  BY DEF IsTopPut
<1>2. Len(gs) # n /\ ~ (n + 1 < Len(gs))
  BY ONLY <1>1
<1>3. AtWork(gs, qh, n + 1) = (qh # "list")
  BY <1>2 DEF AtWork
<1>4. Idle(gs, qh, n + 1) = IdleOf(f, qh)
  BY <1>1, <1>3 DEF Idle, IdleOf
<1> QED
  BY <1>1, <1>2, <1>3, <1>4 DEF TopHolds, Upper, Above

\* A list and its paths, in place of the innermost one.
Charged(h, f, qh, idle) ==
  /\ f.budget.bytes = SumOver(h, idle) + (IF qh # "list" THEN f.previous ELSE 0)
  /\ f.budget.count = Len(idle) + (IF qh # "list" THEN 1 ELSE 0)
  /\ f.previous \in Int
Placed(h, fs, ph, res, gs, qh, qes, n, idle) ==
  LET fly == Flying(gs, qh, qes) IN
  /\ Sound(h, fly) /\ Sound(h, idle) /\ Disjoint(h, fly, idle)
  /\ Settled(h, idle) /\ (qh = "return" \/ Settled(h, fly))
  /\ Chain(h, fly) \subseteq Chain(h, Above(fs, ph, res, n))
  /\ Chain(h, idle) \subseteq Chain(h, Above(fs, ph, res, n))
\* The step keeps the invariant.
LEMMA PutInv ==
  ASSUME NEW h, NEW fs, NEW ph, NEW res, NEW js, Inv(h, fs, ph, res, js), fs # <<>>,
         IsListAt(fs, Len(fs)), NEW n, n = Len(fs) - 1, NEW f, IsListFrame(f),
         NEW gs, gs = PutTop(fs, f), NEW qh \in {"list", "statement", "return"},
         qh # "list" => f.todo # <<>>, NEW qes, NEW idle, idle = IdleOf(f, qh),
         Placed(h, fs, ph, res, gs, qh, qes, n, idle), Charged(h, f, qh, idle),
         NEW ks, \/ f.before = fs[n + 1].before /\ f.checkpoint = fs[n + 1].checkpoint /\ ks = js
                 \/ /\ f.before = h /\ f.checkpoint = Len(ks) /\ Shorter(js, ks)
                    /\ n = 0 \/ Len(ks) = Len(js)
  PROVE  Inv(h, gs, qh, qes, ks)
<1>1. IsStack(fs, ph)
  BY DEF Inv
<1>2. IsTopPut(fs, f, qh, n, gs)
  BY <1>1, TopPutIs
<1>3. TopHolds(gs, qh, qes, f, n, idle)
  BY <1>2, TopIdle
<1>4. BudgetAt(h, gs, qh, n + 1)
  BY ONLY <1>3, Charged(h, f, qh, idle) DEF TopHolds, Charged, BudgetAt
<1>5. Moved(h, fs, ph, res, gs, qh, qes, n)
  <2> DEFINE fly == Flying(gs, qh, qes)
  <2>1. /\ Sound(h, fly) /\ Sound(h, idle) /\ Disjoint(h, fly, idle)
        /\ Settled(h, idle) /\ (qh = "return" \/ Settled(h, fly))
        /\ Chain(h, fly) \subseteq Chain(h, Above(fs, ph, res, n))
        /\ Chain(h, idle) \subseteq Chain(h, Above(fs, ph, res, n))
    BY DEF Placed
  <2> HIDE DEF fly
  <2>2. IsSeq(fly) /\ IsSeq(idle)
    BY <2>1 DEF Sound
  <2>3. Sound(h, fly \o idle)
    BY <2>1, <2>2, SoundConcat
  <2>4. Chain(h, fly \o idle) \subseteq Chain(h, Above(fs, ph, res, n))
    BY <2>1, <2>2, ChainConcat
  <2>5. Upper(gs, qh, n) = idle /\ Above(gs, qh, qes, n) = fly \o idle
    BY <1>3 DEF TopHolds, fly
  <2> QED
    BY ONLY <2>1, <2>2, <2>3, <2>4, <2>5 DEF Moved, fly
<1> QED
  BY <1>2, <1>4, <1>5, TopInv

\* What the step starts from.
AtList(f, n) ==
  /\ f = Top /\ frames # <<>> /\ IsListAt(frames, Len(frames)) /\ n = Len(frames) - 1
  /\ n + 1 = Len(frames) /\ f = frames[n + 1]
  /\ IsHeap(states) /\ IsStack(frames, phase) /\ IsListFrame(f)
  /\ phase = "list" => HoldsAll(states, frames, phase, result, f, n)
  /\ phase = "return" => HoldsRest(states, frames, phase, result, f, n)
\* The innermost frame is a list then.
LEMMA AtListIs ==
  ASSUME IInv, \/ phase = "list"
               \/ phase = "return" /\ frames # <<>> /\ Top.kind = "list"
  PROVE  AtList(Top, Len(frames) - 1)
<1>1. IsHeap(states) /\ IsStack(frames, phase)
  BY DEF IInv, Inv
<1>2. frames # <<>> /\ IsListAt(frames, Len(frames))
  BY <1>1 DEF IsStack, IsListAt, Top
<1>3. Len(frames) \in Nat /\ Len(frames) # 0 /\ DOMAIN frames = 1 .. Len(frames)
  BY <1>1, <1>2, SeqDomain DEF IsStack
<1>4. Len(frames) - 1 + 1 = Len(frames) /\ Len(frames) \in DOMAIN frames
  BY <1>3
<1>5. IsListFrame(Top)
  BY <1>1, <1>2, <1>4 DEF IsStack, Top
<1>6. /\ phase = "list" => HoldsAll(states, frames, phase, result, Top, Len(frames) - 1)
      /\ phase = "return" => HoldsRest(states, frames, phase, result, Top, Len(frames) - 1)
  BY <1>2, ListHolds DEF IInv, Top
<1> QED
  BY <1>1, <1>2, <1>4, <1>5, <1>6 DEF AtList, Top

\* A list frame with other paths.
WithPaths(f, todo, next, budget, previous) ==
  [f EXCEPT !.todo = todo, !.next = next, !.budget = budget, !.previous = previous]
IsWithPaths(f, todo, next, budget, previous, g) ==
  /\ IsListFrame(g) /\ g.todo = todo /\ g.next = next /\ g.budget = budget
  /\ g.previous = previous /\ g.before = f.before /\ g.checkpoint = f.checkpoint
\* A list frame with other paths is a list frame, with the same checkpoint.
LEMMA FrameWith ==
  ASSUME NEW f, IsListFrame(f), NEW todo, IsSeq(todo), NEW next, IsSeq(next), NEW budget,
         NEW previous
  PROVE  IsWithPaths(f, todo, next, budget, previous, WithPaths(f, todo, next, budget, previous))
  BY DEF IsListFrame, IsWithPaths, WithPaths

\* A path that is passed.
LEMMA PassPathInv == ASSUME IInv, PassPath PROVE IInv'
<1> DEFINE f == Top
           n == Len(frames) - 1
           a == f.next
           t == f.todo
           x == Head(t)
           u == Append(a, x)
           r == Tail(t)
           g == WithPaths(f, r, u, f.budget, f.previous)
           gs == PutTop(frames, g)
           idle == a \o t
<1>1. /\ phase = "list" /\ t # <<>>
      /\ frames' = [frames EXCEPT ![Len(frames)].todo = Tail(@),
                                  ![Len(frames)].next = Append(@, Head(Top.todo))]
      /\ UNCHANGED <<states, journal, journalBytes, phase, result, statements>>
  BY DEF PassPath
<1>2. AtList(f, n)
  BY <1>1, AtListIs
<1>3. HoldsAll(states, frames, phase, result, f, n) /\ IsListFrame(f) /\ IsHeap(states)
  BY <1>1, <1>2 DEF AtList
<1>4. IsSeq(a) /\ IsSeq(t)
  BY <1>3 DEF HoldsAll, Holds
<1>5. frames' = gs
  BY <1>1, <1>2, <1>3 DEF AtList, IsListFrame, PutTop, Top, WithPaths
<1> HIDE DEF a, t
<1>6. IsSeq(r) /\ t = <<x>> \o r /\ IsSeq(<<x>>)
  BY <1>1, <1>4, HeadIs, ChainOne DEF t
<1>7. u = a \o <<x>> /\ IsSeq(u)
  BY <1>4, AppendIs
<1>8. u \o r = idle
  <2> DEFINE p == <<x>>
  <2> HIDE DEF p, r, u
  <2>1. (a \o p) \o r = a \o (p \o r)
    BY <1>4, <1>6, ConcatThree DEF p
  <2> QED
    BY <1>6, <1>7, <2>1 DEF p
<1> HIDE DEF r, u, f
<1>9. IsWithPaths(f, r, u, f.budget, f.previous, g)
  BY <1>3, <1>6, <1>7, FrameWith
<1> HIDE DEF g, gs, n, idle
<1>10. idle = IdleOf(g, "list")
  BY <1>8, <1>9 DEF IdleOf, IsWithPaths
<1>11. /\ Sound(states, a) /\ Sound(states, t) /\ Disjoint(states, a, t)
       /\ Settled(states, a) /\ Settled(states, t)
       /\ Chain(states, Above(frames, phase, result, n)) = Chain(states, a) \cup Chain(states, t)
       /\ f.budget.bytes = SumOver(states, a) + SumOver(states, t)
       /\ f.budget.count = Len(a) + Len(t) /\ f.previous \in Int
       /\ f.budget.bytes \in Int /\ f.budget.count \in Int
  BY <1>3 DEF HoldsAll, Holds, a, t
<1>12. Both(states, a, t)
  BY <1>3, <1>11, BothAre
<1>13. /\ Sound(states, idle) /\ Settled(states, idle)
       /\ Chain(states, idle) = Chain(states, Above(frames, phase, result, n))
       /\ f.budget.bytes = SumOver(states, idle) /\ f.budget.count = Len(idle)
  BY <1>11, <1>12 DEF Both, idle
<1>14. Placed(states, frames, phase, result, gs, "list", result, n, idle)
  <2>1. Flying(gs, "list", result) = <<>>
    BY DEF Flying
  <2>2. Sound(states, <<>>) /\ Chain(states, <<>>) = {}
    BY ChainEmpty
  <2>3. Settled(states, <<>>)
    BY DEF Settled
  <2> QED
    BY <1>13, <2>1, <2>2, <2>3 DEF Placed, Disjoint
<1>15. Charged(states, g, "list", idle)
  <2> DEFINE m == SumOver(states, idle)
             l == Len(idle)
  <2>1. g.budget.bytes = m /\ g.budget.count = l /\ m \in Int /\ l \in Int /\ g.previous \in Int
    BY <1>9, <1>11, <1>13 DEF IsWithPaths
  <2> HIDE DEF m, l
  <2>2. g.budget.bytes = m + 0 /\ g.budget.count = l + 0
    BY ONLY <2>1
  <2> QED
    BY <2>1, <2>2 DEF Charged, m, l
<1>16. Inv(states, gs, "list", result, journal)
  BY <1>2, <1>9, <1>10, <1>14, <1>15, PutInv DEF AtList, IsWithPaths, IInv, n, gs
<1> QED
  BY <1>1, <1>5, <1>16 DEF IInv

\* The first path of the innermost list, and those after it.
Opened(h, fs, ph, res, f, n) ==
  LET a == f.next
      t == f.todo
      r == Tail(t)
  IN /\ t # <<>> /\ IsSeq(r) /\ IsSeq(a) /\ IsSeq(t)
     /\ Sound(h, a) /\ Sound(h, r) /\ Sound(h, <<Head(t)>>) /\ IsPath(h, Head(t))
     /\ Settled(h, a) /\ Settled(h, r) /\ Settled(h, <<Head(t)>>)
     /\ Disjoint(h, a, r) /\ Disjoint(h, <<Head(t)>>, a) /\ Disjoint(h, <<Head(t)>>, r)
     /\ Chain(h, Above(fs, ph, res, n)) =
          Chain(h, a) \cup (Chain(h, <<Head(t)>>) \cup Chain(h, r))
     /\ f.budget.bytes = SumOver(h, a) + SumOver(h, r) + StateBytes(h, (Head(t)).state)
     /\ f.budget.count = Len(a) + Len(r) + 1
     /\ StateBytes(h, (Head(t)).state) \in Int
\* The first path and the others are sound, and share no state.
LEMMA OpenedIs ==
  ASSUME NEW h, IsHeap(h), NEW fs, NEW ph, NEW res, NEW f, NEW n,
         HoldsAll(h, fs, ph, res, f, n), f.todo # <<>>
  PROVE  Opened(h, fs, ph, res, f, n)
<1> DEFINE a == f.next
           t == f.todo
           r == Tail(t)
           x == Head(t)
           p == <<x>>
<1>1. /\ Sound(h, a) /\ Settled(h, a) /\ Sound(h, t) /\ Settled(h, t) /\ Disjoint(h, a, t)
      /\ IsSeq(a) /\ IsSeq(t) /\ t # <<>>
      /\ Chain(h, Above(fs, ph, res, n)) = Chain(h, a) \cup Chain(h, t)
      /\ f.budget.bytes = SumOver(h, a) + SumOver(h, t)
      /\ f.budget.count = Len(a) + Len(t)
  BY DEF HoldsAll, Holds
<1> HIDE DEF a, t
<1>2. First(h, t)
  BY <1>1, FirstIs
<1>3. /\ IsSeq(r) /\ Sound(h, p) /\ Sound(h, r) /\ Disjoint(h, p, r)
      /\ Chain(h, t) = Chain(h, p) \cup Chain(h, r)
      /\ Settled(h, p) /\ Settled(h, r) /\ IsPath(h, x)
      /\ StateBytes(h, x.state) \in Int
      /\ SumOver(h, t) = StateBytes(h, x.state) + SumOver(h, r)
      /\ Len(t) = 1 + Len(r)
  BY <1>1, <1>2 DEF First
<1> HIDE DEF r, x, p
<1>4. Disjoint(h, a, r) /\ Disjoint(h, p, a)
  BY <1>1, <1>3 DEF Disjoint
<1>5. Len(a) \in Int /\ Len(r) \in Int /\ SumOver(h, a) \in Int /\ SumOver(h, r) \in Int
  BY <1>1, <1>3, SoundInHeap, SumIs, SeqDomain DEF PathSums
<1>6. /\ f.budget.bytes = SumOver(h, a) + SumOver(h, r) + StateBytes(h, x.state)
      /\ f.budget.count = Len(a) + Len(r) + 1
  BY ONLY <1>1, <1>3, <1>5
<1> QED
  BY <1>1, <1>3, <1>4, <1>6 DEF Opened, a, t, r, x, p

\* A statement that is started, or refused.
LEMMA StartStatementInv == ASSUME IInv, StartStatement PROVE IInv'
<1> DEFINE f == Top
           n == Len(frames) - 1
           a == f.next
           t == f.todo
           r == Tail(t)
           x == Head(t)
           p == <<x>>
           worth == StateBytes(states, x.state)
           g == WithPaths(f, t, a, f.budget, worth)
           gs == PutTop(frames, g)
           idle == a \o r
<1>1. /\ phase = "list" /\ t # <<>> /\ x.status = "completed"
      /\ frames' = [frames EXCEPT ![Len(frames)].previous = StateBytes(states, x.state)]
      /\ \/ phase' = "statement" /\ UNCHANGED result
         \/ phase' = "return" /\ result' = [paths |-> Failed(p), error |-> TRUE]
      /\ UNCHANGED <<states, journal, journalBytes>>
  BY DEF StartStatement, ReturnWith
<1>2. AtList(f, n)
  BY <1>1, AtListIs
<1>3. HoldsAll(states, frames, phase, result, f, n) /\ IsListFrame(f) /\ IsHeap(states)
  BY <1>1, <1>2 DEF AtList
<1>4. Opened(states, frames, phase, result, f, n)
  BY <1>1, <1>3, OpenedIs
<1>5. frames' = gs
  BY <1>1, <1>2, <1>3 DEF AtList, IsListFrame, PutTop, Top, WithPaths
<1>6. /\ IsSeq(r) /\ IsSeq(a) /\ IsSeq(t)
      /\ Sound(states, a) /\ Sound(states, r) /\ Sound(states, p) /\ IsPath(states, x)
      /\ Settled(states, a) /\ Settled(states, r) /\ Settled(states, p)
      /\ Disjoint(states, a, r) /\ Disjoint(states, p, a) /\ Disjoint(states, p, r)
      /\ Chain(states, Above(frames, phase, result, n)) =
           Chain(states, a) \cup (Chain(states, p) \cup Chain(states, r))
      /\ f.budget.bytes = SumOver(states, a) + SumOver(states, r) + worth
      /\ f.budget.count = Len(a) + Len(r) + 1
      /\ worth \in Int
  BY <1>4 DEF Opened
<1> HIDE DEF f, a, t, r, x, p, worth
<1>7. IsWithPaths(f, t, a, f.budget, worth, g)
  BY <1>3, <1>6, FrameWith
<1> HIDE DEF g, gs, n
<1>8. ASSUME NEW qh \in {"statement", "return"}
      PROVE  idle = IdleOf(g, qh)
  BY <1>7 DEF IdleOf, IsWithPaths, r
<1>9. Both(states, a, r)
  BY <1>3, <1>6, BothAre
<1> HIDE DEF idle
<1>10. ASSUME NEW qh \in {"statement", "return"}
       PROVE  Charged(states, g, qh, idle)
  BY <1>6, <1>7, <1>9 DEF Charged, IsWithPaths, Both, idle
<1>11. ASSUME NEW qh \in {"statement", "return"}, NEW qes, NEW fly, Flying(gs, qh, qes) = fly,
              Sound(states, fly), Chain(states, fly) = Chain(states, p),
              qh = "return" \/ Settled(states, fly)
       PROVE  Inv(states, gs, qh, qes, journal)
  <2>1. Placed(states, frames, phase, result, gs, qh, qes, n, idle)
    BY <1>6, <1>9, <1>11 DEF Placed, Disjoint, Both, idle
  <2> QED
    BY <1>1, <1>2, <1>7, <1>8, <1>10, <2>1, PutInv DEF AtList, IsWithPaths, IInv, n, gs
<1>12. ASSUME phase' = "statement", result' = result
       PROVE  Inv(states, gs, phase', result', journal)
  <2>1. x = Path(x.state, "completed")
    BY <1>1, <1>6 DEF IsPath
  <2>2. IsTopPut(frames, g, "statement", n, gs)
    BY <1>1, <1>2, <1>7, TopPutIs DEF AtList, IsWithPaths, n, gs
  <2>3. gs # <<>> /\ IsStack(gs, "statement") /\ IsListAt(gs, Len(gs)) /\ gs[Len(gs)] = g
    BY <2>2 DEF IsTopPut
  <2>4. SelfOf(gs) = x.state
    BY <1>7, <2>3, InnerTop DEF IsWithPaths, x
  <2>5. Flying(gs, "statement", result) = p
    BY <2>1, <2>4 DEF Flying, p
  <2> QED
    BY <1>6, <1>11, <1>12, <2>5
<1>13. ASSUME phase' = "return", result'.paths = Failed(p)
       PROVE  Inv(states, gs, phase', result', journal)
  <2>1. Flying(gs, "return", result') = Failed(p)
    BY <1>13 DEF Flying
  <2>2. Sound(states, Failed(p)) /\ Chain(states, Failed(p)) = Chain(states, p)
    BY <1>6, FailedIs
  <2> QED
    BY <1>11, <1>13, <2>1, <2>2
<1>14. \/ phase' = "statement" /\ result' = result
       \/ phase' = "return" /\ result'.paths = Failed(p)
  BY <1>1
<1>15. Inv(states, gs, phase', result', journal)
  BY ONLY <1>12, <1>13, <1>14
<1> QED
  BY <1>1, <1>5, <1>15 DEF IInv

\* The next statement is evaluated for all paths.
LEMMA NextStatementInv == ASSUME IInv, NextStatement PROVE IInv'
<1> DEFINE f == Top
           n == Len(frames) - 1
           a == f.next
           c == IF AtTop THEN f.checkpoint ELSE Len(journal)
           g == [WithPaths(f, a, <<>>, f.budget, f.previous) EXCEPT !.before = states,
                                                               !.checkpoint = c]
           gs == PutTop(frames, g)
           ks == journal'
<1>1. /\ phase = "list" /\ f.todo = <<>>
      /\ IF AtTop THEN ks = SubSeq(journal, 1, f.checkpoint) ELSE ks = journal
      /\ frames' = [frames EXCEPT ![Len(frames)].todo = Top.next,
                                  ![Len(frames)].next = <<>>,
                                  ![Len(frames)].before = states,
                                  ![Len(frames)].checkpoint =
                                     IF AtTop THEN @ ELSE Len(journal)]
      /\ UNCHANGED <<states, phase, result>>
  BY DEF NextStatement, Discard, KeepJournal
<1>2. AtList(f, n)
  BY <1>1, AtListIs
<1>3. HoldsAll(states, frames, phase, result, f, n) /\ IsListFrame(f) /\ IsHeap(states)
  BY <1>1, <1>2 DEF AtList
<1>4. frames' = gs
  BY <1>1, <1>2, <1>3 DEF AtList, IsListFrame, PutTop, Top, WithPaths
<1> HIDE DEF c
<1>5. /\ IsSeq(a) /\ Sound(states, a) /\ Settled(states, a)
      /\ Chain(states, Above(frames, phase, result, n)) = Chain(states, a) \cup Chain(states, <<>>)
      /\ f.budget.bytes = SumOver(states, a) + SumOver(states, <<>>)
      /\ f.budget.count = Len(a) + Len(<<>>)
      /\ f.previous \in Int
  BY <1>1, <1>3 DEF HoldsAll, Holds
<1> HIDE DEF f, a, n
<1>6. /\ Sound(states, <<>>) /\ Chain(states, <<>>) = {} /\ Len(<<>>) = 0 /\ IsSeq(<<>>)
      /\ Settled(states, <<>>)
  BY ChainEmpty DEF Settled
<1>7. SumOver(states, <<>>) = 0 /\ SumOver(states, a) \in Int /\ Len(a) \in Int
  BY <1>3, <1>5, <1>6, SoundInHeap, SumIs, SeqDomain DEF PathSums
<1>8. f.checkpoint \in Nat /\ IsSeq(journal) /\ Len(journal) \in Nat
      /\ f.checkpoint \in 0 .. Len(journal)
  <2>1. n + 1 \in 1 .. Len(frames) /\ IsListAt(frames, n + 1) /\ f = frames[n + 1]
    BY <1>2, <1>3, SeqDomain DEF AtList, HoldsAll, Holds
  <2>2. IsSeq(journal) /\ f.checkpoint <= Len(journal)
    BY <2>1 DEF IInv, Inv, IsJournal, Checkpoints
  <2> QED
    BY <1>3, <2>2, SeqDomain DEF IsListFrame
<1>9. Shorter(journal, ks) /\ c = Len(ks) /\ c \in Nat /\ (n = 0 \/ Len(ks) = Len(journal))
  <2>1. CASE AtTop
    <3>1. Len(frames) = 1
      BY <1>2, <2>1, AtTopIs DEF AtList
    <3>2. n = 0
      BY <3>1 DEF n
    <3> QED
      BY <1>1, <1>8, <2>1, <3>2, ShorterCut DEF c
  <2>2. CASE ~AtTop
    BY <1>1, <1>8, <2>2, ShorterSame DEF c
  <2> QED
    BY <2>1, <2>2
<1>10. IsWithPaths(f, a, <<>>, f.budget, f.previous, WithPaths(f, a, <<>>, f.budget, f.previous))
  BY <1>3, <1>5, <1>6, FrameWith
<1>11. /\ IsListFrame(g) /\ g.todo = a /\ g.next = <<>> /\ g.budget = f.budget
       /\ g.previous = f.previous /\ g.before = states /\ g.checkpoint = c
  <2> DEFINE u == WithPaths(f, a, <<>>, f.budget, f.previous)
  <2> HIDE DEF u
  <2>1. /\ IsListFrame(u) /\ u.todo = a /\ u.next = <<>> /\ u.budget = f.budget
        /\ u.previous = f.previous
    BY <1>10 DEF IsWithPaths, u
  <2>2. IsSeq(states) /\ \A i \in DOMAIN states : /\ states[i].written \in Counts
                                                  /\ states[i].renewed \in Counts
    BY <1>3 DEF IsHeap, IsState
  <2> QED
    BY ONLY <1>9, <2>1, <2>2 DEF IsListFrame, g, u
<1> HIDE DEF g, gs, ks
<1>12. a = IdleOf(g, "list")
  BY <1>5, <1>11, ConcatIs DEF IdleOf
<1>13. Charged(states, g, "list", a)
  <2> DEFINE m == SumOver(states, a)
             l == Len(a)
  <2>1. g.budget.bytes = m + 0 /\ g.budget.count = l + 0 /\ g.previous \in Int /\ m \in Int /\ l \in Int
    BY <1>5, <1>6, <1>7, <1>11
  <2> QED
    BY <2>1 DEF Charged
<1>14. Placed(states, frames, phase, result, gs, "list", result, n, a)
  <2>1. Flying(gs, "list", result) = <<>>
    BY DEF Flying
  <2> QED
    BY <1>5, <1>6, <2>1 DEF Placed, Disjoint
<1>15. Inv(states, gs, "list", result, ks)
  BY <1>2, <1>9, <1>11, <1>12, <1>13, <1>14, PutInv DEF AtList, IInv, n, gs
<1> QED
  BY <1>1, <1>4, <1>15 DEF IInv, ks

\* A list that is left: its paths are handed back, with its journal unless it
\* is the outermost.
LEMMA LeaveInv ==
  ASSUME NEW h, NEW fs, NEW ph, NEW res, NEW js, Inv(h, fs, ph, res, js), fs # <<>>,
         NEW gs, gs = Front(fs), NEW n, n = Len(fs) - 1, NEW qes,
         Sound(h, qes.paths), Chain(h, qes.paths) \subseteq Chain(h, Above(fs, ph, res, n)),
         NEW ks, Shorter(js, ks), n = 0 \/ Len(ks) = Len(js)
  PROVE  Inv(h, gs, "return", qes, ks)
<1> DEFINE p == qes.paths
<1>1. IsBelow(fs, n, gs)
  BY BelowIs DEF Inv
<1>2. Flying(gs, "return", qes) = p
  BY DEF Flying
<1>3. IsSeq(p)
  BY DEF Sound
<1> HIDE DEF p
<1>4. Len(gs) = n
  BY <1>1 DEF IsBelow
<1>5. /\ Above(gs, "return", qes, n) = p
      /\ Settled(h, Upper(gs, "return", n))
  BY <1>2, <1>3, <1>4, AboveFlat
<1>6. Moved(h, fs, ph, res, gs, "return", qes, n)
  BY <1>2, <1>3, <1>5 DEF Moved, p
<1> QED
  BY <1>6, PopInv

\* What leaving does.
Leaving(paths, n) ==
  /\ n = Len(frames) - 1 /\ frames # <<>> /\ frames' = Front(frames) /\ phase' = "return"
  /\ result'.paths = paths
  /\ Shorter(journal, journal') /\ (n = 0 \/ Len(journal') = Len(journal))
\* What leaving a list does to the frames and to the journal.
LEMMA Leaves ==
  ASSUME IInv, NEW f, NEW n, AtList(f, n), NEW paths, NEW error, Leave(paths, error)
  PROVE  Leaving(paths, n)
<1>1. /\ frames' = Front(frames) /\ phase' = "return" /\ result'.paths = paths
      /\ IF AtTop THEN journal' = SubSeq(journal, 1, 0) ELSE journal' = journal
  BY DEF Leave, Below, ReturnWith, Discard, KeepJournal
<1>2. IsSeq(journal) /\ Len(journal) \in Nat /\ 0 \in 0 .. Len(journal)
  BY SeqDomain DEF IInv, Inv, IsJournal
<1>3. Shorter(journal, journal')
  BY <1>1, <1>2, ShorterSame, ShorterCut
<1>4. AtTop => Len(frames) = 1
  BY AtTopIs DEF AtList
<1>5. n = 0 \/ Len(journal') = Len(journal)
  BY <1>1, <1>4 DEF AtList
<1> QED
  BY <1>1, <1>3, <1>5 DEF Leaving, AtList

\* All paths of a list had all its statements.
LEMMA EndListInv == ASSUME IInv, EndList PROVE IInv'
<1> DEFINE f == Top
           n == Len(frames) - 1
           a == f.next
<1>1. phase = "list" /\ Leave(a, FALSE) /\ states' = states
  BY DEF EndList
<1>2. AtList(f, n)
  BY <1>1, AtListIs
<1>3. /\ Sound(states, a)
      /\ Chain(states, a) \subseteq Chain(states, Above(frames, phase, result, n))
  BY <1>1, <1>2 DEF AtList, HoldsAll, Holds
<1> HIDE DEF f, n
<1>4. Leaving(a, n)
  BY <1>1, <1>2, Leaves
<1>5. Inv(states, frames', "return", result', journal')
  BY <1>3, <1>4, LeaveInv DEF Leaving, IInv
<1> QED
  BY <1>1, <1>4, <1>5 DEF IInv, Leaving

\* What a list held and what its statement handed back.
Returned(h, fs, res, a, n, p) ==
  Sound(h, a \o p) /\ Chain(h, a \o p) \subseteq Chain(h, Above(fs, "return", res, n))
\* Both may be handed back together, also when the latter have failed.
LEMMA ReturnedIs ==
  ASSUME NEW h, IsHeap(h), NEW fs, NEW res, NEW f, NEW n,
         HoldsRest(h, fs, "return", res, f, n)
  PROVE  /\ Returned(h, fs, res, f.next, n, res.paths)
         /\ Returned(h, fs, res, f.next, n, Failed(res.paths))
<1> DEFINE a == f.next
           p == res.paths
           q == Failed(p)
           r == Tail(f.todo)
<1>1. /\ Sound(h, a) /\ Sound(h, p) /\ Disjoint(h, p, a)
      /\ Chain(h, Above(fs, "return", res, n)) = Chain(h, p) \cup (Chain(h, a) \cup Chain(h, r))
  BY DEF HoldsRest, Holds
<1> HIDE DEF a, p, r
<1>2. Sound(h, q) /\ Chain(h, q) = Chain(h, p)
  BY <1>1, FailedIs
<1> HIDE DEF q
<1>3. Disjoint(h, a, p) /\ Disjoint(h, a, q)
  BY <1>1, <1>2 DEF Disjoint
<1>4. Both(h, a, p) /\ Both(h, a, q)
  BY <1>1, <1>2, <1>3, BothAre
<1> QED
  BY <1>1, <1>2, <1>4 DEF Returned, Both, a, p, q

\* What a statement handed back, resolved.
LEMMA Resolves ==
  ASSUME IInv, phase = "return", frames # <<>>, Top.kind = "list", NEW n, AtList(Top, n),
         NEW qes, qes.paths = Resolved.paths
  PROVE  /\ ResolvedTo(states, result.paths, Len(result.paths), Resolved)
         /\ Inv(Resolved.h, frames, "return", qes, journal)
         /\ HoldsRest(Resolved.h, frames, "return", qes, Top, n)
<1>1. IsHeap(states) /\ Sound(states, result.paths)
  BY DEF AtList, HoldsRest
<1>2. ResolvedTo(states, result.paths, Len(result.paths), Resolved)
  BY <1>1, ResolvedIs
<1>3. Inv(Resolved.h, frames, "return", qes, journal)
  BY <1>2, ResolveInv DEF IInv
<1>4. /\ IsListAt(frames, Len(frames)) /\ n = Len(frames) - 1 /\ Top = frames[Len(frames)]
  BY DEF AtList, Top
<1>5. HoldsRest(Resolved.h, frames, "return", qes, frames[Len(frames)], Len(frames) - 1)
  BY <1>3, <1>4, ListHolds
<1> QED
  BY <1>2, <1>3, <1>4, <1>5

\* A list that an error ends.
LEMMA EndInErrorInv == ASSUME IInv, EndInError PROVE IInv'
<1> DEFINE f == Top
           n == Len(frames) - 1
           a == f.next
           qes == [paths |-> Resolved.paths, error |-> FALSE]
           p == Resolved.paths
<1>1. phase = "return" /\ frames # <<>> /\ Top.kind = "list"
  BY DEF EndInError, Ending
<1>2. AtList(f, n)
  BY <1>1, AtListIs
<1>3. IsHeap(states) /\ HoldsRest(states, frames, "return", result, f, n)
  BY <1>1, <1>2 DEF AtList
<1>4. /\ Returned(states, frames, result, a, n, result.paths)
      /\ Returned(states, frames, result, a, n, Failed(result.paths))
  BY <1>3, ReturnedIs
<1>5. /\ Inv(Resolved.h, frames, "return", qes, journal)
      /\ HoldsRest(Resolved.h, frames, "return", qes, f, n)
  BY <1>1, <1>2, Resolves
<1>6. Returned(Resolved.h, frames, qes, a, n, Failed(p))
  <2>1. IsHeap(Resolved.h)
    BY <1>5 DEF Inv
  <2>2. Returned(Resolved.h, frames, qes, a, n, Failed(qes.paths))
    BY <1>5, <2>1, ReturnedIs
  <2> QED
    BY <2>2
<1>7. \/ Leave(a \o Failed(result.paths), TRUE) /\ states' = states
      \/ Leave(a \o result.paths, TRUE) /\ states' = states
      \/ Leave(a \o Failed(p), TRUE) /\ states' = Resolved.h
  BY DEF EndInError
<1> HIDE DEF f, n, a, qes, p
<1>8. ASSUME NEW h, NEW res, NEW q, Inv(h, frames, "return", res, journal),
             Returned(h, frames, res, a, n, q), Leave(a \o q, TRUE), states' = h
      PROVE  IInv'
  <2>1. Leaving(a \o q, n)
    BY <1>2, <1>8, Leaves
  <2>2. Inv(h, frames', "return", result', journal')
    BY <1>8, <2>1, LeaveInv DEF Leaving, Returned
  <2> QED
    BY <1>8, <2>1, <2>2 DEF IInv, Leaving
<1>9. Inv(states, frames, "return", result, journal)
  BY <1>1 DEF IInv
<1> QED
  BY <1>4, <1>5, <1>6, <1>7, <1>8, <1>9

\* A statement that is over, within the budget.
LEMMA EndStatementInv == ASSUME IInv, EndStatement PROVE IInv'
<1> DEFINE f == Top
           n == Len(frames) - 1
           a == f.next
           r == Tail(f.todo)
           h == Resolved.h
           p == Resolved.paths
           qes == [paths |-> p, error |-> FALSE]
           u == a \o p
           g == WithPaths(f, r, u, Spent, f.previous)
           gs == PutTop(frames, g)
           idle == u \o r
<1>1. /\ phase = "return" /\ frames # <<>> /\ Top.kind = "list"
      /\ states' = h /\ phase' = "list" /\ journal' = journal
      /\ frames' = [frames EXCEPT ![Len(frames)].todo = Tail(@),
                                  ![Len(frames)].next = @ \o Resolved.paths,
                                  ![Len(frames)].budget = Spent]
  BY DEF EndStatement, Ending
<1>2. AtList(f, n)
  BY <1>1, AtListIs
<1>3. /\ ResolvedTo(states, result.paths, Len(result.paths), Resolved)
      /\ Inv(h, frames, "return", qes, journal)
      /\ HoldsRest(h, frames, "return", qes, f, n)
  BY <1>1, <1>2, Resolves
<1>4. frames' = gs
  BY <1>1, <1>2 DEF AtList, IsListFrame, PutTop, Top, WithPaths
<1>5. IsHeap(h) /\ IsListFrame(f)
  BY <1>2, <1>3 DEF Inv, AtList
<1>6. /\ IsSeq(a) /\ Sound(h, a) /\ Settled(h, a)
      /\ IsSeq(r) /\ Sound(h, r) /\ Settled(h, r) /\ Disjoint(h, a, r)
      /\ Sound(h, p) /\ Disjoint(h, p, a) /\ Disjoint(h, p, r)
      /\ Chain(h, Above(frames, "return", qes, n)) =
           Chain(h, p) \cup (Chain(h, a) \cup Chain(h, r))
      /\ f.budget.bytes = SumOver(h, a) + SumOver(h, r) + f.previous
      /\ f.budget.count = Len(a) + Len(r) + 1
      /\ f.previous \in Int
  BY <1>3 DEF HoldsRest, Holds
<1>7. Settled(h, p)
  BY <1>3 DEF ResolvedTo
<1>8. Spent = [bytes |-> f.budget.bytes - f.previous + SumOver(h, p),
               count |-> f.budget.count - 1 + Len(p)]
  BY DEF Spent, Replace
<1> HIDE DEF f, n, a, r, h, p, qes
<1>9. Disjoint(h, a, p)
  BY <1>6 DEF Disjoint
<1>10. Both(h, a, p)
  BY <1>5, <1>6, <1>9, BothAre
<1>11. /\ IsSeq(u) /\ Sound(h, u) /\ Settled(h, u)
       /\ Chain(h, u) = Chain(h, a) \cup Chain(h, p)
       /\ SumOver(h, u) = SumOver(h, a) + SumOver(h, p)
       /\ Len(u) = Len(a) + Len(p)
  BY <1>6, <1>7, <1>10 DEF Both
<1> HIDE DEF u
<1>12. Disjoint(h, u, r)
  BY <1>6, <1>11 DEF Disjoint
<1>13. Both(h, u, r)
  BY <1>5, <1>6, <1>11, <1>12, BothAre
<1>14. /\ Sound(h, idle) /\ Settled(h, idle)
       /\ Chain(h, idle) = Chain(h, Above(frames, "return", qes, n))
       /\ SumOver(h, idle) = SumOver(h, u) + SumOver(h, r)
       /\ Len(idle) = Len(u) + Len(r)
  BY <1>6, <1>11, <1>13 DEF Both
<1> HIDE DEF idle
<1>15. /\ SumOver(h, a) \in Int /\ SumOver(h, r) \in Int /\ SumOver(h, p) \in Int
       /\ Len(a) \in Int /\ Len(r) \in Int /\ Len(p) \in Int
  <2>1. IsSeq(p)
    BY <1>6 DEF Sound
  <2> QED
    BY <1>5, <1>6, <2>1, SoundInHeap, SumIs, SeqDomain DEF PathSums
<1>16. /\ Spent.bytes = SumOver(h, idle) + 0 /\ SumOver(h, idle) \in Int
       /\ Spent.count = Len(idle) + 0 /\ Len(idle) \in Int
  BY ONLY <1>6, <1>8, <1>11, <1>14, <1>15
<1>17. IsWithPaths(f, r, u, Spent, f.previous, g)
  BY <1>5, <1>6, <1>11, FrameWith
<1> HIDE DEF g, gs
<1>18. Charged(h, g, "list", idle)
  BY <1>6, <1>16, <1>17 DEF Charged, IsWithPaths
<1>19. idle = IdleOf(g, "list")
  BY <1>17 DEF IsWithPaths, IdleOf, idle
<1>20. Placed(h, frames, "return", qes, gs, "list", result', n, idle)
  <2>1. Flying(gs, "list", result') = <<>>
    BY DEF Flying
  <2>2. Sound(h, <<>>) /\ Chain(h, <<>>) = {} /\ Settled(h, <<>>)
    BY ChainEmpty DEF Settled
  <2> QED
    BY <1>14, <2>1, <2>2 DEF Placed, Disjoint
<1>21. Inv(h, gs, "list", result', journal)
  BY <1>2, <1>3, <1>17, <1>18, <1>19, <1>20, PutInv DEF AtList, IsWithPaths, n, gs
<1> QED
  BY <1>1, <1>4, <1>21 DEF IInv

-------------------------------------------------------------------------------
(* What is done with the state that is evaluated. *)

\* The state that is evaluated.
Working(i) ==
  /\ i = Self /\ i = SelfOf(frames) /\ i \in DOMAIN states /\ IsHeap(states)
  /\ IsState(states[i]) /\ states[i].failure = None
  /\ Ghosted(states[i].vars, states[i].truth)
  /\ Chain(states, <<Path(i, "completed")>>) = {i}
  /\ Flying(frames, phase, result) = <<Path(i, "completed")>>
\* While a statement or a command is evaluated, there is such a state.
LEMMA WorkingIs ==
  ASSUME IInv, phase \in {"statement", "body"}
  PROVE  Working(Self)
<1>1. Self = SelfOf(frames)
  BY SelfIs DEF IInv, Inv
<1>2. IsSelf(states, frames, phase, result, Self)
  BY <1>1, SelfState DEF IInv
<1>3. IsHeap(states)
  BY DEF IInv, Inv
<1>4. IsState(states[Self])
  BY <1>2, <1>3 DEF IsSelf, IsHeap
<1>5. Ghosted(states[Self].vars, states[Self].truth)
  BY <1>4, StateIs
<1> QED
  BY <1>1, <1>2, <1>3, <1>4, <1>5 DEF IsSelf, Working

\* A step that hands it back keeps the invariant.
LEMMA WorksInv ==
  ASSUME IInv, phase \in {"statement", "body"}, NEW i, Working(i),
         Ends(states, states', i), UNCHANGED frames, phase' = "return", NEW status,
         result'.paths = <<Path(i, status)>>, Recorded(states, i, journal, journal')
  PROVE  IInv'
<1>1. Inv(states', frames, "return", result', journal')
  BY WorkInv DEF Working, IInv
<1> QED
  BY <1>1 DEF IInv

\* The state as it was.
LEMMA EndsSame ==
  ASSUME NEW i, Working(i)
  PROVE  Ends(states, states, i)
<1>1. Evolves(states, states, {})
  BY EvolvesNone DEF Working
<1> QED
  BY <1>1 DEF Ends, Evolves, Working

\* The names of a list of assignments.
LEMMA NamesAre ==
  ASSUME NEW list \in Lists
  PROVE  Names(list) \subseteq Name /\ IsFiniteSet(Names(list))
<1>1. IsSeq(list) /\ \A k \in DOMAIN list : list[k].name \in Name
  BY AssignmentsAssumption DEF IsAssignment
<1>2. Len(list) \in Nat /\ DOMAIN list = 1 .. Len(list)
  BY <1>1, SeqDomain
<1>3. IsFiniteSet(1 .. Len(list))
  BY <1>2, FS_Interval
<1> DEFINE f == [k \in 1 .. Len(list) |-> list[k].name]
<1>4. f \in Surjection(1 .. Len(list), Names(list))
  BY <1>2 DEF Names, Surjection
<1> HIDE DEF f
<1>5. IsFiniteSet(Names(list))
  BY <1>3, <1>4, FS_Surjection
<1> QED
  BY <1>1, <1>5 DEF Names

\* What is saved before a call.
LEMMA SavedIs ==
  ASSUME NEW s, IsState(s), NEW names, names \subseteq Name, IsFiniteSet(names), NEW u
  PROVE  /\ IsSaved(Save(s, names)) /\ IsSaved(Applied(Save(s, names), u))
         /\ DOMAIN Save(s, names) = names /\ DOMAIN Applied(Save(s, names), u) = names
<1>1. IsVars(s.vars) /\ HasValues(s.truth) /\ Agrees(s.vars, s.truth)
  BY DEF IsState
<1>2. \A n \in Name : /\ IsEntry(Entry(s.vars, n))
                      /\ AgreeingEntries(Entry(s.vars, n), Entry(s.truth, n))
  BY <1>1, EntryIs, EntriesAgree
<1>3. \A n \in names : /\ (Save(s, names))[n].entry = Entry(s.vars, n)
                       /\ (Save(s, names))[n].truth = Entry(s.truth, n)
                       /\ (Applied(Save(s, names), u))[n].entry = Entry(s.vars, n)
                       /\ (Applied(Save(s, names), u))[n].truth = Entry(s.truth, n)
  BY DEF Save, Applied
<1>4. DOMAIN Save(s, names) = names /\ DOMAIN Applied(Save(s, names), u) = names
  BY DEF Save, Applied
<1> QED
  BY <1>2, <1>3, <1>4 DEF IsSaved

\* x=1 y=2.
LEMMA AssignStatementInv ==
  ASSUME IInv, NEW list \in Lists, AssignStatement(list)
  PROVE  IInv'
<1> DEFINE i == Self
           r == Apply(states, i, list, FALSE)
<1>1. /\ phase = "statement" /\ frames' = frames /\ journal' = journal
  BY DEF AssignStatement
<1>2. PICK q \in {r} :
        /\ states' = IF q.error # "none" THEN q.h
                     ELSE [q.h EXCEPT ![i].failure = None,
                                      ![i].written = Count(@, Names(list))]
        /\ ReturnWith(<<Path(i, IF q.error = "none" THEN "completed" ELSE "incomplete")>>,
                      FALSE)
  BY Zenon DEF AssignStatement
<1>3. Working(i)
  BY <1>1, WorkingIs
<1> HIDE DEF i
<1>4. Applies(states, i, list, r)
  BY <1>3, ApplyIs DEF Working
<1> HIDE DEF r
<1>5. phase' = "return" /\ result'.paths =
                             <<Path(i, IF q.error = "none" THEN "completed" ELSE "incomplete")>>
  BY <1>2 DEF ReturnWith
<1>6. Ends(states, states', i)
  <2>1. CASE q.error # "none"
    BY <1>2, <1>3, <1>4, <2>1, EndsSame DEF Applies
  <2>2. CASE q.error = "none"
    <3>1. PICK vs, t : q.h = SetTo(states, i, vs, t) /\ Rewritten(states, i, vs, t, Names(list))
      BY <1>4, <2>2 DEF Applies
    <3>2. states' = [SetTo(states, i, vs, t) EXCEPT ![i].failure = None,
                                                    ![i].written = Count(@, Names(list))]
      BY <1>2, <2>2, <3>1
    <3>3. Completes(states, states', i)
      BY <1>3, <3>1, <3>2, Assigns DEF Working
    <3> QED
      BY <3>3 DEF Completes, Ends
  <2> QED
    BY <2>1, <2>2
<1> QED
  BY <1>1, <1>3, <1>5, <1>6, WorksInv DEF Recorded

\* The assignments of x=1 command, of which one fails.
LEMMA CallRefusedInv ==
  ASSUME IInv, NEW list \in Lists, phase = "statement", UNCHANGED <<frames, journal>>,
         (Apply(states, Self, list, TRUE)).error # "none",
         states' = Restore((Apply(states, Self, list, TRUE)).h, <<Path(Self, "completed")>>,
                           Save(states[Self], Names(list)), FALSE),
         ReturnWith(<<Path(Self, "incomplete")>>, FALSE)
  PROVE  IInv'
<1> DEFINE i == Self
           saved == Save(states[i], Names(list))
           p == <<Path(i, "completed")>>
           r == Apply(states, i, list, TRUE)
<1>1. Working(i)
  BY WorkingIs
<1>2. states' = Restore(states, p, saved, FALSE)
  <2>1. Applies(states, i, list, r)
    BY <1>1, ApplyIs DEF Working
  <2> QED
    BY <2>1 DEF Applies
<1>3. phase' = "return" /\ result'.paths = <<Path(i, "incomplete")>>
  BY DEF ReturnWith
<1> HIDE DEF i, r
<1>4. IsSaved(saved)
  BY <1>1, NamesAre, SavedIs DEF Working
<1> HIDE DEF saved
<1>5. EndedOn(states, p, saved, FALSE, states')
  BY <1>1, <1>2, <1>4, Restores DEF Working
<1>6. Ends(states, states', i)
  BY <1>1, <1>5 DEF Working, Ends, EndedOn
<1> QED
  BY <1>1, <1>3, <1>6, WorksInv DEF Recorded, i

\* A command that sets its exit status.
LEMMA NothingInv == ASSUME IInv, Nothing PROVE IInv'
<1> DEFINE i == Self
<1>1. /\ phase \in {"statement", "body"} /\ frames' = frames /\ journal' = journal
      /\ states' = [states EXCEPT ![i].failure = None]
      /\ phase' = "return" /\ result'.paths = <<Path(i, "completed")>>
  BY DEF Nothing, Completed, ReturnWith
<1>2. Working(i)
  BY <1>1, WorkingIs
<1> HIDE DEF i
<1>3. Completes(states, states', i)
  BY <1>1, <1>2, NoVariable DEF Working
<1>4. Ends(states, states', i)
  BY <1>3 DEF Completes, Ends
<1> QED
  BY <1>1, <1>2, <1>4, WorksInv DEF Recorded

\* What mutateVariables makes of the states: the change, or nothing.
Mutates(i, a, b, r) == r = states \/ r = SetTo(states, i, a, b)
\* A change that the memory limit may refuse keeps the invariant.
LEMMA MutationInv ==
  ASSUME IInv, phase = "body", NEW i, Working(i), NEW n \in Name, NEW a, NEW b,
         Rewritten(states, i, a, b, {n}), NEW r, Mutates(i, a, b, r),
         states' = [r EXCEPT ![i].failure = None,
                             ![i].written = IF r = states THEN @ ELSE Count(@, {n})],
         UNCHANGED frames, Completed(i), Recorded(states, i, journal, journal')
  PROVE  IInv'
<1>1. phase' = "return" /\ result'.paths = <<Path(i, "completed")>>
  BY DEF Completed, ReturnWith
<1>2. Completes(states, states', i)
  BY Writes DEF Working, Mutates
<1>3. Ends(states, states', i)
  BY <1>2 DEF Completes, Ends
<1> QED
  BY <1>1, <1>3, WorksInv

\* printf -v and read.
LEMMA WriteVariableInv ==
  ASSUME IInv, NEW n \in Targets, NEW text \in Texts, NEW journaled \in BOOLEAN,
         WriteVariable(n, text, journaled)
  PROVE  IInv'
<1> DEFINE i == Self
           Op(vs) == AssignShell(vs, n, Scalar(text), FALSE, Dense)
           h == IF Lookup(states[i].vars, n).readonly THEN states
                ELSE Mutated(states, i, Op)
           a == Op(states[i].vars)
           b == Op(states[i].truth)
<1>1. phase = "body" /\ frames' = frames /\ Completed(i)
  BY DEF WriteVariable, Builtin
<1>2. states' = [h EXCEPT ![i].failure = None,
                          ![i].written = IF h = states THEN @ ELSE Count(@, {n})]
  BY Zenon DEF WriteVariable
<1>3. \/ journal' = Append(journal, Record(states, i, n))
      \/ journal' = journal
  BY DEF WriteVariable, KeepJournal
<1>4. Mutates(i, a, b, h)
  BY DEF Mutates, Mutated, Change, SetTo
<1>5. n \in Name /\ IsSeq(text)
  BY AssignmentsAssumption
<1>6. Working(i)
  BY <1>1, WorkingIs
<1> HIDE DEF i
<1>7. Rewritten(states, i, a, b, {n})
  BY <1>5, <1>6, ShellWrites DEF Working, Rewritten
<1> HIDE DEF h, a, b
<1>8. Recorded(states, i, journal, journal')
  BY <1>3, <1>5 DEF Recorded
<1> QED
  BY <1>1, <1>2, <1>4, <1>5, <1>6, <1>7, <1>8, MutationInv

\* unset.
LEMMA UnsetInv == ASSUME IInv, NEW n \in Targets, Unset(n) PROVE IInv'
<1> DEFINE i == Self
           Op(vs) == Delete(vs, n)
           h == IF Lookup(states[i].vars, n).readonly THEN states
                ELSE Mutated(states, i, Op)
           a == Op(states[i].vars)
           b == Op(states[i].truth)
<1>1. phase = "body" /\ frames' = frames /\ journal' = journal /\ Completed(i)
  BY DEF Unset, Builtin, KeepJournal
<1>2. states' = [h EXCEPT ![i].failure = None,
                          ![i].written = IF h = states THEN @ ELSE Count(@, {n})]
  BY Zenon DEF Unset
<1>3. Mutates(i, a, b, h)
  BY DEF Mutates, Mutated, Change, SetTo
<1>4. n \in Name
  BY AssignmentsAssumption
<1>5. Working(i)
  BY <1>1, WorkingIs
<1> HIDE DEF i
<1>6. Rewritten(states, i, a, b, {n})
  BY <1>4, <1>5, ShellUnsets DEF Working, Rewritten
<1> HIDE DEF h, a, b
<1>7. Recorded(states, i, journal, journal')
  BY <1>1 DEF Recorded
<1> QED
  BY <1>1, <1>2, <1>3, <1>4, <1>5, <1>6, <1>7, MutationInv

\* Names that are exported.
LEMMA ExportedAre ==
  ASSUME NEW vs, IsVars(vs), Owners(vs) \subseteq Name, NEW S, S \subseteq DOMAIN vs.data
  PROVE  S \subseteq Name /\ IsFiniteSet(S)
<1>1. IsFiniteSet(DOMAIN vs.data) /\ DOMAIN vs.data \subseteq Name
  BY PartTypes
<1> QED
  BY <1>1, FS_Subset

\* A command whose success is not known.
LEMMA UncertainInv == ASSUME IInv, NEW clear \in BOOLEAN, Uncertain(clear) PROVE IInv'
<1> DEFINE i == Self
           s == states[i]
           names == {n \in DOMAIN s.vars.data : clear /\ Lookup(s.vars, n).exported}
           Hide(vs) == Hidden(vs, names)
           copy == [s EXCEPT !.failure = None]
           l == Append(states, copy)
           h == Change(l, i, Hide)
           a == Hidden(s.vars, names)
           b == Hidden(s.truth, names)
<1>1. phase = "body" /\ frames' = frames /\ journal' = journal /\ Completed(i)
  BY DEF Uncertain, Builtin
<1>2. states' = [h EXCEPT ![i].failure = Len(h), ![i].other = @ + 1,
                          ![i].written = Count(@, names)]
  BY Zenon DEF Uncertain, Hidden, Change
<1>3. Working(i)
  BY <1>1, WorkingIs
<1> HIDE DEF i
<1>4. IsSeq(states) /\ i \in DOMAIN states /\ Len(states) \in Nat /\ DOMAIN states = 1 .. Len(states)
  BY <1>3, SeqDomain DEF Working, IsHeap
<1>5. IsSeq(l) /\ Len(l) = Len(states) + 1 /\ l[i] = s
  <2> HIDE DEF copy, s
  <2>1. Longer(states, copy)
    BY <1>4, Lengthens
  <2> QED
    BY <1>4, <2>1 DEF Longer, s
<1>6. h = SetTo(l, i, a, b) /\ Len(h) = Len(states) + 1
  <2> HIDE DEF l, s, names
  <2>1. h = SetTo(l, i, a, b)
    BY <1>5 DEF Change, SetTo
  <2>2. i \in DOMAIN l
    BY <1>4, <1>5, SeqDomain
  <2>3. Len(SetTo(l, i, a, b)) = Len(l)
    <3> DEFINE x == [l[i] EXCEPT !.vars = a, !.truth = b]
    <3>1. SetTo(l, i, a, b) = [l EXCEPT ![i] = x]
      BY <2>2 DEF SetTo
    <3> HIDE DEF x
    <3> QED
      BY <1>5, <2>2, <3>1, Exchanges DEF Exchanged
  <2> QED
    BY <1>5, <2>1, <2>3
<1>7. IsVars(s.vars) /\ Owners(s.vars) \subseteq Name /\ Ghosted(s.vars, s.truth)
  BY <1>3 DEF Working, IsState
<1>8. names \subseteq Name /\ IsFiniteSet(names)
  BY <1>7, ExportedAre
<1>9. Rewritten(states, i, a, b, names)
  <2> HIDE DEF names
  <2> QED
    BY <1>7, <1>8, HiddenIs DEF Rewritten
<1>10. states' = [SetTo(l, i, a, b) EXCEPT ![i].failure = Len(states) + 1, ![i].other = @ + 1,
                                           ![i].written = Count(@, names)]
  <2> HIDE DEF h, l, a, b, names
  <2> QED
    BY <1>2, <1>6
<1>11. l = Append(states, [states[i] EXCEPT !.failure = None])
  OBVIOUS
<1> HIDE DEF l, a, b, names, s, h
<1>12. Splits(states, states', i)
  BY <1>3, <1>9, <1>10, <1>11, SplitsState DEF Working
<1>13. phase' = "return" /\ result'.paths = <<Path(i, "completed")>>
  BY <1>1 DEF Completed, ReturnWith
<1> QED
  BY <1>1, <1>3, <1>12, <1>13, WorksInv DEF Recorded, Ends

-------------------------------------------------------------------------------
(* A list or a call that is begun. *)

\* What has seen a state first has seen it as it is.
LEMMA SeenFirst ==
  ASSUME NEW h, IsHeap(h), NEW f, f.before = h, NEW js, IsSeq(js), f.checkpoint = Len(js)
  PROVE  StatementSeen(h, f, js)
<1>1. \A i \in DOMAIN h : \A k \in Name : h[i].written[k] \in Nat /\ h[i].renewed[k] \in Nat
  BY CountsAre
<1>2. \A i \in DOMAIN h : \A k \in Name : NotBefore(h[i], k, h[i].written[k], h[i].renewed[k])
  BY <1>1 DEF NotBefore
<1>3. SinceStatement(h, f)
  BY <1>2 DEF SinceStatement
<1>4. Len(js) \in Nat
  BY SeqDomain
<1>5. f.checkpoint + 1 .. Len(js) = {}
  BY <1>4
<1> QED
  BY <1>3, <1>5 DEF StatementSeen

\* The paths above, when a frame is pushed for the state i.
BeginsCall(f, qh) == f.kind = "call" /\ IsCallFrame(f) /\ qh = "body"
BeginsList(f, qh, i, js) ==
  /\ f.kind = "list" /\ IsListFrame(f) /\ qh = "list"
  /\ f.todo = <<Path(i, "completed")>> /\ f.next = <<>> /\ f.checkpoint = Len(js)
Begins(f, qh, i, js) == BeginsCall(f, qh) \/ BeginsList(f, qh, i, js)
OnlyAbove(g, gs, qh, qes, n, p) ==
  /\ Above(gs, qh, qes, n) = p /\ IsSeq(Flying(gs, qh, qes))
  /\ Settled(g, Upper(gs, qh, n)) /\ Settled(g, Flying(gs, qh, qes))
  /\ Idle(gs, qh, n + 1) = IF IsListAt(gs, n + 1) THEN p ELSE <<>>
  /\ AtWork(gs, qh, n + 1) = (qh # "list")
\* Above the frames there were, there is only the path of that state.
LEMMA PushedAbove ==
  ASSUME NEW fs, NEW ph, IsStack(fs, ph), ph \in {"statement", "body"}, NEW f, NEW qh, NEW gs,
         IsPushed(fs, f, qh, gs), NEW i, i = SelfOf(fs), NEW js, Begins(f, qh, i, js), NEW qes,
         NEW n, n = Len(fs), NEW g, g[i].failure = None
  PROVE  OnlyAbove(g, gs, qh, qes, n, <<Path(i, "completed")>>)
<1> DEFINE x == Path(i, "completed")
           p == <<x>>
<1>1. n \in Nat /\ Len(gs) = n + 1 /\ gs[n + 1] = f /\ fs # <<>>
  BY DEF IsPushed, IsStack
<1>2. Len(gs) # n /\ ~ (n + 1 < Len(gs))
  BY ONLY <1>1
<1>3. AtWork(gs, qh, n + 1) = (qh # "list")
  BY <1>2 DEF AtWork
<1>4. x.state = i
  BY DEF Path
<1> HIDE DEF x
<1>40. IsSeq(p)
  BY ShortSeqs
<1>5. Settled(g, p)
  BY <1>4, SettledOne
<1>6. IsSeq(<<>>) /\ Settled(g, <<>>)
  BY ChainEmpty DEF Settled
<1>7. CASE BeginsCall(f, qh)
  <2>1. SelfOf(gs) = i
    BY <1>1, <1>7, InnerBelow DEF BeginsCall
  <2>2. Flying(gs, qh, qes) = p
    BY <1>7, <2>1 DEF BeginsCall, Flying, x
  <2>3. ~IsListAt(gs, n + 1)
    BY <1>1, <1>7 DEF BeginsCall, IsListAt
  <2>4. Idle(gs, qh, n + 1) = <<>>
    BY <2>3 DEF Idle
  <2> HIDE DEF p
  <2>5. p \o <<>> = p
    BY <1>40, ConcatIs
  <2>6. Upper(gs, qh, n) = <<>> /\ Above(gs, qh, qes, n) = p
    BY <1>2, <2>2, <2>4, <2>5 DEF Upper, Above
  <2> QED
    BY <1>3, <1>40, <1>5, <1>6, <2>2, <2>3, <2>4, <2>6 DEF OnlyAbove, p, x
<1>8. CASE BeginsList(f, qh, i, js)
  <2>1. Flying(gs, qh, qes) = <<>>
    BY <1>8 DEF BeginsList, Flying
  <2>2. IsListAt(gs, n + 1) /\ f.todo = p /\ f.next = <<>> /\ qh = "list"
    BY <1>1, <1>8 DEF BeginsList, IsListAt, x
  <2> HIDE DEF p
  <2>3. <<>> \o p = p
    BY <1>40, ConcatIs
  <2>4. Idle(gs, qh, n + 1) = p
    BY <1>1, <1>3, <2>2, <2>3 DEF Idle
  <2>5. Upper(gs, qh, n) = p /\ Above(gs, qh, qes, n) = p
    BY <1>2, <2>1, <2>3, <2>4 DEF Upper, Above
  <2> QED
    BY <1>3, <1>5, <1>6, <2>1, <2>2, <2>4, <2>5 DEF OnlyAbove, p, x
<1> QED
  BY <1>7, <1>8 DEF Begins

\* The step keeps the invariant.
LEMMA PushInv ==
  ASSUME NEW h, NEW fs, NEW ph, NEW res, NEW js, Inv(h, fs, ph, res, js),
         ph \in {"statement", "body"}, NEW i, i = SelfOf(fs),
         NEW g, Evolves(h, g, {i}), Len(g) = Len(h), g[i].failure = None,
         NEW f, NEW qh, Begins(f, qh, i, js), NEW gs, gs = Append(fs, f), NEW qes,
         Entered(g, gs, qh, qes, js, Len(fs))
  PROVE  Inv(g, gs, qh, qes, js)
<1> DEFINE n == Len(fs)
           p == <<Path(i, "completed")>>
<1>1. /\ IsHeap(h) /\ IsJournal(h, js) /\ IsStack(fs, ph) /\ Owned(h, fs, ph, res)
      /\ Checkpoints(fs, js)
  BY DEF Inv
<1>2. IsSelf(h, fs, ph, res, i)
  BY SelfState
<1>3. i \in DOMAIN h /\ Chain(h, Flying(fs, ph, res)) = {i}
  BY <1>2 DEF IsSelf
<1>4. Outcome(h, g, i, p)
  BY <1>3, EndsIs DEF Ends
<1>5. IsPushed(fs, f, qh, gs)
  BY <1>1, PushedIs DEF Begins, BeginsCall, BeginsList
<1>6. OnlyAbove(g, gs, qh, qes, n, p)
  BY <1>1, <1>5, PushedAbove
<1> HIDE DEF p
<1>7. /\ IsHeap(g) /\ Onward(h, g) /\ Len(h) <= Len(g) /\ \A j \in DOMAIN h : j # i => g[j] = h[j]
      /\ IsSeq(p) /\ Sound(g, p)
      /\ \A j \in Chain(g, p) : j = i \/ (j > Len(h) /\ CopyOf(h[i], g[j]))
  BY <1>4 DEF Outcome
<1>8. n \in Nat /\ Len(fs) = n
  BY <1>1, IdleSeq
<1>9. IsAbove(h, fs, ph, res, n)
  BY <1>1, <1>8, AboveIs
<1> HIDE DEF n
<1>10. Above(fs, ph, res, n) = Flying(fs, ph, res)
  <2>1. IsSeq(Flying(fs, ph, res))
    BY <1>9 DEF IsAbove
  <2> QED
    BY <1>8, <2>1, AboveFlat
<1>11. /\ Len(gs) = n + 1 /\ IsStack(gs, qh)
       /\ \A k \in 1 .. n : gs[k] = fs[k] /\ IsListAt(gs, k) = IsListAt(fs, k)
       /\ gs[n + 1] = f
  BY <1>5, <1>8 DEF IsPushed
<1>12. Shift(h, fs, ph, res, g, gs, qh, qes, n)
  <2>1. \A k \in 1 .. n : k < Len(gs)
    BY ONLY <1>8, <1>11
  <2>2. \A k \in 1 .. n : AtWork(fs, ph, k) /\ AtWork(gs, qh, k)
    BY <2>1 DEF AtWork
  <2>3. \A k \in 1 .. n : \A j \in Chain(h, Idle(fs, ph, k)) : g[j] = h[j]
    <3> SUFFICES ASSUME NEW k \in 1 .. n, NEW j \in Chain(h, Idle(fs, ph, k))
                 PROVE  g[j] = h[j]
      OBVIOUS
    <3>1. Disjoint(h, Above(fs, ph, res, n), Idle(fs, ph, k))
      BY <1>9 DEF IsAbove
    <3>2. j # i
      BY <1>3, <1>10, <3>1 DEF Disjoint
    <3>3. j \in DOMAIN h
      <4>1. k \in 0 .. Len(fs) /\ k # 0
        BY <1>8
      <4>2. Sound(h, Group(fs, ph, res, k)) /\ Group(fs, ph, res, k) = Idle(fs, ph, k)
        BY <1>1, <4>1 DEF Owned, Group
      <4> QED
        BY <4>2, ChainInHeap
    <3> QED
      BY <1>7, <3>2, <3>3
  <2>4. /\ IsSeq(Flying(gs, qh, qes)) /\ Sound(g, Above(gs, qh, qes, n))
        /\ Settled(g, Upper(gs, qh, n)) /\ Settled(g, Flying(gs, qh, qes))
    BY <1>6, <1>7 DEF OnlyAbove
  <2>5. \A j \in Chain(g, Above(gs, qh, qes, n)) :
          j \in Chain(h, Above(fs, ph, res, n)) \/ j > Len(h)
    BY <1>3, <1>6, <1>7, <1>10 DEF OnlyAbove
  <2> QED
    BY <1>7, <1>8, <1>11, <2>2, <2>3, <2>4, <2>5 DEF Shift
<1>13. Moves(h, fs, ph, res, g, gs, qh, qes, n)
  BY <1>3, <1>6, <1>7, <1>10 DEF Moves, OnlyAbove
<1>14. Journaled(h, fs, ph, res, js, gs, js, n)
  <2>1. IsSeq(js) /\ Len(js) \in Nat
    BY <1>1, SeqDomain DEF IsJournal
  <2>2. \A m \in 1 .. Len(js) : m <= Len(js)
    BY <2>1
  <2>3. \A k \in 1 .. n : IsListAt(fs, k) => fs[k].checkpoint <= Len(js)
    BY <1>1, <1>8 DEF Checkpoints
  <2>4. IsListAt(gs, n + 1) => gs[n + 1].checkpoint = Len(js)
    BY <1>11 DEF Begins, BeginsCall, BeginsList, IsListAt
  <2>5. Len(js) <= Len(js)
    BY <2>1
  <2> QED
    BY <2>1, <2>2, <2>3, <2>4, <2>5 DEF Journaled
<1> QED
  BY <1>7, <1>11, <1>12, <1>13, <1>14, ShiftInv DEF n

\* A call has seen the state that is evaluated, and nothing else.
LEMMA CallSeenFirst ==
  ASSUME NEW g, NEW gs, NEW qh, NEW qes, NEW n \in Nat, Len(gs) = n + 1, NEW i,
         ~IsListAt(gs, n + 1), OnlyAbove(g, gs, qh, qes, n, <<Path(i, "completed")>>),
         Chain(g, <<Path(i, "completed")>>) \subseteq {i},
         Flying(gs, qh, qes) = <<Path(i, "completed")>>, NEW js,
         \A m \in Lasting(gs[n + 1]) : gs[n + 1].saved[m].applied \in Nat,
         StateSinceCall(g[i], gs[n + 1])
  PROVE  CallSeen(g, gs, qh, qes, js, n + 1)
<1>1. n + 1 + 1 .. Len(gs) = {}
  OBVIOUS
<1>2. Live(g, gs, qh, qes, n + 1) \subseteq {i}
  <2>1. Live(g, gs, qh, qes, n + 1) = UNION {Chain(g, Group(gs, qh, qes, l)) : l \in {0}}
    BY <1>1 DEF Live
  <2>2. Group(gs, qh, qes, 0) = Flying(gs, qh, qes)
    BY DEF Group
  <2> QED
    BY <2>1, <2>2
<1>3. Undoable(gs, js, n + 1) = {}
  BY <1>1 DEF Undoable
<1> QED
  BY <1>2, <1>3 DEF CallSeen

\* A call that begins keeps the invariant.
LEMMA CallBeginsInv ==
  ASSUME IInv, phase \in {"statement", "body"}, NEW i, Working(i),
         Extends(states, states', i), NEW f, IsCallFrame(f), frames' = Append(frames, f),
         phase' = "body", UNCHANGED journal,
         \A m \in Lasting(f) : f.saved[m].applied \in Nat, StateSinceCall(states'[i], f)
  PROVE  IInv'
<1> DEFINE n == Len(frames)
           g == states'
           gs == frames'
           p == <<Path(i, "completed")>>
<1>1. IsStack(frames, phase) /\ i = SelfOf(frames) /\ IsHeap(states)
  BY DEF IInv, Inv, Working
<1>2. Evolves(states, g, {i}) /\ Len(g) = Len(states) /\ g[i].failure = None
  BY DEF Extends, Working
<1>3. BeginsCall(f, "body") /\ Begins(f, "body", i, journal)
  BY DEF BeginsCall, Begins, IsCallFrame
<1> HIDE DEF g, gs
<1>4. IsPushed(frames, f, "body", gs)
  BY <1>1, <1>3, PushedIs DEF BeginsCall, gs
<1>5. OnlyAbove(g, gs, "body", result', n, p)
  BY <1>1, <1>2, <1>3, <1>4, PushedAbove
<1>6. n \in Nat /\ Len(gs) = n + 1 /\ gs[n + 1] = f
  BY <1>4 DEF IsPushed
<1>7. ~IsListAt(gs, n + 1)
  BY <1>3, <1>6 DEF BeginsCall, IsListAt
<1>8. Flying(gs, "body", result') = p
  <2>1. frames # <<>>
    BY <1>1 DEF IsStack
  <2>2. SelfOf(gs) = i
    BY <1>1, <1>3, <1>4, <2>1, InnerBelow DEF BeginsCall
  <2> QED
    BY <2>2 DEF Flying
<1>9. Chain(g, p) \subseteq {i}
  <2> DEFINE x == Path(i, "completed")
  <2>1. x.state = i
    BY DEF Path
  <2>2. Chain(g, p) = Parts(g, x)
    BY ChainOne
  <2> HIDE DEF x
  <2> QED
    BY <1>2, <2>1, <2>2 DEF Parts
<1>10. CallSeen(g, gs, "body", result', journal, n + 1)
  BY <1>5, <1>6, <1>7, <1>8, <1>9, CallSeenFirst DEF g
<1>11. Entered(g, gs, "body", result', journal, n)
  BY <1>7, <1>10 DEF Entered, SeenAt
<1>12. Inv(g, gs, "body", result', journal)
  BY <1>1, <1>2, <1>3, <1>11, PushInv DEF IInv, gs
<1> QED
  BY <1>12 DEF IInv, g, gs

\* eval, or a handler that evaluates a script.
LEMMA EvaluateInv == ASSUME IInv, Evaluate PROVE IInv'
<1> DEFINE i == Self
           p == <<Path(i, "completed")>>
           f == NewList(states, i)
           n == Len(frames)
           gs == Append(frames, f)
<1>1. /\ phase = "body" /\ states' = states /\ journal' = journal
      /\ \/ frames' = gs /\ phase' = "list" /\ result' = result
         \/ /\ frames' = frames /\ phase' = "return"
            /\ result'.paths = <<Path(i, "incomplete")>>
  BY DEF Evaluate, ReturnWith
<1>2. Working(i)
  BY <1>1, WorkingIs
<1>3. IsSeq(p) /\ Len(p) = 1 /\ IsSeq(<<>>)
  BY ShortSeqs
<1>4. /\ DOMAIN f = {"kind", "todo", "next", "budget", "checkpoint", "previous", "before"}
      /\ f.kind = "list" /\ f.todo = p /\ f.next = <<>> /\ f.checkpoint = Len(journal)
      /\ f.previous = 0 /\ f.before = states
      /\ f.budget.bytes = SumOver(states, p) /\ f.budget.count = Len(p)
  BY DEF NewList, NewBudget
<1> HIDE DEF f, i
<1>5. IsHeap(states) /\ IsJournal(states, journal) /\ IsStack(frames, phase)
  BY DEF IInv, Inv
<1>6. IsSeq(journal) /\ Len(journal) \in Nat
  BY <1>5, SeqDomain DEF IsJournal
<1>7. IsListFrame(f)
  <2>1. \A j \in DOMAIN states : states[j].written \in Counts /\ states[j].renewed \in Counts
    BY <1>5 DEF IsHeap, IsState
  <2> HIDE DEF p
  <2>2. IsSeq(f.todo) /\ IsSeq(f.next) /\ IsSeq(f.before) /\ f.checkpoint \in Nat
    BY <1>3, <1>4, <1>5, <1>6 DEF IsHeap
  <2> QED
    BY <1>4, <2>1, <2>2 DEF IsListFrame
<1>8. Begins(f, "list", i, journal)
  BY <1>4, <1>7 DEF Begins, BeginsList
<1>9. Evolves(states, states, {i}) /\ states[i].failure = None /\ i = SelfOf(frames)
  BY <1>2, EndsSame DEF Working, Ends, Splits, Evolves
<1>10. IsPushed(frames, f, "list", gs)
  BY <1>1, <1>4, <1>5, <1>7, PushedIs
<1>11. OnlyAbove(states, gs, "list", result, n, p)
  BY <1>1, <1>5, <1>8, <1>9, <1>10, PushedAbove
<1> HIDE DEF gs
<1>12. n \in Nat /\ Len(gs) = n + 1 /\ gs[n + 1] = f /\ IsListAt(gs, n + 1)
  BY <1>4, <1>10 DEF IsPushed, IsListAt
<1>13. BudgetAt(states, gs, "list", n + 1)
  <2>1. Idle(gs, "list", n + 1) = p /\ ~AtWork(gs, "list", n + 1)
    BY <1>11, <1>12 DEF OnlyAbove
  <2>2. InHeap(states, p)
    <3> DEFINE x == Path(i, "completed")
    <3>1. x.state = i
      BY DEF Path
    <3> HIDE DEF x
    <3>2. IsSeq(<<x>>) /\ <<x>>[1] = x /\ DOMAIN <<x>> = {1}
      BY ChainOne
    <3>3. i \in DOMAIN states
      BY <1>2 DEF Working
    <3>4. InHeap(states, <<x>>)
      BY <3>1, <3>2, <3>3 DEF InHeap
    <3> QED
      BY <3>4 DEF x
  <2> HIDE DEF p
  <2>3. SumOver(states, p) \in Int
    BY <1>5, <2>2, SumIs DEF PathSums
  <2>4. f.budget.bytes = SumOver(states, p) + 0 /\ f.budget.count = Len(p) + 0 /\ f.previous \in Int
    BY <1>3, <1>4, <2>3 DEF p
  <2> QED
    BY <1>12, <2>1, <2>4 DEF BudgetAt
<1>14. StatementSeen(states, f, journal)
  BY <1>4, <1>5, <1>6, SeenFirst
<1>15. Entered(states, gs, "list", result, journal, n)
  BY <1>12, <1>13, <1>14 DEF Entered, SeenAt
<1>16. Inv(states, gs, "list", result, journal)
  BY <1>1, <1>8, <1>9, <1>15, PushInv DEF IInv, gs
<1>17. CASE frames' = gs /\ phase' = "list" /\ result' = result
  BY <1>1, <1>16, <1>17 DEF IInv
<1>18. CASE /\ frames' = frames /\ phase' = "return"
            /\ result'.paths = <<Path(i, "incomplete")>>
  <2>1. Ends(states, states', i)
    BY <1>1, <1>2, EndsSame
  <2> QED
    BY <1>1, <1>2, <1>18, <2>1, WorksInv DEF Recorded
<1> QED
  BY <1>1, <1>17, <1>18

\* A frame of a call.
LEMMA CallFrameIs ==
  ASSUME NEW s, IsState(s), NEW saved, IsSaved(saved), NEW always, NEW env
  PROVE  IsCallFrame(CallFrame(saved, always, env, s))
  BY DEF IsState, IsCallFrame, CallFrame

\* x=1 command.
LEMMA CallStatementInv ==
  ASSUME IInv, NEW list \in Lists, NEW always \in BOOLEAN, CallStatement(list, always)
  PROVE  IInv'
<1> DEFINE i == Self
           names == Names(list)
           saved == Save(states[i], names)
           r == Apply(states, i, list, TRUE)
<1>1. phase = "statement" /\ journal' = journal
  BY DEF CallStatement
<1>2. Working(i)
  BY <1>1, WorkingIs
<1>3. CASE r.error # "none"
  <2>1. /\ states' = Restore(r.h, <<Path(i, "completed")>>, saved, FALSE)
        /\ ReturnWith(<<Path(i, "incomplete")>>, FALSE) /\ frames' = frames
    BY <1>3 DEF CallStatement
  <2> QED
    BY <1>1, <1>3, <2>1, CallRefusedInv
<1>4. CASE r.error = "none"
  <2> DEFINE applied == Applied(saved, r.h[i])
             f == CallFrame(applied, always, FALSE, states'[i])
  <2>1. /\ states' = [r.h EXCEPT ![i].renewed = Count(@, names)]
        /\ frames' = Append(frames, f) /\ phase' = "body"
    <3>1. PICK sv \in {saved}, q \in {r} :
            IF q.error # "none"
            THEN /\ states' = Restore(q.h, <<Path(i, "completed")>>, sv, FALSE)
                 /\ ReturnWith(<<Path(i, "incomplete")>>, FALSE)
                 /\ UNCHANGED frames
            ELSE /\ states' = [q.h EXCEPT ![i].renewed = Count(@, names)]
                 /\ frames' = Append(frames, CallFrame(Applied(sv, q.h[i]), always,
                                                       FALSE, states'[i]))
                 /\ phase' = "body" /\ UNCHANGED result
      BY DEF CallStatement
    <3>2. sv = saved /\ q = r
      OBVIOUS
    <3> HIDE DEF saved, r
    <3> QED
      BY <1>4, <3>1, <3>2, Zenon
  <2> HIDE DEF i
  <2>2. Applies(states, i, list, r)
    BY <1>2, ApplyIs DEF Working
  <2> HIDE DEF r
  <2>3. PICK a, b : r.h = SetTo(states, i, a, b) /\ Rewritten(states, i, a, b, names)
    BY <1>4, <2>2 DEF Applies
  <2>4. /\ Extends(states, states', i)
        /\ states'[i].vars = a /\ r.h[i].vars = a
    <3> HIDE DEF names
    <3> DEFINE h == r.h
    <3>1. states' = [h EXCEPT ![i].renewed = Count(@, names)]
      BY <2>1, Zenon
    <3>2. h = SetTo(states, i, a, b) /\ h[i] = r.h[i]
      BY <2>3
    <3>3. IsHeap(states) /\ i \in DOMAIN states /\ Rewritten(states, i, a, b, names)
      BY <1>2, <2>3 DEF Working
    <3> HIDE DEF h
    <3>4. Extends(states, states', i)
      BY ONLY <3>1, <3>2, <3>3, Renews
    <3>5. states'[i].vars = a /\ SetTo(states, i, a, b)[i].vars = a
      BY ONLY <3>1, <3>2, <3>3, <3>4, Renews
    <3> QED
      BY <3>2, <3>4, <3>5
  <2>5. IsState(states'[i])
    <3>1. IsHeap(states') /\ Len(states') = Len(states)
      BY <2>4 DEF Extends, Evolves
    <3>2. i \in DOMAIN states'
      BY <1>2, <3>1, SeqDomain DEF Working, IsHeap
    <3> QED
      BY <3>1, <3>2 DEF IsHeap
  <2>6. names \subseteq Name /\ IsFiniteSet(names)
    BY NamesAre
  <2> HIDE DEF names
  <2>7. IsSaved(applied) /\ DOMAIN applied = names
    BY <1>2, <2>6, SavedIs DEF Working
  <2>8. \A m \in names : applied[m].applied = Version(a, m)
    BY <2>4, SavedIs, <1>2, <2>6 DEF Applied, Save
  <2>9. \A m \in names : Version(a, m) \in Nat /\ a.revision >= Version(a, m)
    <3>1. \A m \in names : Version(a, m) \in states[i].vars.revision + 1 .. a.revision
      BY <2>3 DEF Rewritten, Written
    <3>2. states[i].vars.revision \in Nat /\ a.revision \in Nat
      BY <1>2, <2>3, VersionsAre DEF Working, Ghosted, Rewritten, Written
    <3> QED
      BY <3>1, <3>2
  <2> HIDE DEF applied
  <2>10. /\ IsCallFrame(f) /\ f.saved = applied
         /\ f.written = states'[i].written /\ f.renewed = states'[i].renewed
    BY <2>5, <2>7, CallFrameIs DEF CallFrame
  <2> HIDE DEF f
  <2>11. Lasting(f) \subseteq names
    BY <2>7, <2>10 DEF Lasting
  <2>12. \A m \in Lasting(f) : f.saved[m].applied \in Nat
    BY <2>8, <2>9, <2>10, <2>11
  <2>13. StateSinceCall(states'[i], f)
    <3> SUFFICES ASSUME NEW m \in Lasting(f)
                 PROVE  /\ NotBefore(states'[i], m, f.written[m], f.renewed[m])
                        /\ states'[i].vars.revision >= f.saved[m].applied
                        /\ Version(states'[i].vars, m) = f.saved[m].applied
      BY <2>10 DEF StateSinceCall
    <3>1. m \in names /\ m \in Name
      BY <2>6, <2>11
    <3>2. states'[i].written[m] \in Nat /\ states'[i].renewed[m] \in Nat
      BY <2>5, <3>1 DEF IsState, Counts
    <3>3. NotBefore(states'[i], m, f.written[m], f.renewed[m])
      BY <2>10, <3>2 DEF NotBefore
    <3> QED
      BY <2>4, <2>8, <2>9, <2>10, <3>1, <3>3
  <2> QED
    BY <1>1, <1>2, <2>1, <2>4, <2>10, <2>12, <2>13, CallBeginsInv
<1> QED
  BY <1>3, <1>4

\* env.
LEMMA EnvironmentInv ==
  ASSUME IInv, NEW n \in Targets, NEW text \in Texts, NEW clear \in BOOLEAN,
         Environment(n, text, clear)
  PROVE  IInv'
<1> DEFINE i == Self
           s == states[i]
           cleared == {m \in DOMAIN s.vars.data : clear /\ Lookup(s.vars, m).exported}
           v == [Scalar(text) EXCEPT !.exported = TRUE]
           Op(vs) == Put(Cleared(vs, cleared), n, v, FALSE, Dense)
           names == cleared \cup {n}
           saved == Save(s, names)
           f == CallFrame(saved, FALSE, TRUE, states'[i])
           h == Change(states, i, Op)
           a == Op(s.vars)
           b == Op(s.truth)
<1>1. phase = "body" /\ phase' = phase /\ journal' = journal
  BY DEF Environment
<1>2. states' = [h EXCEPT ![i].renewed = Count(@, names)] /\ frames' = Append(frames, f)
  BY Zenon DEF Environment, Cleared, Change
<1>3. Working(i)
  BY <1>1, WorkingIs
<1> HIDE DEF i
<1>4. h = SetTo(states, i, a, b)
  BY DEF Change, SetTo
<1>5. n \in Name /\ IsSeq(text)
  BY AssignmentsAssumption
<1>6. IsVars(s.vars) /\ Owners(s.vars) \subseteq Name /\ Ghosted(s.vars, s.truth)
  BY <1>3 DEF Working, IsState
<1>7. cleared \subseteq Name /\ IsFiniteSet(cleared)
  BY <1>6, ExportedAre
<1>8. names \subseteq Name /\ IsFiniteSet(names)
  BY <1>5, <1>7, FS_Union, FS_Singleton
<1>9. IsValue(v)
  BY <1>5, ScalarIs, ValueIs
<1> HIDE DEF v
<1>10. Rewritten(states, i, a, b, names)
  <2> DEFINE x == Cleared(s.vars, cleared)
             y == Cleared(s.truth, cleared)
  <2> HIDE DEF cleared
  <2>1. Ghosted(x, y) /\ Written(s.vars, x, cleared)
    BY <1>6, <1>7, ClearedIs
  <2> HIDE DEF x, y
  <2>2. Ghosted(Put(x, n, v, FALSE, Dense), Put(y, n, v, FALSE, Dense))
    BY <1>5, <1>9, <2>1, PutGhosted
  <2>3. Sets(Put(x, n, v, FALSE, Dense), x, n, NewEntry(v, FALSE, Dense))
    BY PutSets
  <2>4. x.revision \in Nat /\ s.vars.revision \in Nat
    BY <1>6, <2>1, VersionsAre DEF Written
  <2>5. Written(x, Put(x, n, v, FALSE, Dense), {n})
    BY <2>3, <2>4, WrittenOnce
  <2>6. Written(s.vars, Put(x, n, v, FALSE, Dense), cleared \cup {n})
    BY <2>1, <2>4, <2>5, WrittenTwice
  <2> QED
    BY <2>2, <2>6 DEF Rewritten, x, y
<1> HIDE DEF a, b, h, names
<1>11. Extends(states, states', i)
  BY <1>2, <1>3, <1>4, <1>10, Renews DEF Working
<1>12. IsState(states'[i])
  <2>1. IsHeap(states') /\ Len(states') = Len(states)
    BY <1>11 DEF Extends, Evolves
  <2>2. i \in DOMAIN states'
    BY <1>3, <2>1, SeqDomain DEF Working, IsHeap
  <2> QED
    BY <2>1, <2>2 DEF IsHeap
<1>13. IsSaved(saved) /\ DOMAIN saved = names
  BY <1>3, <1>8, SavedIs DEF Working
<1>14. \A m \in names : saved[m].applied = 0
  BY DEF Save
<1> HIDE DEF saved
<1>15. IsCallFrame(f) /\ f.saved = saved
  BY <1>12, <1>13, CallFrameIs DEF CallFrame
<1> HIDE DEF f
<1>16. Lasting(f) = {}
  BY <1>13, <1>14, <1>15 DEF Lasting
<1>17. StateSinceCall(states'[i], f)
  BY <1>16 DEF StateSinceCall
<1> QED
  BY <1>1, <1>2, <1>3, <1>11, <1>15, <1>16, <1>17, CallBeginsInv

\* The states of the paths that a call hands back have ended their temporary
\* assignments; the call is left.
LEMMA CallEndsInv ==
  ASSUME NEW h, NEW fs, NEW res, NEW js, Inv(h, fs, "return", res, js), fs # <<>>,
         ~IsListAt(fs, Len(fs)), NEW saved, NEW always,
         NEW g, EndedOn(h, res.paths, saved, always, g), NEW gs, gs = Front(fs)
  PROVE  Inv(g, gs, "return", res, js)
<1> DEFINE n == Len(fs) - 1
           p == res.paths
<1>1. /\ IsHeap(h) /\ IsJournal(h, js) /\ IsStack(fs, "return") /\ Owned(h, fs, "return", res)
  BY DEF Inv
<1>2. /\ Evolves(h, g, Chain(h, p)) /\ Len(g) = Len(h)
      /\ \A i \in DOMAIN h : g[i].failure = h[i].failure
  BY DEF EndedOn
<1>3. IsBelow(fs, n, gs)
  BY <1>1, BelowIs
<1>4. n \in Nat /\ Len(fs) = n + 1 /\ Len(gs) = n /\ IsStack(gs, "return")
  BY <1>3 DEF IsBelow
<1>5. Flying(fs, "return", res) = p /\ Flying(gs, "return", res) = p
  BY DEF Flying
<1> HIDE DEF n
<1>6. IsAbove(h, fs, "return", res, n)
  BY <1>1, <1>4, AboveIs
<1>7. IsSeq(p)
  BY <1>5, <1>6 DEF IsAbove
<1>8. Upper(fs, "return", n) = <<>>
  BY <1>4 DEF Upper, Idle
<1> HIDE DEF p
<1>9. Above(fs, "return", res, n) = p
  BY <1>5, <1>7, <1>8, ConcatEmptySeq DEF Above, IsSeq
<1>10. Above(gs, "return", res, n) = p /\ Settled(g, Upper(gs, "return", n))
  BY <1>4, <1>5, <1>7, AboveFlat
<1>11. /\ Sound(h, p) /\ \A k \in 1 .. n : Disjoint(h, p, Idle(fs, "return", k))
  BY <1>6, <1>9 DEF IsAbove
<1>12. Chain(h, p) \subseteq DOMAIN h /\ InHeap(h, p)
  BY <1>11, ChainInHeap, SoundInHeap
<1>13. DOMAIN h = 1 .. Len(h) /\ DOMAIN g = 1 .. Len(g) /\ Len(h) \in Nat /\ IsHeap(g)
  BY <1>1, <1>2, SeqDomain DEF IsHeap, Evolves
<1>14. SameFailures(h, g, Chain(h, p))
  BY <1>2, <1>12, <1>13 DEF SameFailures
<1>15. Chain(g, p) = Chain(h, p) /\ Sound(g, p)
  BY <1>1, <1>7, <1>11, <1>12, <1>14, SoundSame DEF InHeap
<1>16. \A k \in 1 .. n : gs[k] = fs[k] /\ AtWork(fs, "return", k) /\ AtWork(gs, "return", k)
  BY <1>3 DEF IsBelow, AtWork
<1>17. Shift(h, fs, "return", res, g, gs, "return", res, n)
  <2>1. \A k \in 1 .. n : \A j \in Chain(h, Idle(fs, "return", k)) : g[j] = h[j]
    <3> SUFFICES ASSUME NEW k \in 1 .. n, NEW j \in Chain(h, Idle(fs, "return", k))
                 PROVE  g[j] = h[j]
      OBVIOUS
    <3>1. k \in 0 .. Len(fs) /\ k # 0
      BY <1>4
    <3>2. Sound(h, Group(fs, "return", res, k)) /\ Group(fs, "return", res, k) = Idle(fs, "return", k)
      BY <1>1, <3>1 DEF Owned, Group
    <3>3. j \in DOMAIN h
      BY <3>2, ChainInHeap
    <3>4. j \notin Chain(h, p)
      BY <1>11 DEF Disjoint
    <3> QED
      BY <1>2, <3>3, <3>4 DEF Evolves
  <2> QED
    BY <1>2, <1>4, <1>5, <1>7, <1>9, <1>10, <1>13, <1>15, <1>16, <2>1 DEF Shift
<1>18. Moves(h, fs, "return", res, g, gs, "return", res, n)
  <2>1. Onward(h, g)
    BY <1>2, <1>13 DEF Onward, Evolves
  <2> QED
    BY <1>9, <1>10, <1>15, <2>1 DEF Moves
<1>19. Journaled(h, fs, "return", res, js, gs, js, n)
  <2>1. Follows(fs, "return", gs, "return", n)
    BY <1>4, <1>16 DEF Follows
  <2>2. IsSeq(js)
    BY <1>1 DEF IsJournal
  <2> QED
    BY <1>4, <2>1, <2>2, ShorterSame, CutJournal DEF SameRecords
<1>20. Entered(g, gs, "return", res, js, n)
  BY <1>4 DEF Entered
<1> QED
  BY <1>4, <1>13, <1>17, <1>18, <1>19, <1>20, ShiftInv

\* What a call that ends has to do with the states, and what was seen of them.
CallOver ==
  /\ phase = "return" /\ phase' = phase /\ frames # <<>> /\ ~IsListAt(frames, Len(frames))
  /\ frames' = Front(frames) /\ result' = result /\ journal' = journal
  /\ IsCallFrame(Top) /\ Top = frames[Len(frames)]
  /\ EndedOn(states, result.paths, Top.saved, Top.always, states')
  /\ \A i \in Chain(states, result.paths) : i \in DOMAIN states /\ StateSinceCall(states[i], Top)

\* A call that is over.
LEMMA CallOverIs == ASSUME IInv, EndCall PROVE CallOver
<1>1. IInv /\ Inv(states, frames, phase, result, journal)
  BY DEF IInv
<1>2. /\ phase = "return" /\ phase' = phase /\ frames # <<>> /\ Top.kind = "call"
      /\ frames' = Front(frames) /\ result' = result /\ journal' = journal
      /\ states' = Restore(states, result.paths, Top.saved, Top.always)
      /\ Top = frames[Len(frames)]
  BY DEF EndCall, Below, Top
<1>3. /\ IsHeap(states) /\ IsStack(frames, phase)
      /\ Owned(states, frames, phase, result)
      /\ Seen(states, frames, phase, result, journal)
  BY <1>1 DEF Inv
<1>4. IsSeq(frames) /\ Len(frames) \in Nat /\ DOMAIN frames = 1 .. Len(frames) /\ Len(frames) # 0
  BY <1>2, <1>3, SeqDomain, EmptySeq DEF IsStack, IsSeq
<1>5. Len(frames) \in DOMAIN frames /\ Len(frames) \in 1 .. Len(frames)
  BY <1>4
<1>6. ~IsListAt(frames, Len(frames)) /\ IsCallFrame(Top)
  BY <1>2, <1>3, <1>5 DEF IsStack, IsListAt
<1>7. EndedOn(states, result.paths, Top.saved, Top.always, states')
  BY <1>2, <1>3, <1>6, Restores DEF IsCallFrame
<1>8. CallSeen(states, frames, phase, result, journal, Len(frames))
  BY <1>3, <1>5, <1>6 DEF Seen, SeenAt
<1>9. Group(frames, phase, result, 0) = result.paths
  BY <1>2 DEF Group, Flying
<1>10. Chain(states, result.paths) \subseteq Live(states, frames, phase, result, Len(frames))
  <2>1. 0 \in {0} \cup (Len(frames) + 1 .. Len(frames))
    OBVIOUS
  <2> QED
    BY <1>9, <2>1 DEF Live
<1>11. Sound(states, result.paths)
  BY <1>3, <1>4, <1>9 DEF Owned
<1>12. Chain(states, result.paths) \subseteq DOMAIN states
  BY <1>11, ChainInHeap
<1>13. \A i \in Chain(states, result.paths) : StateSinceCall(states[i], Top)
  BY <1>2, <1>8, <1>10 DEF CallSeen
<1> QED
  BY <1>2, <1>6, <1>7, <1>12, <1>13 DEF CallOver

\* A call that is over keeps the invariant.
LEMMA EndCallInv == ASSUME IInv, EndCall PROVE IInv'
<1>1. CallOver
  BY CallOverIs
<1>2. Inv(states, frames, "return", result, journal)
  BY <1>1 DEF IInv, CallOver
<1>3. Inv(states', frames', "return", result, journal)
  BY <1>1, <1>2, CallEndsInv DEF CallOver
<1> QED
  BY <1>1, <1>3 DEF IInv, CallOver

\* What was seen of the states still holds after records are undone that were
\* seen in the same way.
LEMMA RolledSinceStatement ==
  ASSUME NEW h, IsHeap(h), NEW g, NEW S, Rolled(h, g, S), NEW f, IsListFrame(f),
         SinceStatement(h, f), \A r \in S : RecordSinceStatement(h, f, r)
  PROVE  SinceStatement(g, f)
<1> SUFFICES ASSUME NEW i \in DOMAIN f.before
             PROVE  /\ i \in DOMAIN g
                    /\ \A n \in Name :
                         /\ NotBefore(g[i], n, f.before[i].written[n], f.before[i].renewed[n])
                         /\ Untouched(g[i], n, f.before[i].written, f.before[i].renewed) =>
                              /\ Entry(g[i].vars, n) = Entry(f.before[i].vars, n)
                              /\ Version(g[i].vars, n) = Version(f.before[i].vars, n)
  BY DEF SinceStatement
<1> DEFINE b == f.before[i]
<1>1. i \in DOMAIN h /\ DOMAIN g = DOMAIN h
  BY DEF SinceStatement, Rolled
<1> SUFFICES ASSUME NEW n \in Name
             PROVE  /\ NotBefore(g[i], n, b.written[n], b.renewed[n])
                    /\ Untouched(g[i], n, b.written, b.renewed) =>
                         /\ Entry(g[i].vars, n) = Entry(b.vars, n)
                         /\ Version(g[i].vars, n) = Version(b.vars, n)
  BY <1>1
<1>2. /\ NotBefore(h[i], n, b.written[n], b.renewed[n])
      /\ Untouched(h[i], n, b.written, b.renewed) =>
           /\ Entry(h[i].vars, n) = Entry(b.vars, n)
           /\ Version(h[i].vars, n) = Version(b.vars, n)
  BY <1>1 DEF SinceStatement
<1>3. g[i].renewed = h[i].renewed
  BY <1>1 DEF Rolled
<1>4. CASE NotUndone(h[i], g[i], n)
  <2> HIDE DEF b
  <2> QED
    BY <1>2, <1>3, <1>4 DEF NotUndone, NotBefore, Untouched
<1>5. CASE \E r \in S : r.state = i /\ r.name = n /\ UndoneTo(g[i], n, r)
  <2>1. PICK r \in S : r.state = i /\ r.name = n /\ UndoneTo(g[i], n, r)
    BY <1>5
  <2>2. RecordSinceStatement(h, f, r)
    OBVIOUS
  <2>3. /\ r.written >= b.written[n]
        /\ r.written = b.written[n] /\ h[i].renewed[n] = b.renewed[n] =>
             r.entry = Entry(b.vars, n) /\ r.version = Version(b.vars, n)
    BY <2>1, <2>2 DEF RecordSinceStatement
  <2> HIDE DEF b
  <2> QED
    BY <1>2, <1>3, <2>1, <2>3 DEF UndoneTo, NotBefore, Untouched
<1> QED
  BY <1>1, <1>4, <1>5 DEF Rolled

\* Records that stay are as they were, too.
LEMMA RolledRecords ==
  ASSUME NEW h, NEW g, NEW S, Rolled(h, g, S), NEW f, NEW r, r.state \in DOMAIN h
  PROVE  /\ RecordSinceStatement(h, f, r) => RecordSinceStatement(g, f, r)
         /\ RecordSinceCall(h, f, r) => RecordSinceCall(g, f, r)
<1>1. g[r.state].renewed = h[r.state].renewed
  BY DEF Rolled
<1> QED
  BY <1>1 DEF RecordSinceStatement, RecordSinceCall

\* What a call has seen of a state.
LEMMA RolledSinceCall ==
  ASSUME NEW h, IsHeap(h), NEW g, NEW S, Rolled(h, g, S), NEW f, Versioned(f),
         NEW i \in DOMAIN h, StateSinceCall(h[i], f), \A r \in S : RecordSinceCall(h, f, r)
  PROVE  StateSinceCall(g[i], f)
<1> DEFINE s == h[i]
           u == g[i]
<1>1. /\ u.renewed = s.renewed /\ u.vars.revision >= s.vars.revision
      /\ s.vars.revision \in Nat /\ u.vars.revision \in Nat
  <2>1. i \in DOMAIN g /\ IsHeap(g)
    BY DEF Rolled
  <2>2. s.vars.revision \in Nat /\ u.vars.revision \in Nat
    BY <2>1 DEF IsHeap, IsState, IsVars
  <2> QED
    BY <2>2 DEF Rolled
<1> SUFFICES ASSUME NEW n \in Lasting(f)
             PROVE  /\ NotBefore(u, n, f.written[n], f.renewed[n])
                    /\ u.vars.revision >= f.saved[n].applied
                    /\ u.renewed[n] = f.renewed[n] =>
                         (u.written[n] = f.written[n] <=> Version(u.vars, n) = f.saved[n].applied)
  BY DEF StateSinceCall
<1>2. /\ NotBefore(s, n, f.written[n], f.renewed[n])
      /\ s.vars.revision >= f.saved[n].applied
      /\ s.renewed[n] = f.renewed[n] =>
           (s.written[n] = f.written[n] <=> Version(s.vars, n) = f.saved[n].applied)
  BY DEF StateSinceCall
<1>3. n \in Name /\ f.saved[n].applied \in Nat
  BY DEF Versioned
<1>4. u.vars.revision >= f.saved[n].applied
  BY <1>1, <1>2, <1>3
<1>5. CASE NotUndone(s, u, n)
  <2> HIDE DEF s, u
  <2> QED
    BY <1>1, <1>2, <1>4, <1>5 DEF NotUndone, NotBefore
<1>6. CASE \E r \in S : r.state = i /\ r.name = n /\ UndoneTo(u, n, r)
  <2>1. PICK r \in S : r.state = i /\ r.name = n /\ UndoneTo(u, n, r)
    BY <1>6
  <2>2. /\ r.written >= f.written[n] /\ s.renewed[n] >= f.renewed[n]
        /\ s.renewed[n] = f.renewed[n] =>
             (r.written = f.written[n] <=> r.version = f.saved[n].applied)
    BY <2>1 DEF RecordSinceCall
  <2> HIDE DEF s, u
  <2> QED
    BY <1>1, <1>4, <2>1, <2>2 DEF UndoneTo, NotBefore
<1> QED
  BY <1>3, <1>5, <1>6 DEF Rolled

\* The innermost list is left, and its records are undone.
RolledBack(h, fs, res, js, g, gs, qes, ks, n) ==
  /\ fs # <<>> /\ IsListAt(fs, Len(fs)) /\ n = Len(fs) - 1 /\ gs = Front(fs)
  /\ Rolled(h, g, Since(js, fs[n + 1].checkpoint))
  /\ Sound(h, qes.paths) /\ Chain(h, qes.paths) \subseteq Chain(h, Above(fs, "return", res, n))
  /\ Shorter(js, ks) /\ (n = 0 \/ Len(ks) = fs[n + 1].checkpoint)

\* What the frames below hold is left alone.
LEMMA RollbackShifts ==
  ASSUME NEW h, NEW fs, NEW res, NEW js, Inv(h, fs, "return", res, js),
         NEW g, NEW gs, NEW qes, NEW ks, NEW n, RolledBack(h, fs, res, js, g, gs, qes, ks, n)
  PROVE  /\ Shift(h, fs, "return", res, g, gs, "return", qes, n)
         /\ Journaled(h, fs, "return", res, js, gs, ks, n)
         /\ Len(gs) = n /\ IsStack(gs, "return")
         /\ Chain(g, Above(gs, "return", qes, n)) \subseteq Chain(h, Above(fs, "return", res, n))
<1> DEFINE S == Since(js, fs[n + 1].checkpoint)
           p == qes.paths
<1>1. /\ IsHeap(h) /\ IsStack(fs, "return") /\ Owned(h, fs, "return", res)
      /\ RecordsApart(h, fs, "return", js)
  BY DEF Inv
<1>2. /\ IsListAt(fs, n + 1) /\ gs = Front(fs) /\ fs # <<>> /\ n = Len(fs) - 1
      /\ Sound(h, p) /\ Chain(h, p) \subseteq Chain(h, Above(fs, "return", res, n))
      /\ Shorter(js, ks) /\ (n = 0 \/ Len(ks) = fs[n + 1].checkpoint)
  <2>1. Len(fs) = n + 1
    BY <1>1, BelowIs DEF RolledBack, IsBelow
  <2> QED
    BY <2>1 DEF RolledBack
<1>3. Rolled(h, g, S)
  BY DEF RolledBack
<1>4. IsBelow(fs, n, gs)
  BY <1>1, <1>2, BelowIs
<1>5. n \in Nat /\ Len(fs) = n + 1 /\ Len(gs) = n /\ IsStack(gs, "return")
  BY <1>4 DEF IsBelow
<1>6. Flying(gs, "return", qes) = p
  BY DEF Flying
<1>7. IsSeq(p) /\ InHeap(h, p) /\ Chain(h, p) \subseteq DOMAIN h
  BY <1>2, ChainInHeap, SoundInHeap
<1> HIDE DEF p, S
<1>8. Above(gs, "return", qes, n) = p /\ Settled(g, Upper(gs, "return", n))
  BY <1>5, <1>6, <1>7, AboveFlat
<1>9. SameFailures(h, g, Chain(h, p))
  BY <1>3, <1>7 DEF SameFailures, Rolled
<1>10. Chain(g, p) = Chain(h, p) /\ Sound(g, p)
  BY <1>1, <1>2, <1>7, <1>9, SoundSame DEF InHeap
<1>11. \A k \in 1 .. n : gs[k] = fs[k] /\ AtWork(fs, "return", k) /\ AtWork(gs, "return", k)
  BY <1>4 DEF IsBelow, AtWork
<1>12. Shift(h, fs, "return", res, g, gs, "return", qes, n)
  <2>1. \A k \in 1 .. n : \A j \in Chain(h, Idle(fs, "return", k)) : g[j] = h[j]
    <3> SUFFICES ASSUME NEW k \in 1 .. n, NEW j \in Chain(h, Idle(fs, "return", k))
                 PROVE  g[j] = h[j]
      OBVIOUS
    <3>1. k \in 0 .. Len(fs) /\ k # 0 /\ k \in 1 .. Len(fs) /\ n + 1 \in 1 .. Len(fs) /\ k < n + 1
      BY <1>5
    <3>2. Sound(h, Group(fs, "return", res, k)) /\ Group(fs, "return", res, k) = Idle(fs, "return", k)
      BY <1>1, <3>1 DEF Owned, Group
    <3>3. j \in DOMAIN h
      BY <3>2, ChainInHeap
    <3>4. \A m \in fs[n + 1].checkpoint + 1 .. Len(js) :
            js[m].state \notin Chain(h, Idle(fs, "return", k))
      BY <1>1, <1>2, <3>1 DEF RecordsApart
    <3>5. \A r \in S : r.state # j
      BY <3>4 DEF S, Since
    <3> QED
      BY <1>3, <3>3, <3>5 DEF Rolled
  <2>2. Len(h) <= Len(g) /\ Len(h) \in Nat
    BY <1>1, <1>3, SeqDomain DEF Rolled, IsHeap
  <2> QED
    BY <1>2, <1>5, <1>6, <1>7, <1>8, <1>10, <1>11, <2>1, <2>2 DEF Shift
<1>13. Journaled(h, fs, "return", res, js, gs, ks, n)
  <2>1. Follows(fs, "return", gs, "return", n)
    BY <1>5, <1>11 DEF Follows
  <2> QED
    BY <1>2, <1>5, <2>1, CutJournal DEF SameRecords
<1> QED
  BY <1>2, <1>5, <1>8, <1>10, <1>12, <1>13

\* What the frames below have seen still holds.
LEMMA RollbackSeen ==
  ASSUME NEW h, NEW fs, NEW res, NEW js, Inv(h, fs, "return", res, js),
         NEW g, NEW gs, NEW qes, NEW ks, NEW n, RolledBack(h, fs, res, js, g, gs, qes, ks, n),
         Shift(h, fs, "return", res, g, gs, "return", qes, n), IsStack(gs, "return"),
         Owned(g, gs, "return", qes), Len(gs) = n,
         Chain(g, Above(gs, "return", qes, n)) \subseteq Chain(h, Above(fs, "return", res, n)),
         NEW k \in 1 .. n
  PROVE  SeenAt(g, gs, "return", qes, ks, k)
<1> DEFINE c == fs[n + 1].checkpoint
           S == Since(js, c)
           f == fs[k]
<1>1. /\ IsHeap(h) /\ IsJournal(h, js) /\ IsStack(fs, "return") /\ Owned(h, fs, "return", res)
      /\ Checkpoints(fs, js) /\ Seen(h, fs, "return", res, js)
  BY DEF Inv
<1>2. Rolled(h, g, S) /\ Shorter(js, ks)
  BY DEF RolledBack
<1>3. /\ n \in Nat /\ Len(fs) = n + 1 /\ IsListAt(fs, n + 1)
  <2>1. IsBelow(fs, n, gs)
    BY <1>1, BelowIs DEF RolledBack
  <2> QED
    BY <2>1 DEF RolledBack, IsBelow
<1>4. /\ \A l \in 1 .. n : gs[l] = fs[l] /\ IsListAt(gs, l) = IsListAt(fs, l)
      /\ \A l \in 1 .. n : \A i \in Chain(h, Idle(fs, "return", l)) : g[i] = h[i]
  BY DEF Shift, IsListAt
<1>5. /\ k \in 1 .. Len(fs) /\ n + 1 \in 1 .. Len(fs) /\ k < n + 1 /\ DOMAIN fs = 1 .. Len(fs)
      /\ n + 1 \in k + 1 .. Len(fs)
  BY <1>1, <1>3, IdleSeq
<1>6. c \in Nat
  BY <1>1, <1>3, <1>5 DEF IsStack, IsListFrame
<1>7. /\ Len(js) \in Nat /\ Len(ks) \in Nat /\ DOMAIN js = 1 .. Len(js)
      /\ Len(ks) <= Len(js) /\ \A m \in 1 .. Len(ks) : ks[m] = js[m]
  BY <1>1, <1>2, SeqDomain DEF IsJournal, Shorter
<1>8. SeenAt(h, fs, "return", res, js, k)
  BY <1>1, <1>5 DEF Seen
<1>9. \A m \in 1 .. Len(js) : js[m].state \in DOMAIN h
  BY <1>1, <1>7 DEF IsJournal, IsRecord
<1> HIDE DEF c, S, f
<1>10. CASE IsListAt(fs, k)
  <2>1. IsListFrame(f) /\ f.checkpoint \in Nat /\ f.checkpoint <= c
    BY <1>1, <1>3, <1>5, <1>10 DEF IsStack, IsListFrame, Checkpoints, c, f
  <2>2. StatementSeen(h, f, js)
    BY <1>8, <1>10 DEF SeenAt, f
  <2>3. \A m \in f.checkpoint + 1 .. Len(js) : RecordSinceStatement(h, f, js[m])
    BY <2>2 DEF StatementSeen
  <2>4. \A r \in S : RecordSinceStatement(h, f, r)
    <3>1. \A m \in c + 1 .. Len(js) : m \in f.checkpoint + 1 .. Len(js)
      BY <1>6, <1>7, <2>1
    <3> QED
      BY <2>3, <3>1 DEF S, Since
  <2>5. SinceStatement(g, f)
    BY <1>1, <1>2, <2>1, <2>2, <2>4, RolledSinceStatement DEF StatementSeen
  <2>6. \A m \in f.checkpoint + 1 .. Len(ks) : RecordSinceStatement(g, f, ks[m])
    <3> SUFFICES ASSUME NEW m \in f.checkpoint + 1 .. Len(ks)
                 PROVE  RecordSinceStatement(g, f, ks[m])
      OBVIOUS
    <3>1. m \in f.checkpoint + 1 .. Len(js) /\ m \in 1 .. Len(ks) /\ m \in 1 .. Len(js)
      BY <1>7, <2>1
    <3>2. RecordSinceStatement(h, f, js[m]) /\ ks[m] = js[m] /\ js[m].state \in DOMAIN h
      BY <1>7, <1>9, <2>3, <3>1
    <3> QED
      BY <1>2, <3>2, RolledRecords
  <2> QED
    BY <1>4, <1>10, <2>5, <2>6 DEF SeenAt, StatementSeen, f
<1>11. CASE ~IsListAt(fs, k)
  <2>1. CallSeen(h, fs, "return", res, js, k)
    BY <1>8, <1>11 DEF SeenAt
  <2>2. IsCallFrame(f) /\ \A m \in Lasting(f) : f.saved[m].applied \in Nat
    BY <1>1, <1>5, <1>11, <2>1 DEF IsStack, CallSeen, f
  <2>3. Versioned(f)
    BY <2>2, VersionedIs
  <2>4. \A i \in Live(h, fs, "return", res, k) : StateSinceCall(h[i], f)
    BY <2>1 DEF CallSeen, f
  <2>5. \A m \in Undoable(fs, js, k) : RecordSinceCall(h, f, js[m])
    BY <2>1 DEF CallSeen, f
  <2>6. \A m \in c + 1 .. Len(js) : m \in Undoable(fs, js, k)
    BY <1>3, <1>5 DEF Undoable, c
  <2>7. \A r \in S : RecordSinceCall(h, f, r)
    BY <2>5, <2>6 DEF S, Since
  <2>8. LiveIs(h, fs, "return", res, n, k) /\ LiveIs(g, gs, "return", qes, n, k)
    BY <1>3, LiveParts
  <2>9. Live(g, gs, "return", qes, n) \subseteq Live(h, fs, "return", res, n)
        /\ Live(h, fs, "return", res, n) \subseteq DOMAIN h
    <3>1. IsAbove(h, fs, "return", res, n)
      BY <1>1, <1>3, AboveIs
    <3>2. IsAbove(g, gs, "return", qes, n)
      BY <1>3, AboveIs
    <3> QED
      BY <3>1, <3>2, ChainInHeap DEF IsAbove
  <2>10. ASSUME NEW i \in Live(g, gs, "return", qes, k)
         PROVE  StateSinceCall(g[i], f)
    <3>1. CASE i \in Live(g, gs, "return", qes, n)
      <4>1. i \in Live(h, fs, "return", res, k) /\ i \in DOMAIN h
        BY <2>8, <2>9, <3>1 DEF LiveIs
      <4>2. StateSinceCall(h[i], f)
        BY <2>4, <4>1
      <4> QED
        BY <1>1, <1>2, <2>3, <2>7, <4>1, <4>2, RolledSinceCall
    <3>2. CASE i \notin Live(g, gs, "return", qes, n)
      <4>1. PICK l \in k + 1 .. n : i \in Chain(g, Idle(gs, "return", l))
        BY <2>8, <3>2 DEF LiveIs
      <4>2. l \in 1 .. n
        BY <1>3
      <4>3. IsHeap(g)
        BY <1>2 DEF Rolled
      <4>4. Stays(h, fs, "return", g, gs, "return", l)
        BY <1>1, <4>2, <4>3, ShiftStays
      <4>5. i \in Chain(h, Idle(fs, "return", l))
        BY <4>1, <4>4 DEF Stays
      <4>6. g[i] = h[i] /\ i \in Live(h, fs, "return", res, k)
        BY <1>4, <2>8, <4>2, <4>5 DEF LiveIs
      <4> QED
        BY <2>4, <4>6
    <3> QED
      BY <3>1, <3>2
  <2>11. ASSUME NEW m \in Undoable(gs, ks, k)
         PROVE  RecordSinceCall(g, f, ks[m])
    <3>1. PICK l \in k + 1 .. Len(gs) : IsListAt(gs, l) /\ m \in gs[l].checkpoint + 1 .. Len(ks)
      BY DEF Undoable
    <3>2. l \in 1 .. n /\ l \in k + 1 .. Len(fs) /\ l \in 1 .. Len(fs)
      BY <1>3, <3>1
    <3>3. IsListAt(fs, l) /\ gs[l] = fs[l] /\ fs[l].checkpoint \in Nat
      BY <1>1, <1>4, <1>5, <3>1, <3>2 DEF IsStack, IsListFrame
    <3>4. m \in fs[l].checkpoint + 1 .. Len(js) /\ m \in 1 .. Len(ks) /\ m \in 1 .. Len(js)
      BY <1>7, <3>1, <3>3
    <3>5. m \in Undoable(fs, js, k)
      BY <3>2, <3>3, <3>4 DEF Undoable
    <3>6. RecordSinceCall(h, f, js[m]) /\ ks[m] = js[m] /\ js[m].state \in DOMAIN h
      BY <1>7, <1>9, <2>5, <3>4, <3>5
    <3> QED
      BY <1>2, <3>6, RolledRecords
  <2> QED
    BY <1>4, <1>11, <2>2, <2>10, <2>11 DEF SeenAt, CallSeen, f
<1> QED
  BY <1>10, <1>11

\* Undoing keeps the invariant.
LEMMA RollbackInv ==
  ASSUME NEW h, NEW fs, NEW res, NEW js, Inv(h, fs, "return", res, js),
         NEW g, NEW gs, NEW qes, NEW ks, NEW n, RolledBack(h, fs, res, js, g, gs, qes, ks, n)
  PROVE  Inv(g, gs, "return", qes, ks)
<1>1. /\ IsHeap(h) /\ IsJournal(h, js) /\ IsStack(fs, "return")
      /\ Owned(h, fs, "return", res) /\ Budgets(h, fs, "return")
      /\ Checkpoints(fs, js) /\ RecordsApart(h, fs, "return", js)
  BY DEF Inv
<1>2. /\ Shift(h, fs, "return", res, g, gs, "return", qes, n)
      /\ Journaled(h, fs, "return", res, js, gs, ks, n)
      /\ Len(gs) = n /\ IsStack(gs, "return")
      /\ Chain(g, Above(gs, "return", qes, n)) \subseteq Chain(h, Above(fs, "return", res, n))
  BY RollbackShifts
<1>3. n \in Nat /\ Len(fs) \in {n, n + 1} /\ Len(gs) # n + 1
  BY <1>2 DEF Shift
<1>4. IsHeap(g) /\ Forward(h, g)
  BY DEF RolledBack, Rolled, Forward
<1>5. Owned(g, gs, "return", qes)
  BY <1>1, <1>2, <1>4, ShiftOwned
<1>6. Budgets(g, gs, "return")
  BY <1>1, <1>2, <1>3, <1>4, ShiftBudgets
<1>7. IsJournal(g, ks)
  BY <1>1, <1>2, <1>3, <1>4, JournalKept
<1>8. Checkpoints(gs, ks) /\ RecordsApart(g, gs, "return", ks)
  <2>1. IsSeq(js)
    BY <1>1 DEF IsJournal
  <2>2. \A k \in 1 .. Len(fs) : IsListAt(fs, k) => fs[k].checkpoint \in Nat
    BY <1>1, IdleSeq DEF IsStack, IsListFrame
  <2> QED
    BY <1>1, <1>2, <1>3, <1>4, <2>1, <2>2, ShiftJournal
<1>9. Seen(g, gs, "return", qes, ks)
  BY <1>2, <1>5, RollbackSeen DEF Seen
<1> QED
  BY <1>2, <1>4, <1>5, <1>6, <1>7, <1>8, <1>9 DEF Inv

\* What a list that is beyond its budget does.
OverBudget(h, qes, n) ==
  /\ Inv(h, frames, "return", qes, journal)
  /\ RolledBack(h, frames, qes, journal, states', frames', result', journal', n)
  /\ phase' = "return"
\* EndOverBudget undoes the records of the innermost list, and leaves it.
LEMMA OverBudgetIs ==
  ASSUME IInv, EndOverBudget
  PROVE  OverBudget(Resolved.h, [paths |-> Resolved.paths], Len(frames) - 1)
<1> DEFINE f == Top
           n == Len(frames) - 1
           a == f.next
           r == Tail(f.todo)
           R == Resolved
           h == R.h
           p == R.paths
           qes == [paths |-> p]
           c == IF AtTop THEN 0 ELSE f.checkpoint
<1>1. /\ phase = "return" /\ frames # <<>> /\ f.kind = "list"
      /\ states' = Rollback(h, f.checkpoint) /\ frames' = Front(frames)
      /\ phase' = "return" /\ result'.paths = Failed(a \o p) \o Failed(r)
      /\ journal' = SubSeq(journal, 1, c)
  BY DEF EndOverBudget, Ending, Below, ReturnWith, Discard
<1>2. AtList(f, n)
  BY <1>1, AtListIs
<1>3. qes.paths = p
  OBVIOUS
<1> HIDE DEF qes
<1>4. /\ Inv(h, frames, "return", qes, journal)
      /\ HoldsRest(h, frames, "return", qes, f, n)
  BY <1>1, <1>2, <1>3, Resolves
<1>5. IsHeap(h) /\ IsJournal(h, journal) /\ Checkpoints(frames, journal) /\ IsStack(frames, "return")
  BY <1>4 DEF Inv
<1>6. /\ n \in Nat /\ Len(frames) = n + 1 /\ f = frames[n + 1] /\ IsListFrame(f)
      /\ IsListAt(frames, Len(frames))
  BY <1>2, <1>4 DEF HoldsRest, Holds, AtList
<1>7. Len(journal) \in Nat /\ IsSeq(journal)
  BY <1>5, SeqDomain DEF IsJournal
<1>8. f.checkpoint \in 0 .. Len(journal)
  <2>1. n + 1 \in 1 .. Len(frames) /\ f.checkpoint \in Nat
    BY <1>6 DEF IsListFrame
  <2>2. f.checkpoint <= Len(journal)
    BY <1>5, <1>6, <2>1 DEF Checkpoints
  <2> QED
    BY <1>7, <2>1, <2>2
<1> HIDE DEF f, n, h, p, R, a, r
<1>9. Rolled(h, states', Since(journal, frames[n + 1].checkpoint))
  BY <1>1, <1>5, <1>6, <1>8, RollbackIs
<1>10. n = 0 \/ c = f.checkpoint
  BY <1>1, <1>5, <1>6, AtTopIs
<1>11. Shorter(journal, journal') /\ (n = 0 \/ Len(journal') = f.checkpoint)
  <2>1. c \in 0 .. Len(journal)
    BY <1>7, <1>8
  <2> HIDE DEF c
  <2> QED
    BY <1>1, <1>7, <1>10, <2>1, ShorterCut
<1>12. Sound(h, result'.paths) /\ Chain(h, result'.paths) \subseteq Chain(h, Above(frames, "return", qes, n))
  <2> DEFINE ap == a \o p
             x == Failed(ap)
             y == Failed(r)
  <2>1. /\ Sound(h, a) /\ Sound(h, r) /\ Sound(h, p) /\ Disjoint(h, a, r)
        /\ Disjoint(h, p, a) /\ Disjoint(h, p, r)
        /\ Chain(h, Above(frames, "return", qes, n)) =
             Chain(h, p) \cup (Chain(h, a) \cup Chain(h, r))
    BY <1>3, <1>4 DEF HoldsRest, Holds, a, r
  <2>2. Both(h, a, p)
    BY <1>5, <2>1, BothAre DEF Disjoint
  <2>3. Sound(h, ap) /\ Chain(h, ap) = Chain(h, a) \cup Chain(h, p)
    BY <2>2 DEF Both
  <2> HIDE DEF ap
  <2>4. /\ Sound(h, x) /\ Chain(h, x) = Chain(h, ap)
        /\ Sound(h, y) /\ Chain(h, y) = Chain(h, r)
    BY <2>1, <2>3, FailedIs
  <2> HIDE DEF x, y
  <2>5. Disjoint(h, x, y)
    BY <2>1, <2>3, <2>4 DEF Disjoint
  <2>6. Both(h, x, y)
    BY <1>5, <2>4, <2>5, BothAre
  <2>7. result'.paths = x \o y
    BY <1>1 DEF x, y, ap
  <2> QED
    BY <2>1, <2>3, <2>4, <2>6, <2>7 DEF Both
<1>13. frames # <<>> /\ n = Len(frames) - 1 /\ frames' = Front(frames)
  BY <1>1 DEF n
<1>14. RolledBack(h, frames, qes, journal, states', frames', result', journal', n)
  BY <1>6, <1>9, <1>11, <1>12, <1>13 DEF RolledBack
<1> QED
  BY <1>1, <1>4, <1>14 DEF OverBudget, qes, h, p, R, n

\* A list that ends beyond its budget keeps the invariant.
LEMMA EndOverBudgetInv == ASSUME IInv, EndOverBudget PROVE IInv'
<1> DEFINE h == Resolved.h
           qes == [paths |-> Resolved.paths]
           n == Len(frames) - 1
<1>1. OverBudget(h, qes, n)
  BY OverBudgetIs
<1> HIDE DEF h, qes, n
<1>2. Inv(states', frames', "return", result', journal')
  BY <1>1, RollbackInv DEF OverBudget
<1> QED
  BY <1>1, <1>2 DEF OverBudget, IInv

-------------------------------------------------------------------------------
(* The invariant. *)

\* The state a simulation starts with.
LEMMA InitialState ==
  ASSUME Init
  PROVE  IsHeap(states) /\ Len(states) = 1 /\ DOMAIN states = {1} /\ states[1].failure = None
<1> DEFINE s == [vars |-> InitialVars, truth |-> InitialTruth, other |-> 0,
                 failure |-> None, written |-> [n \in Name |-> 0],
                 renewed |-> [n \in Name |-> 0]]
<1>1. states = <<s>>
  BY DEF Init
<1>2. IsState(s) /\ s.failure = 0
  BY AssignmentsAssumption DEF IsState, Counts, None
<1> HIDE DEF s
<1>3. IsSeq(states) /\ Len(states) = 1 /\ states[1] = s /\ DOMAIN states = {1}
  BY <1>1, ChainOne
<1> QED
  BY <1>2, <1>3 DEF IsHeap, None

\* It satisfies the invariant.
LEMMA InitInv == ASSUME Init PROVE IInv
<1> DEFINE x == Path(1, "completed")
           p == <<x>>
           f == NewList(states, 1)
           h == states
           fs == <<f>>
           js == <<>>
<1>1. /\ frames = fs /\ phase = "list" /\ journal = js
  BY DEF Init
<1>2. IsHeap(h) /\ 1 \in DOMAIN h /\ h[1].failure = None
  BY InitialState
<1>3. x.state = 1 /\ x = Path(x.state, x.status)
  BY DEF Path
<1>4. /\ DOMAIN f = {"kind", "todo", "next", "budget", "checkpoint", "previous", "before"}
      /\ f.kind = "list" /\ f.todo = p /\ f.next = <<>> /\ f.checkpoint = Len(js)
      /\ f.previous = 0 /\ f.before = h
      /\ f.budget.bytes = SumOver(h, p) /\ f.budget.count = Len(p)
  BY <1>1 DEF NewList, NewBudget
<1>5. IsSeq(js) /\ Len(js) = 0 /\ \A g : Chain(g, js) = {} /\ Sound(g, js) /\ Settled(g, js)
  BY ChainEmpty DEF Settled
<1>6. DOMAIN js = {}
  OBVIOUS
<1> HIDE DEF f, x, h, js
<1>7. IsSeq(p) /\ Len(p) = 1 /\ DOMAIN p = {1} /\ p[1] = x
  BY ChainOne
<1>8. IsSeq(fs) /\ Len(fs) = 1 /\ DOMAIN fs = {1} /\ fs[1] = f /\ fs # <<>>
  BY ChainOne
<1>9. Sound(h, p) /\ Settled(h, p) /\ InHeap(h, p)
  <2>1. IsPath(h, x)
    BY <1>2, <1>3 DEF IsPath
  <2>2. Sound(h, p)
    BY <2>1, SoundOne
  <2>3. Settled(h, p)
    BY <1>2, <1>3, SettledOne
  <2> QED
    BY <2>2, <2>3, SoundInHeap
<1> HIDE DEF p, fs
<1>10. IsListFrame(f)
  <2>1. \A j \in DOMAIN h : h[j].written \in Counts /\ h[j].renewed \in Counts
    BY <1>2 DEF IsHeap, IsState
  <2>2. IsSeq(<<>>)
    BY ShortSeqs
  <2> QED
    BY <1>2, <1>4, <1>5, <1>7, <2>1, <2>2 DEF IsListFrame, IsHeap
<1>11. ~AtWork(fs, "list", 1) /\ IsListAt(fs, 1)
  BY <1>4, <1>8 DEF AtWork, IsListAt
<1>12. IsStack(fs, "list")
  BY <1>8, <1>10, <1>11 DEF IsStack
<1>13. Group(fs, "list", result, 0) = js /\ Group(fs, "list", result, 1) = p
       /\ Idle(fs, "list", 1) = p
  <2>1. <<>> \o p = p
    BY <1>7, ShortSeqs, ConcatIs
  <2>2. Idle(fs, "list", 1) = p
    BY <1>4, <1>8, <1>11, <2>1 DEF Idle
  <2> QED
    BY <2>2 DEF Group, Flying, js
<1>14. Owned(h, fs, "list", result)
  <2>1. \A k \in 0 .. Len(fs) : k = 0 \/ k = 1
    BY <1>8
  <2> QED
    BY <1>5, <1>9, <1>13, <2>1 DEF Owned, Disjoint
<1>15. Budgets(h, fs, "list")
  <2>1. SumOver(h, p) \in Int
    BY <1>2, <1>9, SumIs DEF PathSums
  <2>2. f.budget.bytes = SumOver(h, p) + 0 /\ f.budget.count = Len(p) + 0 /\ f.previous \in Int
    BY <1>4, <1>7, <2>1
  <2>3. BudgetAt(h, fs, "list", 1)
    BY ONLY <1>8, <1>11, <1>13, <2>2 DEF BudgetAt
  <2> QED
    BY <1>8, <2>3 DEF Budgets
<1>16. Checkpoints(fs, js) /\ RecordsApart(h, fs, "list", js)
  BY <1>4, <1>5, <1>8 DEF Checkpoints, RecordsApart
<1>17. StatementSeen(h, f, js)
  BY <1>2, <1>4, <1>5, SeenFirst
<1>18. Seen(h, fs, "list", result, js)
  BY <1>8, <1>11, <1>17 DEF Seen, SeenAt
<1>19. IsJournal(h, js)
  BY <1>5, <1>6 DEF IsJournal
<1> QED
  BY <1>1, <1>2, <1>12, <1>14, <1>15, <1>16, <1>18, <1>19 DEF IInv, Inv, h

\* Every step keeps it.
LEMMA NextInv == ASSUME IInv, [Next]_vars PROVE IInv'
<1>1. CASE PassPath
  BY <1>1, PassPathInv
<1>2. CASE StartStatement
  BY <1>2, StartStatementInv
<1>3. CASE NextStatement
  BY <1>3, NextStatementInv
<1>4. CASE EndList
  BY <1>4, EndListInv
<1>5. ASSUME NEW list \in Lists, AssignStatement(list)
      PROVE  IInv'
  BY <1>5, AssignStatementInv
<1>6. ASSUME NEW list \in Lists, NEW always \in BOOLEAN, CallStatement(list, always)
      PROVE  IInv'
  BY <1>6, CallStatementInv
<1>7. CASE Body
  <2>1. ASSUME NEW n \in Targets, NEW text \in Texts, Printf(n, text) \/ Read(n, text)
        PROVE  IInv'
    BY <2>1, WriteVariableInv DEF Printf, Read
  <2>2. ASSUME NEW n \in Targets, NEW text \in Texts, NEW clear \in BOOLEAN,
               Environment(n, text, clear)
        PROVE  IInv'
    BY <2>2, EnvironmentInv
  <2>3. ASSUME NEW n \in Targets, Unset(n)
        PROVE  IInv'
    BY <2>3, UnsetInv
  <2>4. ASSUME NEW clear \in BOOLEAN, Uncertain(clear)
        PROVE  IInv'
    BY <2>4, UncertainInv
  <2>5. CASE Evaluate
    BY <2>5, EvaluateInv
  <2>6. CASE Nothing
    BY <2>6, NothingInv
  <2> QED
    BY <1>7, <2>1, <2>2, <2>3, <2>4, <2>5, <2>6 DEF Body
<1>8. CASE EndCall
  BY <1>8, EndCallInv
<1>9. CASE EndStatement
  BY <1>9, EndStatementInv
<1>10. CASE EndInError
  BY <1>10, EndInErrorInv
<1>11. CASE EndOverBudget
  BY <1>11, EndOverBudgetInv
<1>12. CASE UNCHANGED vars
  BY <1>12 DEF vars, IInv
<1> QED
  BY <1>1, <1>2, <1>3, <1>4, <1>5, <1>6, <1>7, <1>8, <1>9, <1>10, <1>11, <1>12 DEF Next

\* Every list owns the states of its paths, has counted what they retain, and
\* what it or a call has seen of a state still tells what happened to it since.
THEOREM InvTheorem == Spec => []IInv
  BY InitInv, NextInv, PTL DEF Spec

-------------------------------------------------------------------------------
(* What it says of the properties. *)

\* What the variables of a state say is known is what its ghost has: through
\* assignments, temporary ones, what commands write and what the journal
\* undoes (expand.go, variables.go, control.go).
THEOREM KnownIsRightTheorem == Spec => []KnownIsRight
<1>1. IInv => KnownIsRight
  <2> SUFFICES ASSUME IInv, NEW i \in DOMAIN states, NEW n \in Name \ states[i].vars.unknown
               PROVE  /\ Lookup(states[i].vars, n) = Lookup(states[i].truth, n)
                      /\ Slots(states[i].vars, n) = Slots(states[i].truth, n)
    BY DEF KnownIsRight
  <2>1. Agrees(states[i].vars, states[i].truth)
    BY DEF IInv, Inv, IsHeap, IsState
  <2> QED
    BY <2>1 DEF Agrees, Unknown
<1> QED
  BY <1>1, InvTheorem, PTL

\* What a list has counted for its paths is what they retain, whatever their
\* statement forked, assigned, restored or undid (materialization.go).
THEOREM BudgetExactTheorem == Spec => []BudgetExact
<1>1. IInv => BudgetExact
  <2> SUFFICES ASSUME IInv, NEW k \in DOMAIN frames, frames[k].kind = "list"
               PROVE  LET f    == frames[k]
                          busy == k < Len(frames) \/ phase # "list"
                          idle == f.next \o (IF busy THEN Tail(f.todo) ELSE f.todo)
                      IN /\ f.budget.bytes = Counted(idle) + (IF busy THEN f.previous ELSE 0)
                         /\ f.budget.count = Len(idle) + (IF busy THEN 1 ELSE 0)
    BY DEF BudgetExact
  <2> DEFINE idle == Idle(frames, phase, k)
             busy == AtWork(frames, phase, k)
  <2>1. /\ IsHeap(states) /\ IsStack(frames, phase) /\ Owned(states, frames, phase, result)
        /\ Budgets(states, frames, phase)
    BY DEF IInv, Inv
  <2>2. k \in 1 .. Len(frames) /\ k \in 0 .. Len(frames) /\ k # 0 /\ IsListAt(frames, k)
    BY <2>1, IdleSeq DEF IsListAt
  <2>3. Sound(states, idle)
    BY <2>1, <2>2 DEF Owned, Group
  <2>4. Counted(idle) = SumOver(states, idle)
    BY <2>1, <2>3, SoundInHeap, CountedIs
  <2>5. BudgetAt(states, frames, phase, k)
    BY <2>1, <2>2 DEF Budgets
  <2>6. idle = frames[k].next \o (IF busy THEN Tail(frames[k].todo) ELSE frames[k].todo)
    BY <2>2 DEF Idle
  <2>7. busy = (k < Len(frames) \/ phase # "list")
    BY DEF AtWork
  <2>8. /\ frames[k].budget.bytes = Counted(idle) + (IF busy THEN frames[k].previous ELSE 0)
        /\ frames[k].budget.count = Len(idle) + (IF busy THEN 1 ELSE 0)
    BY <2>4, <2>5 DEF BudgetAt
  <2> HIDE DEF idle, busy
  <2> QED
    BY <2>6, <2>7, <2>8
<1> QED
  BY <1>1, InvTheorem, PTL

\* What the version of a name tells when a call is over: whether the command
\* wrote it since (restoreSavedAssignments).
LEMMA WrittenSince ==
  ASSUME NEW f, NEW s, StateSinceCall(s, f), NEW n \in DOMAIN f.saved
  PROVE  LET lasting   == ~f.always /\ f.saved[n].applied # 0
             untouched == Untouched(s, n, f.written, f.renewed)
             written   == s.written[n] # f.written[n] /\ s.renewed[n] = f.renewed[n]
         IN /\ ~lasting \/ untouched => ~Kept(f.saved, f.always, s.vars, n)
            /\ lasting /\ written => Kept(f.saved, f.always, s.vars, n)
<1>1. f.saved[n].applied # 0 /\ s.renewed[n] = f.renewed[n] =>
        (s.written[n] = f.written[n] <=> Version(s.vars, n) = f.saved[n].applied)
  BY DEF StateSinceCall, Lasting
<1> QED
  BY <1>1 DEF Untouched, Kept

\* A call ends with every name it assigned temporarily as it was, on every
\* path and in every state a path has if it failed, but for those the command
\* wrote; the version that a name has tells which they are (call_registered.go).
THEOREM TemporariesEndTheorem == Spec => TemporariesEnd
<1> DEFINE End(i, n) ==
             LET saved     == Top.saved[n]
                 lasting   == ~Top.always /\ saved.applied # 0
                 untouched == Untouched(states[i], n, Top.written, Top.renewed)
                 written   == /\ states[i].written[n] # Top.written[n]
                              /\ states[i].renewed[n] = Top.renewed[n]
             IN /\ ~lasting \/ untouched => Entry(states'[i].vars, n) = saved.entry
                /\ lasting /\ written =>
                     Entry(states'[i].vars, n) = Entry(states[i].vars, n)
           Done == \A i \in Chain(states, result.paths), n \in DOMAIN Top.saved : End(i, n)
<1>1. IInv /\ [Next]_vars => [EndCall => Done]_vars
  <2> SUFFICES ASSUME IInv, EndCall, NEW i \in Chain(states, result.paths),
                      NEW n \in DOMAIN Top.saved
               PROVE  End(i, n)
    OBVIOUS
  <2>1. CallOver
    BY CallOverIs
  <2>2. i \in DOMAIN states /\ StateSinceCall(states[i], Top)
    BY <2>1 DEF CallOver
  <2>3. Ended(states[i], Top.saved, Top.always, states'[i])
    BY <2>1, <2>2 DEF CallOver, EndedOn
  <2>4. Entry(states'[i].vars, n) =
          IF Kept(Top.saved, Top.always, states[i].vars, n) THEN Entry(states[i].vars, n)
          ELSE Top.saved[n].entry
    BY <2>3 DEF Ended
  <2> QED
    BY <2>2, <2>4, WrittenSince
<1> QED
  BY <1>1, InvTheorem, PTL DEF Spec, TemporariesEnd

\* When a list runs out of memory, a name that its last statement wrote only
\* by printf -v is as it was before, and the state has counted its bytes
\* (evaluateStatements, rollbackVariables).
THEOREM PrintfUndoneTheorem == Spec => PrintfUndone
<1> DEFINE Undo(k) ==
             LET i == journal[k].state
                 n == journal[k].name
             IN i \in DOMAIN Top.before
                  /\ Untouched(states'[i], n, Top.before[i].written, Top.before[i].renewed)
                => /\ Entry(states'[i].vars, n) = Entry(Top.before[i].vars, n)
                   /\ Version(states'[i].vars, n) = Version(Top.before[i].vars, n)
                   /\ states'[i].vars.bytes = CountedBytes(states'[i].vars)
           Done == \A k \in Top.checkpoint + 1 .. Len(journal) : Undo(k)
<1>1. IInv /\ [Next]_vars => [EndOverBudget => Done]_vars
  <2> SUFFICES ASSUME IInv, EndOverBudget, NEW k \in Top.checkpoint + 1 .. Len(journal)
               PROVE  Undo(k)
    OBVIOUS
  <2> DEFINE h == Resolved.h
             qes == [paths |-> Resolved.paths]
             l == Len(frames)
             S == Since(journal, Top.checkpoint)
  <2>1. OverBudget(h, qes, l - 1)
    BY OverBudgetIs
  <2> HIDE DEF h, qes
  <2>2. /\ Inv(h, frames, "return", qes, journal) /\ frames # <<>> /\ IsListAt(frames, l)
    BY <2>1 DEF OverBudget, RolledBack
  <2>3. /\ IsHeap(h) /\ IsJournal(h, journal) /\ IsStack(frames, "return")
        /\ Seen(h, frames, "return", qes, journal)
    BY <2>2 DEF Inv
  <2>4. l \in Nat /\ l \in 1 .. l /\ l \in DOMAIN frames /\ l = l - 1 + 1
    <3>1. l \in Nat /\ DOMAIN frames = 1 .. l /\ l # 0
      BY <2>2, <2>3, SeqDomain DEF IsStack
    <3> HIDE DEF l
    <3> QED
      BY <3>1
  <2>5. frames[l] = Top /\ IsListFrame(Top) /\ Top.checkpoint \in Nat
    BY <2>2, <2>3, <2>4 DEF IsStack, Top, IsListFrame
  <2>6. StatementSeen(h, Top, journal)
    BY <2>2, <2>3, <2>4, <2>5 DEF Seen, SeenAt
  <2>7. Rolled(h, states', S)
    BY <2>1, <2>4, <2>5 DEF OverBudget, RolledBack
  <2>8. \A r \in S : RecordSinceStatement(h, Top, r)
    BY <2>6 DEF StatementSeen, Since
  <2>9. SinceStatement(states', Top)
    BY <2>3, <2>5, <2>6, <2>7, <2>8, RolledSinceStatement DEF StatementSeen
  <2>10. k \in DOMAIN journal
    <3>1. Len(journal) \in Nat /\ DOMAIN journal = 1 .. Len(journal)
      BY <2>3, SeqDomain DEF IsJournal
    <3> QED
      BY <2>5, <3>1
  <2>11. journal[k].name \in Name /\ journal[k].state \in DOMAIN h
    BY <2>3, <2>10 DEF IsJournal, IsRecord
  <2>12. states'[journal[k].state].vars.bytes = CountedBytes(states'[journal[k].state].vars)
    BY <2>7, <2>11 DEF Rolled, IsHeap, IsState, IsVars
  <2> QED
    BY <2>9, <2>11, <2>12 DEF SinceStatement
<1> QED
  BY <1>1, InvTheorem, PTL DEF Spec, PrintfUndone
================================================================================
