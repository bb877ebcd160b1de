------------------------------ MODULE FoldsProofs ------------------------------
(***************************************************************************)
(* What the folds of the community modules compute, step by step, for any  *)
(* operator.  A module that folds an operator of its own instantiates this *)
(* one with it, and so gets the steps of its fold as facts:                *)
(*                                                                         *)
(*   FoldLeft   takes the elements of a sequence from the first on,        *)
(*   FoldRight  takes them from the last on,                               *)
(*   FoldSet    takes the elements of a finite set in some order.          *)
(*                                                                         *)
(* FoldStep has what the operator depends on besides, the element, and     *)
(* what is accumulated.                                                    *)
(*                                                                         *)
(* Sums are at the end.  They do not depend on FoldStep: a module that is  *)
(* about sums extends this one and has nothing to give it.                 *)
(*                                                                         *)
(* A fold is a recursive function on the subsets of its set.  That there   *)
(* is such a function, and that the order in which a sum takes its         *)
(* elements does not matter, follows from looking at a smallest subset for *)
(* which it would not be so.                                               *)
(***************************************************************************)
EXTENDS Integers, Sequences, Functions, FiniteSetTheorems, TLAPS

CONSTANT FoldStep(_, _, _)

Least(s)    == CHOOSE x \in s : \A y \in s : x <= y
Largest(s)  == CHOOSE x \in s : \A y \in s : x >= y
SomeOf(s)   == CHOOSE x \in s : TRUE

\* The folds, as the library defines them for this operator.
OverSet(c, base, S) ==
  (CHOOSE g : g = [s \in SUBSET S |->
     IF s = {} THEN base ELSE FoldStep(c, SomeOf(s), g[s \ {SomeOf(s)}])])[S]
FromLeft(c, base, seq) ==
  (CHOOSE g : g = [s \in SUBSET DOMAIN seq |->
     IF s = {} THEN base ELSE FoldStep(c, seq[Largest(s)], g[s \ {Largest(s)}])])[DOMAIN seq]
FromRight(c, base, seq) ==
  (CHOOSE g : g = [s \in SUBSET DOMAIN seq |->
     IF s = {} THEN base ELSE FoldStep(c, seq[Least(s)], g[s \ {Least(s)}])])[DOMAIN seq]

-------------------------------------------------------------------------------
(* The recursion in all of them: which element is taken of a set, and what  *)
(* the operator gets for it, are given by functions.                        *)

Picks(pick, S) == \A s \in SUBSET S : s # {} => pick[s] \in s
IsFold(g, c, base, S, pick, val) ==
  g = [s \in SUBSET S |-> IF s = {} THEN base ELSE FoldStep(c, val[s], g[s \ {pick[s]}])]

\* Sets of subsets of a finite set have a smallest one.
LEMMA SmallestSubset ==
  ASSUME NEW S, IsFiniteSet(S), NEW Bad \in SUBSET SUBSET S, Bad # {}
  PROVE  \E m \in Bad : \A y \in SUBSET m : y # m => y \notin Bad
  <1>1. IsWellFoundedOn(StrictSubsetOrdering(S), SUBSET S)
    BY FS_StrictSubsetOrderingWellFounded, FS_FiniteSubsetsOfFinite
  <1>2. PICK m \in Bad : \A y \in Bad : <<y, m>> \notin StrictSubsetOrdering(S)
    BY <1>1, WFMin
  <1>3. ASSUME NEW y \in SUBSET m, y # m, y \in Bad
        PROVE  FALSE
    BY <1>2, <1>3 DEF StrictSubsetOrdering
  <1> QED
    BY <1>2, <1>3

\* Recursions over two sets agree on the smaller one.
LEMMA FoldsAgree ==
  ASSUME NEW c, NEW base, NEW S, IsFiniteSet(S), NEW T, S \subseteq T,
         NEW pick, Picks(pick, S), NEW val,
         NEW g, IsFold(g, c, base, S, pick, val), NEW h, IsFold(h, c, base, T, pick, val)
  PROVE  g[S] = h[S]
  <1> DEFINE Bad == {s \in SUBSET S : g[s] # h[s]}
  <1>1. /\ \A s \in SUBSET S :
             g[s] = IF s = {} THEN base ELSE FoldStep(c, val[s], g[s \ {pick[s]}])
        /\ \A s \in SUBSET S :
             h[s] = IF s = {} THEN base ELSE FoldStep(c, val[s], h[s \ {pick[s]}])
    BY Zenon DEF IsFold
  <1>2. Bad = {}
    <2> SUFFICES ASSUME Bad # {} PROVE FALSE
      OBVIOUS
    <2>1. PICK m \in Bad : \A y \in SUBSET m : y # m => y \notin Bad
      <3>1. Bad \in SUBSET SUBSET S
        OBVIOUS
      <3> HIDE DEF Bad
      <3> QED
        BY <3>1, SmallestSubset
    <2>2. m # {} /\ m \in SUBSET S
      BY <1>1, <2>1
    <2>3. pick[m] \in m
      BY <2>2 DEF Picks
    <2>4. g[m \ {pick[m]}] = h[m \ {pick[m]}]
      BY <2>1, <2>2, <2>3
    <2> QED
      BY <1>1, <2>1, <2>2, <2>4
  <1> QED
    BY <1>2

\* There is such a recursion.
LEMMA FoldExists ==
  ASSUME NEW c, NEW base, NEW S, IsFiniteSet(S), NEW pick, Picks(pick, S), NEW val
  PROVE  \E g : IsFold(g, c, base, S, pick, val)
  <1> DEFINE Is(g, s) == IsFold(g, c, base, s, pick, val)
             Bad == {s \in SUBSET S : ~\E g : Is(g, s)}
  <1>1. Bad = {}
    <2> SUFFICES ASSUME Bad # {} PROVE FALSE
      OBVIOUS
    <2>1. PICK m \in Bad : \A y \in SUBSET m : y # m => y \notin Bad
      <3>1. Bad \in SUBSET SUBSET S
        OBVIOUS
      <3> HIDE DEF Bad
      <3> QED
        BY <3>1, SmallestSubset
    <2> DEFINE k(s) == CHOOSE g : Is(g, s)
               rest(s) == s \ {pick[s]}
               g == [s \in SUBSET m |->
                       IF s = {} THEN base ELSE FoldStep(c, val[s], k(rest(s))[rest(s)])]
    <2>2. ASSUME NEW s \in SUBSET m, s # m
          PROVE  Is(k(s), s) /\ IsFiniteSet(s) /\ Picks(pick, s)
      <3>1. \E h : Is(h, s)
        BY <2>1, <2>2
      <3>2. Is(k(s), s)
        BY <3>1, Zenon
      <3>3. IsFiniteSet(s)
        BY <2>1, FS_Subset
      <3>4. Picks(pick, s)
        BY <2>1 DEF Picks
      <3> QED
        BY <3>2, <3>3, <3>4
    <2>3. ASSUME NEW s \in SUBSET m, s # {}
          PROVE  rest(s) \in SUBSET m /\ rest(s) # m /\ rest(s) # s
      <3>1. pick[s] \in s
        BY <2>1, <2>3 DEF Picks
      <3> QED
        BY <3>1
    <2> HIDE DEF k, Is
    <2>4. ASSUME NEW s \in SUBSET m, s # {}
          PROVE  g[rest(s)] = k(rest(s))[rest(s)]
      <3> DEFINE u == rest(s)
      <3>1. u \in SUBSET m /\ u # m
        BY <2>3, <2>4
      <3>2. Is(k(u), u)
        BY <2>2, <3>1
      <3> HIDE DEF u
      <3>3. k(u)[u] = IF u = {} THEN base ELSE FoldStep(c, val[u], k(u)[rest(u)])
        <4>1. \A t \in SUBSET u :
                k(u)[t] = IF t = {} THEN base ELSE FoldStep(c, val[t], k(u)[rest(t)])
          BY <3>2, Zenon DEF IsFold, Is
        <4>2. u \in SUBSET u
          OBVIOUS
        <4> QED
          BY <4>1, <4>2
      <3>4. g[u] = IF u = {} THEN base ELSE FoldStep(c, val[u], k(rest(u))[rest(u)])
        BY <3>1
      <3>5. ASSUME u # {}
            PROVE  k(rest(u))[rest(u)] = k(u)[rest(u)]
        <4>1. rest(u) \in SUBSET m /\ rest(u) # m /\ rest(u) \subseteq u
          BY <2>3, <3>1, <3>5
        <4>2. Is(k(rest(u)), rest(u)) /\ IsFiniteSet(rest(u)) /\ Picks(pick, rest(u))
          BY <2>2, <4>1
        <4> HIDE DEF rest
        <4> QED
          BY <3>2, <4>1, <4>2, FoldsAgree DEF Is
      <3>6. g[u] = k(u)[u]
        BY <3>3, <3>4, <3>5
      <3> QED
        BY <3>6 DEF u
    <2>5. g = [s \in SUBSET m |-> IF s = {} THEN base ELSE FoldStep(c, val[s], g[rest(s)])]
      <3>1. \A s \in SUBSET m :
              (IF s = {} THEN base ELSE FoldStep(c, val[s], k(rest(s))[rest(s)]))
              = (IF s = {} THEN base ELSE FoldStep(c, val[s], g[rest(s)]))
        BY <2>4
      <3> QED
        BY <3>1
    <2>6. Is(g, m)
      BY <2>5 DEF IsFold, Is
    <2> QED
      BY <2>1, <2>6
  <1> QED
    BY <1>1

-------------------------------------------------------------------------------
(* What each fold does. *)

\* The steps of each fold: what was accumulated of the subsets, of the first
\* elements and of the last ones.
SetSteps(c, base, S) ==
  \E g : /\ g[{}] = base
         /\ \A s \in SUBSET S : s # {} =>
              SomeOf(s) \in s /\ g[s] = FoldStep(c, SomeOf(s), g[s \ {SomeOf(s)}])
         /\ OverSet(c, base, S) = g[S]
LeftSteps(c, base, seq) ==
  \E g : /\ g[0] = base
         /\ \A k \in 1 .. Len(seq) : g[k] = FoldStep(c, seq[k], g[k - 1])
         /\ FromLeft(c, base, seq) = g[Len(seq)]
RightSteps(c, base, seq) ==
  \E g : /\ g[Len(seq) + 1] = base
         /\ \A k \in 1 .. Len(seq) : g[k] = FoldStep(c, seq[k], g[k + 1])
         /\ FromRight(c, base, seq) = g[1]

\* FoldSet takes one element after the other.
LEMMA SetFold ==
  ASSUME NEW c, NEW base, NEW S, IsFiniteSet(S)
  PROVE  SetSteps(c, base, S)
  <1> DEFINE pick == [s \in SUBSET S |-> SomeOf(s)]
             Is(g) == g = [s \in SUBSET S |->
                        IF s = {} THEN base ELSE FoldStep(c, SomeOf(s), g[s \ {SomeOf(s)}])]
             k == CHOOSE g : Is(g)
  <1>1. \A s : s # {} => SomeOf(s) \in s
    BY DEF SomeOf
  <1>2. Picks(pick, S)
    BY <1>1 DEF Picks
  <1>3. PICK g : IsFold(g, c, base, S, pick, pick)
    BY <1>2, FoldExists
  <1>4. Is(g)
    <2>1. \A s \in SUBSET S : pick[s] = SomeOf(s)
      OBVIOUS
    <2> HIDE DEF pick
    <2>2. [s \in SUBSET S |-> IF s = {} THEN base ELSE FoldStep(c, pick[s], g[s \ {pick[s]}])]
          = [s \in SUBSET S |-> IF s = {} THEN base ELSE FoldStep(c, SomeOf(s), g[s \ {SomeOf(s)}])]
      BY <2>1
    <2> QED
      BY <1>3, <2>2 DEF IsFold
  <1>5. Is(k)
    BY <1>4, Zenon
  <1>6. OverSet(c, base, S) = k[S]
    BY Zenon DEF OverSet
  <1> HIDE DEF k
  <1>7. \A s \in SUBSET S :
          k[s] = IF s = {} THEN base ELSE FoldStep(c, SomeOf(s), k[s \ {SomeOf(s)}])
    BY <1>5, Zenon
  <1>8. k[{}] = base
    BY <1>7
  <1> QED
    BY <1>1, <1>6, <1>7, <1>8 DEF SetSteps

\* The largest and the least number of a range that begins or ends a sequence.
LEMMA RangeEnds ==
  ASSUME NEW a \in Int, NEW b \in Int, a <= b
  PROVE  Largest(a .. b) = b /\ Least(a .. b) = a
  <1>1. \A x \in a .. b : (\A y \in a .. b : x >= y) => x = b
    OBVIOUS
  <1>2. \A x \in a .. b : (\A y \in a .. b : x <= y) => x = a
    OBVIOUS
  <1>3. Largest(a .. b) \in a .. b /\ \A y \in a .. b : Largest(a .. b) >= y
    <2>1. \E x \in a .. b : \A y \in a .. b : x >= y
      OBVIOUS
    <2> QED
      BY <2>1, Zenon DEF Largest
  <1>4. Least(a .. b) \in a .. b /\ \A y \in a .. b : Least(a .. b) <= y
    <2>1. \E x \in a .. b : \A y \in a .. b : x <= y
      OBVIOUS
    <2> QED
      BY <2>1, Zenon DEF Least
  <1> QED
    BY <1>1, <1>2, <1>3, <1>4

\* A finite set of integers that is not empty has a largest and a least one.
LEMMA Extremes ==
  ASSUME NEW n \in Nat, NEW s \in SUBSET (1 .. n), s # {}
  PROVE  Largest(s) \in s /\ Least(s) \in s
  <1>1. IsFiniteSet(s)
    <2>1. 1 \in Int /\ n \in Int
      OBVIOUS
    <2>2. IsFiniteSet(1 .. n)
      BY <2>1, FS_Interval
    <2> QED
      BY <2>2, FS_Subset
  <1>2. \E x \in s : \A y \in s : x >= y
    <2> DEFINE Bad == {t \in SUBSET s : t # {} /\ ~\E x \in t : \A y \in t : x >= y}
    <2>1. Bad = {}
      <3> SUFFICES ASSUME Bad # {} PROVE FALSE
        OBVIOUS
      <3>1. PICK m \in Bad : \A y \in SUBSET m : y # m => y \notin Bad
        <4>1. Bad \in SUBSET SUBSET s
          OBVIOUS
        <4> HIDE DEF Bad
        <4> QED
          BY <1>1, <4>1, SmallestSubset
      <3>2. PICK x \in m : TRUE
        BY <3>1
      <3>3. CASE m \ {x} = {}
        BY <3>1, <3>2, <3>3
      <3>4. CASE m \ {x} # {}
        <4>1. PICK z \in m \ {x} : \A y \in m \ {x} : z >= y
          BY <3>1, <3>2, <3>4
        <4>2. x \in Int /\ \A y \in m : y \in Int
          BY <3>1, <3>2
        <4>3. CASE z >= x
          BY <3>1, <4>1, <4>2, <4>3
        <4>4. CASE ~(z >= x)
          <5>1. \A y \in m : x >= y
            BY <4>1, <4>2, <4>4
          <5> QED
            BY <3>1, <3>2, <5>1
        <4> QED
          BY <4>3, <4>4
      <3> QED
        BY <3>3, <3>4
    <2> QED
      BY <2>1
  <1>3. \E x \in s : \A y \in s : x <= y
    <2> DEFINE Bad == {t \in SUBSET s : t # {} /\ ~\E x \in t : \A y \in t : x <= y}
    <2>1. Bad = {}
      <3> SUFFICES ASSUME Bad # {} PROVE FALSE
        OBVIOUS
      <3>1. PICK m \in Bad : \A y \in SUBSET m : y # m => y \notin Bad
        <4>1. Bad \in SUBSET SUBSET s
          OBVIOUS
        <4> HIDE DEF Bad
        <4> QED
          BY <1>1, <4>1, SmallestSubset
      <3>2. PICK x \in m : TRUE
        BY <3>1
      <3>3. CASE m \ {x} = {}
        BY <3>1, <3>2, <3>3
      <3>4. CASE m \ {x} # {}
        <4>1. PICK z \in m \ {x} : \A y \in m \ {x} : z <= y
          BY <3>1, <3>2, <3>4
        <4>2. x \in Int /\ \A y \in m : y \in Int
          BY <3>1, <3>2
        <4>3. CASE z <= x
          BY <3>1, <4>1, <4>2, <4>3
        <4>4. CASE ~(z <= x)
          <5>1. \A y \in m : x <= y
            BY <4>1, <4>2, <4>4
          <5> QED
            BY <3>1, <3>2, <5>1
        <4> QED
          BY <4>3, <4>4
      <3> QED
        BY <3>3, <3>4
    <2> QED
      BY <2>1
  <1>4. Largest(s) \in s
    BY <1>2, Zenon DEF Largest
  <1>5. Least(s) \in s
    BY <1>3, Zenon DEF Least
  <1> QED
    BY <1>4, <1>5

\* FoldLeft takes the elements from the first on.
LEMMA LeftFold ==
  ASSUME NEW c, NEW base, NEW V, NEW seq \in Seq(V)
  PROVE  LeftSteps(c, base, seq)
  <1> DEFINE D == DOMAIN seq
             pick == [s \in SUBSET D |-> Largest(s)]
             val == [s \in SUBSET D |-> seq[Largest(s)]]
             Is(g) == g = [s \in SUBSET DOMAIN seq |->
                        IF s = {} THEN base ELSE FoldStep(c, seq[Largest(s)], g[s \ {Largest(s)}])]
             k == CHOOSE g : Is(g)
             n == Len(seq)
  <1>1. D = 1 .. n /\ n \in Nat
    OBVIOUS
  <1>2. Picks(pick, D) /\ IsFiniteSet(D)
    <2>1. 1 \in Int /\ n \in Int
      BY <1>1
    <2>2. IsFiniteSet(1 .. n)
      BY <2>1, FS_Interval
    <2>3. \A s \in SUBSET D : s # {} => pick[s] \in s
      BY <1>1, Extremes
    <2> QED
      BY <1>1, <2>2, <2>3 DEF Picks
  <1>3. PICK g : IsFold(g, c, base, D, pick, val)
    BY <1>2, FoldExists
  <1>4. Is(g)
    <2>1. \A s \in SUBSET D : pick[s] = Largest(s) /\ val[s] = seq[Largest(s)]
      OBVIOUS
    <2> HIDE DEF pick, val
    <2>2. [s \in SUBSET D |-> IF s = {} THEN base ELSE FoldStep(c, val[s], g[s \ {pick[s]}])]
          = [s \in SUBSET D |-> IF s = {} THEN base
                                ELSE FoldStep(c, seq[Largest(s)], g[s \ {Largest(s)}])]
      BY <2>1
    <2> QED
      BY <1>3, <2>2 DEF IsFold
  <1>5. Is(k)
    BY <1>4, Zenon
  <1>6. FromLeft(c, base, seq) = k[D]
    BY Zenon DEF FromLeft
  <1> HIDE DEF k
  <1>7. \A s \in SUBSET D :
          k[s] = IF s = {} THEN base ELSE FoldStep(c, seq[Largest(s)], k[s \ {Largest(s)}])
    BY <1>5, Zenon
  <1> DEFINE f == [j \in 0 .. n |-> k[1 .. j]]
  <1> HIDE DEF D, Is
  <1>8. f[0] = base
    <2>1. 1 .. 0 = {} /\ {} \in SUBSET D /\ 0 \in 0 .. n
      BY <1>1
    <2>2. f[0] = k[1 .. 0]
      BY <2>1
    <2> QED
      BY <1>7, <2>1, <2>2
  <1>9. ASSUME NEW j \in 1 .. n
        PROVE  f[j] = FoldStep(c, seq[j], f[j - 1])
    <2>1. Largest(1 .. j) = j
      BY <1>1, RangeEnds
    <2>2. (1 .. j) \ {j} = 1 .. (j - 1) /\ 1 .. j # {} /\ 1 .. j \in SUBSET D
      <3>1. j \in Int /\ 1 <= j /\ j <= n /\ n \in Int
        BY <1>1
      <3>2. j \in 1 .. j /\ 1 .. j \subseteq 1 .. n
        BY <3>1
      <3>3. \A i \in (1 .. j) \ {j} : i \in 1 .. (j - 1)
        BY <3>1
      <3>4. \A i \in 1 .. (j - 1) : i \in (1 .. j) \ {j}
        BY <3>1
      <3> QED
        BY <1>1, <3>2, <3>3, <3>4
    <2>3. f[j] = k[1 .. j] /\ f[j - 1] = k[1 .. (j - 1)]
      <3>1. j \in 0 .. n /\ j - 1 \in 0 .. n
        BY <1>1
      <3> QED
        BY <3>1
    <2> HIDE DEF f
    <2> QED
      BY <1>7, <2>1, <2>2, <2>3
  <1>10. FromLeft(c, base, seq) = f[n]
    BY <1>1, <1>6
  <1> HIDE DEF f
  <1> QED
    BY <1>8, <1>9, <1>10 DEF LeftSteps

\* FoldRight takes the elements from the last on.
LEMMA RightFold ==
  ASSUME NEW c, NEW base, NEW V, NEW seq \in Seq(V)
  PROVE  RightSteps(c, base, seq)
  <1> DEFINE D == DOMAIN seq
             pick == [s \in SUBSET D |-> Least(s)]
             val == [s \in SUBSET D |-> seq[Least(s)]]
             Is(g) == g = [s \in SUBSET DOMAIN seq |->
                        IF s = {} THEN base ELSE FoldStep(c, seq[Least(s)], g[s \ {Least(s)}])]
             k == CHOOSE g : Is(g)
             n == Len(seq)
  <1>1. D = 1 .. n /\ n \in Nat
    OBVIOUS
  <1>2. Picks(pick, D) /\ IsFiniteSet(D)
    <2>1. 1 \in Int /\ n \in Int
      BY <1>1
    <2>2. IsFiniteSet(1 .. n)
      BY <2>1, FS_Interval
    <2>3. \A s \in SUBSET D : s # {} => pick[s] \in s
      BY <1>1, Extremes
    <2> QED
      BY <1>1, <2>2, <2>3 DEF Picks
  <1>3. PICK g : IsFold(g, c, base, D, pick, val)
    BY <1>2, FoldExists
  <1>4. Is(g)
    <2>1. \A s \in SUBSET D : pick[s] = Least(s) /\ val[s] = seq[Least(s)]
      OBVIOUS
    <2> HIDE DEF pick, val
    <2>2. [s \in SUBSET D |-> IF s = {} THEN base ELSE FoldStep(c, val[s], g[s \ {pick[s]}])]
          = [s \in SUBSET D |-> IF s = {} THEN base
                                ELSE FoldStep(c, seq[Least(s)], g[s \ {Least(s)}])]
      BY <2>1
    <2> QED
      BY <1>3, <2>2 DEF IsFold
  <1>5. Is(k)
    BY <1>4, Zenon
  <1>6. FromRight(c, base, seq) = k[D]
    BY Zenon DEF FromRight
  <1> HIDE DEF k
  <1>7. \A s \in SUBSET D :
          k[s] = IF s = {} THEN base ELSE FoldStep(c, seq[Least(s)], k[s \ {Least(s)}])
    BY <1>5, Zenon
  <1> DEFINE f == [j \in 1 .. n + 1 |-> k[j .. n]]
  <1> HIDE DEF D, Is
  <1>8. f[n + 1] = base
    <2>1. (n + 1) .. n = {} /\ {} \in SUBSET D /\ n + 1 \in 1 .. n + 1
      BY <1>1
    <2>2. f[n + 1] = k[(n + 1) .. n]
      BY <2>1
    <2> QED
      BY <1>7, <2>1, <2>2
  <1>9. ASSUME NEW j \in 1 .. n
        PROVE  f[j] = FoldStep(c, seq[j], f[j + 1])
    <2>1. Least(j .. n) = j
      BY <1>1, RangeEnds
    <2>2. (j .. n) \ {j} = (j + 1) .. n /\ j .. n # {} /\ j .. n \in SUBSET D
      BY <1>1
    <2>3. f[j] = k[j .. n] /\ f[j + 1] = k[(j + 1) .. n]
      BY <1>1
    <2> HIDE DEF f
    <2> QED
      BY <1>7, <2>1, <2>2, <2>3
  <1>10. FromRight(c, base, seq) = f[1]
    BY <1>1, <1>6
  <1> HIDE DEF f
  <1> QED
    BY <1>8, <1>9, <1>10 DEF RightSteps

-------------------------------------------------------------------------------
(* Sums over finite sets: what SumFunctionOnSet of the community modules     *)
(* adds up, for every set and every function.  The byte counts of the        *)
(* runtime are such sums.                                                    *)

\* The recursion that SumFunctionOnSet stands for.
IsSum(g, f, S) ==
  g = [s \in SUBSET S |-> IF s = {} THEN 0 ELSE f[SomeOf(s)] + g[s \ {SomeOf(s)}]]

\* The sum is the value of a fold, which picks one element after the other.
LEMMA SumIsFold ==
  ASSUME NEW f, NEW S
  PROVE  SumFunctionOnSet(f, S) = (CHOOSE g : IsSum(g, f, S))[S]
  BY Zenon DEF SumFunctionOnSet, FoldFunctionOnSet, MapThenFoldSet, IsSum, SomeOf

\* The element that is picked is in the set.
LEMMA SomeOfIn ==
  ASSUME NEW s, s # {}
  PROVE  SomeOf(s) \in s
  BY DEF SomeOf

\* Recursions over two sets agree on the smaller one.
LEMMA SumUnique ==
  ASSUME NEW f, NEW S, IsFiniteSet(S), NEW T, S \subseteq T,
         NEW g, IsSum(g, f, S), NEW h, IsSum(h, f, T)
  PROVE  g[S] = h[S]
  <1> DEFINE Bad == {s \in SUBSET S : g[s] # h[s]}
  <1>1. /\ \A s \in SUBSET S : g[s] = IF s = {} THEN 0 ELSE f[SomeOf(s)] + g[s \ {SomeOf(s)}]
        /\ \A s \in SUBSET S : h[s] = IF s = {} THEN 0 ELSE f[SomeOf(s)] + h[s \ {SomeOf(s)}]
    BY Zenon DEF IsSum
  <1>2. Bad = {}
    <2> SUFFICES ASSUME Bad # {} PROVE FALSE
      OBVIOUS
    <2>1. PICK m \in Bad : \A y \in SUBSET m : y # m => y \notin Bad
      <3>1. Bad \in SUBSET SUBSET S
        OBVIOUS
      <3> HIDE DEF Bad
      <3> QED
        BY <3>1, SmallestSubset
    <2>2. m # {}
      BY <1>1, <2>1
    <2>3. SomeOf(m) \in m
      BY <2>2, SomeOfIn
    <2>4. g[m \ {SomeOf(m)}] = h[m \ {SomeOf(m)}]
      BY <2>1, <2>3
    <2> QED
      BY <1>1, <2>1, <2>2, <2>4
  <1> QED
    BY <1>2

\* There is such a recursion.
LEMMA SumExists ==
  ASSUME NEW f, NEW S, IsFiniteSet(S)
  PROVE  \E g : IsSum(g, f, S)
  <1> DEFINE Bad == {s \in SUBSET S : ~\E g : IsSum(g, f, s)}
  <1>1. Bad = {}
    <2> SUFFICES ASSUME Bad # {} PROVE FALSE
      OBVIOUS
    <2>1. PICK m \in Bad : \A y \in SUBSET m : y # m => y \notin Bad
      <3>1. Bad \in SUBSET SUBSET S
        OBVIOUS
      <3> HIDE DEF Bad
      <3> QED
        BY <3>1, SmallestSubset
    <2> DEFINE k(s) == CHOOSE g : IsSum(g, f, s)
               rest(s) == s \ {SomeOf(s)}
               g == [s \in SUBSET m |-> IF s = {} THEN 0 ELSE f[SomeOf(s)] + k(rest(s))[rest(s)]]
    <2>2. ASSUME NEW s \in SUBSET m, s # m
          PROVE  IsSum(k(s), f, s) /\ IsFiniteSet(s)
      <3>1. \E h : IsSum(h, f, s)
        BY <2>1, <2>2
      <3>2. IsSum(k(s), f, s)
        BY <3>1, Zenon
      <3>3. IsFiniteSet(s)
        BY <2>1, FS_Subset
      <3> QED
        BY <3>2, <3>3
    <2>3. ASSUME NEW s \in SUBSET m, s # {}
          PROVE  rest(s) \in SUBSET m /\ rest(s) # m /\ rest(s) # s
      BY <2>3, SomeOfIn
    <2> HIDE DEF k
    <2>4. ASSUME NEW s \in SUBSET m, s # {}
          PROVE  g[rest(s)] = k(rest(s))[rest(s)]
      <3> DEFINE u == rest(s)
      <3>1. u \in SUBSET m /\ u # m
        BY <2>3, <2>4
      <3>2. IsSum(k(u), f, u)
        BY <2>2, <3>1
      <3> HIDE DEF u
      <3>3. k(u)[u] = IF u = {} THEN 0 ELSE f[SomeOf(u)] + k(u)[rest(u)]
        <4>1. \A t \in SUBSET u : k(u)[t] = IF t = {} THEN 0 ELSE f[SomeOf(t)] + k(u)[rest(t)]
          BY <3>2, Zenon DEF IsSum
        <4>2. u \in SUBSET u
          OBVIOUS
        <4> QED
          BY <4>1, <4>2
      <3>4. g[u] = IF u = {} THEN 0 ELSE f[SomeOf(u)] + k(rest(u))[rest(u)]
        BY <3>1
      <3>5. ASSUME u # {}
            PROVE  k(rest(u))[rest(u)] = k(u)[rest(u)]
        <4>1. rest(u) \in SUBSET m /\ rest(u) # m /\ rest(u) \subseteq u
          BY <2>3, <3>1, <3>5
        <4>2. IsSum(k(rest(u)), f, rest(u)) /\ IsFiniteSet(rest(u))
          BY <2>2, <4>1
        <4> HIDE DEF rest
        <4> QED
          BY <3>2, <4>1, <4>2, SumUnique
      <3>6. g[u] = k(u)[u]
        BY <3>3, <3>4, <3>5
      <3> QED
        BY <3>6 DEF u
    <2>5. g = [s \in SUBSET m |-> IF s = {} THEN 0 ELSE f[SomeOf(s)] + g[rest(s)]]
      <3>1. \A s \in SUBSET m : (IF s = {} THEN 0 ELSE f[SomeOf(s)] + k(rest(s))[rest(s)])
                              = (IF s = {} THEN 0 ELSE f[SomeOf(s)] + g[rest(s)])
        BY <2>4
      <3> QED
        BY <3>1
    <2>6. IsSum(g, f, m)
      BY <2>5 DEF IsSum
    <2> QED
      BY <2>1, <2>6
  <1> QED
    BY <1>1

\* The sum over a set that is not empty, with the element that is taken first.
LEMMA SumPicked ==
  ASSUME NEW f, NEW S, IsFiniteSet(S), S # {}
  PROVE  SumFunctionOnSet(f, S) = f[SomeOf(S)] + SumFunctionOnSet(f, S \ {SomeOf(S)})
  <1> DEFINE G(s) == CHOOSE g : IsSum(g, f, s)
             rest == S \ {SomeOf(S)}
  <1>1. IsFiniteSet(rest) /\ rest \subseteq S
    BY FS_Subset
  <1>2. IsSum(G(S), f, S)
    BY SumExists, Zenon
  <1>3. IsSum(G(rest), f, rest)
    <2>1. \E g : IsSum(g, f, rest)
      BY <1>1, SumExists
    <2> QED
      BY <2>1, Zenon
  <1>4. SumFunctionOnSet(f, S) = G(S)[S] /\ SumFunctionOnSet(f, rest) = G(rest)[rest]
    BY SumIsFold
  <1> HIDE DEF G, rest
  <1>5. G(rest)[rest] = G(S)[rest]
    BY <1>1, <1>2, <1>3, SumUnique
  <1>6. G(S)[S] = f[SomeOf(S)] + G(S)[rest]
    <2>1. \A s \in SUBSET S : G(S)[s] =
            IF s = {} THEN 0 ELSE f[SomeOf(s)] + G(S)[s \ {SomeOf(s)}]
      BY <1>2, Zenon DEF IsSum
    <2>2. S \in SUBSET S
      OBVIOUS
    <2> QED
      BY <2>1, <2>2 DEF rest
  <1> QED
    BY <1>4, <1>5, <1>6 DEF rest

\* The sum of nothing.
LEMMA SumEmpty ==
  ASSUME NEW f
  PROVE  SumFunctionOnSet(f, {}) = 0
  <1> DEFINE g == CHOOSE g : IsSum(g, f, {})
  <1>1. IsSum(g, f, {})
    BY SumExists, FS_EmptySet, Zenon
  <1>2. SumFunctionOnSet(f, {}) = g[{}]
    BY SumIsFold
  <1> HIDE DEF g
  <1>3. \A s \in SUBSET {} : g[s] = IF s = {} THEN 0 ELSE f[SomeOf(s)] + g[s \ {SomeOf(s)}]
    BY <1>1, Zenon DEF IsSum
  <1> QED
    BY <1>2, <1>3

\* A sum of integers is an integer.
LEMMA SumType ==
  ASSUME NEW f, NEW S, IsFiniteSet(S), \A x \in S : f[x] \in Int
  PROVE  SumFunctionOnSet(f, S) \in Int
  <1> DEFINE Bad == {s \in SUBSET S : SumFunctionOnSet(f, s) \notin Int}
  <1>1. Bad = {}
    <2> SUFFICES ASSUME Bad # {} PROVE FALSE
      OBVIOUS
    <2>1. PICK m \in Bad : \A y \in SUBSET m : y # m => y \notin Bad
      <3>1. Bad \in SUBSET SUBSET S
        OBVIOUS
      <3> HIDE DEF Bad
      <3> QED
        BY <3>1, SmallestSubset
    <2>2. m # {} /\ IsFiniteSet(m)
      <3>1. SumFunctionOnSet(f, {}) = 0
        BY SumEmpty
      <3>2. {} \notin Bad
        BY <3>1
      <3>3. m \in SUBSET S
        BY <2>1
      <3> QED
        BY <2>1, <3>2, <3>3, FS_Subset
    <2>3. SomeOf(m) \in m
      BY <2>2, SomeOfIn
    <2>4. SumFunctionOnSet(f, m \ {SomeOf(m)}) \in Int
      BY <2>1, <2>3
    <2>5. SumFunctionOnSet(f, m) = f[SomeOf(m)] + SumFunctionOnSet(f, m \ {SomeOf(m)})
      BY <2>2, SumPicked
    <2> QED
      BY <2>1, <2>3, <2>4, <2>5
  <1> QED
    BY <1>1

\* The elements may be taken in any order.
LEMMA SumRemove ==
  ASSUME NEW f, NEW S, IsFiniteSet(S), \A x \in S : f[x] \in Int, NEW e \in S
  PROVE  SumFunctionOnSet(f, S) = f[e] + SumFunctionOnSet(f, S \ {e})
  <1> DEFINE Sum(s) == SumFunctionOnSet(f, s)
             Bad == {s \in SUBSET S : \E x \in s : Sum(s) # f[x] + Sum(s \ {x})}
  <1>1. Bad = {}
    <2> SUFFICES ASSUME Bad # {} PROVE FALSE
      OBVIOUS
    <2>1. PICK m \in Bad : \A y \in SUBSET m : y # m => y \notin Bad
      <3>1. Bad \in SUBSET SUBSET S
        OBVIOUS
      <3> HIDE DEF Bad
      <3> QED
        BY <3>1, SmallestSubset
    <2>2. PICK x \in m : Sum(m) # f[x] + Sum(m \ {x})
      BY <2>1
    <2> DEFINE c == SomeOf(m)
    <2>3. m # {} /\ m \in SUBSET S /\ c \in m
      BY <2>1, <2>2, SomeOfIn
    <2>4. \A s \in SUBSET S : IsFiniteSet(s) /\ Sum(s) \in Int
      BY FS_Subset, SumType
    <2>5. Sum(m) = f[c] + Sum(m \ {c})
      BY <2>3, <2>4, SumPicked
    <2>6. x # c
      BY <2>2, <2>5
    <2>7. ASSUME NEW s \in SUBSET m, s # m, NEW y \in s
          PROVE  Sum(s) = f[y] + Sum(s \ {y})
      BY <2>1, <2>3, <2>7
    <2> HIDE DEF c
    <2>8. Sum(m \ {c}) = f[x] + Sum((m \ {c}) \ {x})
      BY <2>3, <2>6, <2>7
    <2>9. Sum(m \ {x}) = f[c] + Sum((m \ {x}) \ {c})
      BY <2>3, <2>6, <2>7
    <2>10. (m \ {c}) \ {x} = (m \ {x}) \ {c} /\ (m \ {c}) \ {x} \in SUBSET S
      BY <2>3
    <2> QED
      BY <2>2, <2>3, <2>4, <2>5, <2>8, <2>9, <2>10
  <1> QED
    BY <1>1

\* A sum depends on the values over its set only.
LEMMA SumSame ==
  ASSUME NEW f, NEW h, NEW S, IsFiniteSet(S), \A x \in S : f[x] = h[x]
  PROVE  SumFunctionOnSet(f, S) = SumFunctionOnSet(h, S)
  <1> DEFINE Bad == {s \in SUBSET S : SumFunctionOnSet(f, s) # SumFunctionOnSet(h, s)}
  <1>1. Bad = {}
    <2> SUFFICES ASSUME Bad # {} PROVE FALSE
      OBVIOUS
    <2>1. PICK m \in Bad : \A y \in SUBSET m : y # m => y \notin Bad
      <3>1. Bad \in SUBSET SUBSET S
        OBVIOUS
      <3> HIDE DEF Bad
      <3> QED
        BY <3>1, SmallestSubset
    <2>2. m # {} /\ IsFiniteSet(m)
      BY <2>1, SumEmpty, FS_Subset
    <2>3. SomeOf(m) \in m
      BY <2>2, SomeOfIn
    <2>4. SumFunctionOnSet(f, m \ {SomeOf(m)}) = SumFunctionOnSet(h, m \ {SomeOf(m)})
      BY <2>1, <2>3
    <2>5. /\ SumFunctionOnSet(f, m) = f[SomeOf(m)] + SumFunctionOnSet(f, m \ {SomeOf(m)})
          /\ SumFunctionOnSet(h, m) = h[SomeOf(m)] + SumFunctionOnSet(h, m \ {SomeOf(m)})
      BY <2>2, SumPicked
    <2> QED
      BY <2>1, <2>3, <2>4, <2>5
  <1> QED
    BY <1>1

\* Sums are added element by element.
LEMMA SumAdd ==
  ASSUME NEW f, NEW h, NEW g, NEW S, IsFiniteSet(S),
         \A x \in S : f[x] \in Int /\ h[x] \in Int /\ g[x] = f[x] + h[x]
  PROVE  SumFunctionOnSet(g, S) = SumFunctionOnSet(f, S) + SumFunctionOnSet(h, S)
  <1> DEFINE F(s) == SumFunctionOnSet(f, s)
             H(s) == SumFunctionOnSet(h, s)
             G(s) == SumFunctionOnSet(g, s)
             Bad == {s \in SUBSET S : G(s) # F(s) + H(s)}
  <1>1. Bad = {}
    <2> SUFFICES ASSUME Bad # {} PROVE FALSE
      OBVIOUS
    <2>1. PICK m \in Bad : \A y \in SUBSET m : y # m => y \notin Bad
      <3>1. Bad \in SUBSET SUBSET S
        OBVIOUS
      <3> HIDE DEF Bad
      <3> QED
        BY <3>1, SmallestSubset
    <2>2. m # {} /\ IsFiniteSet(m)
      <3>1. F({}) = 0 /\ H({}) = 0 /\ G({}) = 0
        BY SumEmpty
      <3>2. {} \notin Bad
        BY <3>1
      <3>3. m \in SUBSET S
        BY <2>1
      <3> QED
        BY <2>1, <3>2, <3>3, FS_Subset
    <2> DEFINE c == SomeOf(m)
               rest == m \ {c}
    <2>3. c \in m /\ m \in SUBSET S
      BY <2>1, <2>2, SomeOfIn
    <2>4. G(rest) = F(rest) + H(rest)
      BY <2>1, <2>3
    <2>5. F(m) = f[c] + F(rest) /\ H(m) = h[c] + H(rest) /\ G(m) = g[c] + G(rest)
      BY <2>2, SumPicked
    <2>6. F(rest) \in Int /\ H(rest) \in Int
      <3>1. IsFiniteSet(rest) /\ rest \subseteq S
        BY <2>2, <2>3, FS_Subset
      <3> QED
        BY <3>1, SumType
    <2>7. f[c] \in Int /\ h[c] \in Int /\ g[c] = f[c] + h[c]
      BY <2>3
    <2>8. G(m) # F(m) + H(m)
      BY <2>1
    <2> HIDE DEF F, G, H, c, rest
    <2> QED
      BY <2>4, <2>5, <2>6, <2>7, <2>8
  <1> QED
    BY <1>1

\* A sum over two sets without a common element.
LEMMA SumUnion ==
  ASSUME NEW f, NEW S, IsFiniteSet(S), NEW T, IsFiniteSet(T), S \cap T = {},
         \A x \in S \cup T : f[x] \in Int
  PROVE  SumFunctionOnSet(f, S \cup T) = SumFunctionOnSet(f, S) + SumFunctionOnSet(f, T)
  <1> DEFINE Sum(s) == SumFunctionOnSet(f, s)
             Bad == {s \in SUBSET S : Sum(s \cup T) # Sum(s) + Sum(T)}
  <1>1. Bad = {}
    <2> SUFFICES ASSUME Bad # {} PROVE FALSE
      OBVIOUS
    <2>1. PICK m \in Bad : \A y \in SUBSET m : y # m => y \notin Bad
      <3>1. Bad \in SUBSET SUBSET S
        OBVIOUS
      <3> HIDE DEF Bad
      <3> QED
        BY <3>1, SmallestSubset
    <2>2. Sum(T) \in Int
      BY SumType
    <2>3. m # {}
      <3>1. Sum({} \cup T) = Sum({}) + Sum(T)
        <4>1. {} \cup T = T
          OBVIOUS
        <4> QED
          BY <2>2, <4>1, SumEmpty
      <3> QED
        BY <2>1, <3>1
    <2>4. PICK e \in m : TRUE
      BY <2>3
    <2> DEFINE rest == m \ {e}
    <2>5. m \in SUBSET S /\ rest \in SUBSET m /\ rest # m
      BY <2>1, <2>4
    <2>6. Sum(rest \cup T) = Sum(rest) + Sum(T)
      BY <2>1, <2>5
    <2>7. Sum(m) = f[e] + Sum(rest) /\ Sum(rest) \in Int /\ f[e] \in Int
      <3>1. IsFiniteSet(m) /\ IsFiniteSet(rest) /\ \A x \in m : f[x] \in Int
        BY <2>5, FS_Subset
      <3> QED
        BY <2>4, <3>1, SumRemove, SumType
    <2>8. Sum(m \cup T) = f[e] + Sum(rest \cup T)
      <3>1. IsFiniteSet(m \cup T) /\ \A x \in m \cup T : f[x] \in Int
        BY <2>5, FS_Subset, FS_Union
      <3>2. (m \cup T) \ {e} = rest \cup T /\ e \in m \cup T
        BY <2>4, <2>5
      <3> QED
        BY <3>1, <3>2, SumRemove
    <2>9. Sum(m \cup T) # Sum(m) + Sum(T)
      BY <2>1
    <2> HIDE DEF Sum, rest
    <2> QED
      BY <2>2, <2>6, <2>7, <2>8, <2>9
  <1> QED
    BY <1>1

\* A sum of naturals is one.
LEMMA SumNatural ==
  ASSUME NEW f, NEW S, IsFiniteSet(S), \A x \in S : f[x] \in Nat
  PROVE  SumFunctionOnSet(f, S) \in Nat
  <1> DEFINE Bad == {s \in SUBSET S : SumFunctionOnSet(f, s) \notin Nat}
  <1>1. Bad = {}
    <2> SUFFICES ASSUME Bad # {} PROVE FALSE
      OBVIOUS
    <2>1. PICK m \in Bad : \A y \in SUBSET m : y # m => y \notin Bad
      <3>1. Bad \in SUBSET SUBSET S
        OBVIOUS
      <3> HIDE DEF Bad
      <3> QED
        BY <3>1, SmallestSubset
    <2>2. m # {} /\ IsFiniteSet(m)
      <3>1. SumFunctionOnSet(f, {}) = 0
        BY SumEmpty
      <3>2. {} \notin Bad
        BY <3>1
      <3>3. m \in SUBSET S
        BY <2>1
      <3> QED
        BY <2>1, <3>2, <3>3, FS_Subset
    <2>3. SomeOf(m) \in m
      BY <2>2, SomeOfIn
    <2>4. SumFunctionOnSet(f, m \ {SomeOf(m)}) \in Nat
      BY <2>1, <2>3
    <2>5. SumFunctionOnSet(f, m) = f[SomeOf(m)] + SumFunctionOnSet(f, m \ {SomeOf(m)})
      BY <2>2, SumPicked
    <2> QED
      BY <2>1, <2>3, <2>4, <2>5
  <1> QED
    BY <1>1

\* One summand that is changed changes the sum by the difference.
LEMMA SumOne ==
  ASSUME NEW f, NEW h, NEW S, IsFiniteSet(S), NEW e \in S,
         \A x \in S : f[x] \in Int /\ h[x] \in Int,
         \A x \in S \ {e} : h[x] = f[x]
  PROVE  SumFunctionOnSet(h, S) = SumFunctionOnSet(f, S) + (h[e] - f[e])
  <1> DEFINE rest == S \ {e}
  <1>1. IsFiniteSet(rest) /\ \A x \in rest : f[x] \in Int
    BY FS_Subset
  <1>2. /\ SumFunctionOnSet(f, S) = f[e] + SumFunctionOnSet(f, rest)
        /\ SumFunctionOnSet(h, S) = h[e] + SumFunctionOnSet(h, rest)
    BY SumRemove
  <1>3. SumFunctionOnSet(h, rest) = SumFunctionOnSet(f, rest)
    BY <1>1, SumSame
  <1>4. SumFunctionOnSet(f, rest) \in Int /\ f[e] \in Int /\ h[e] \in Int
    BY <1>1, SumType
  <1> QED
    BY <1>2, <1>3, <1>4

\* Summands that are 0 do not count.
LEMMA SumZero ==
  ASSUME NEW f, NEW S, IsFiniteSet(S), \A x \in S : f[x] = 0
  PROVE  SumFunctionOnSet(f, S) = 0
  <1>1. \A x \in S : f[x] \in Int /\ f[x] = f[x] + f[x]
    OBVIOUS
  <1>2. SumFunctionOnSet(f, S) = SumFunctionOnSet(f, S) + SumFunctionOnSet(f, S)
    BY <1>1, SumAdd
  <1>3. SumFunctionOnSet(f, S) \in Int
    BY <1>1, SumType
  <1>4. \A a \in Int : a = a + a => a = 0
    OBVIOUS
  <1> QED
    BY <1>2, <1>3, <1>4

\* A sum over a part of a set as a sum over the set.
LEMMA SumWithin ==
  ASSUME NEW f, NEW h, NEW S, IsFiniteSet(S), NEW T \in SUBSET S,
         \A x \in T : f[x] \in Int,
         \A x \in S : h[x] = IF x \in T THEN f[x] ELSE 0
  PROVE  SumFunctionOnSet(h, S) = SumFunctionOnSet(f, T)
  <1> DEFINE R == S \ T
  <1>1. /\ IsFiniteSet(T) /\ IsFiniteSet(R) /\ T \cap R = {} /\ T \cup R = S
        /\ \A x \in S : h[x] \in Int
    BY FS_Subset
  <1>2. SumFunctionOnSet(h, S) = SumFunctionOnSet(h, T) + SumFunctionOnSet(h, R)
    <2> HIDE DEF R
    <2>1. \A x \in T \cup R : h[x] \in Int
      BY <1>1
    <2>2. SumFunctionOnSet(h, T \cup R) = SumFunctionOnSet(h, T) + SumFunctionOnSet(h, R)
      BY <1>1, <2>1, SumUnion
    <2> QED
      BY <1>1, <2>2
  <1>3. SumFunctionOnSet(h, T) = SumFunctionOnSet(f, T)
    BY <1>1, SumSame
  <1>4. SumFunctionOnSet(h, R) = 0
    <2>1. \A x \in R : h[x] = 0
      OBVIOUS
    <2> HIDE DEF R
    <2> QED
      BY <1>1, <2>1, SumZero
  <1>5. SumFunctionOnSet(f, T) \in Int
    BY <1>1, SumType
  <1> QED
    BY <1>2, <1>3, <1>4, <1>5

\* The sum of naturals over a part of a set is at most that over the set.
LEMMA SumPart ==
  ASSUME NEW f, NEW S, IsFiniteSet(S), NEW T \in SUBSET S, \A x \in S : f[x] \in Nat
  PROVE  SumFunctionOnSet(f, T) <= SumFunctionOnSet(f, S)
  <1> DEFINE R == S \ T
  <1>1. /\ IsFiniteSet(T) /\ IsFiniteSet(R) /\ T \cap R = {} /\ T \cup R = S
        /\ \A x \in T : f[x] \in Nat
        /\ \A x \in R : f[x] \in Nat
    BY FS_Subset
  <1> HIDE DEF R
  <1>2. SumFunctionOnSet(f, T) \in Nat /\ SumFunctionOnSet(f, R) \in Nat
    BY <1>1, SumNatural
  <1>3. SumFunctionOnSet(f, T \cup R) = SumFunctionOnSet(f, T) + SumFunctionOnSet(f, R)
    <2>1. \A x \in T \cup R : f[x] \in Int
      BY <1>1
    <2> QED
      BY <1>1, <2>1, SumUnion
  <1>4. SumFunctionOnSet(f, S) = SumFunctionOnSet(f, T) + SumFunctionOnSet(f, R)
    BY <1>1, <1>3, Zenon
  <1> QED
    BY <1>2, <1>4

\* A finite set of integers that is not empty has a greatest one.
LEMMA Greatest ==
  ASSUME NEW S \in SUBSET Int, IsFiniteSet(S), S # {}
  PROVE  \E m \in S : \A x \in S : m >= x
  <1> DEFINE Bad == {s \in SUBSET S : s # {} /\ ~\E m \in s : \A x \in s : m >= x}
  <1>1. Bad = {}
    <2> SUFFICES ASSUME Bad # {} PROVE FALSE
      OBVIOUS
    <2>1. PICK s \in Bad : \A y \in SUBSET s : y # s => y \notin Bad
      <3>1. Bad \in SUBSET SUBSET S
        OBVIOUS
      <3> HIDE DEF Bad
      <3> QED
        BY <3>1, SmallestSubset
    <2>2. PICK e \in s : TRUE
      BY <2>1
    <2> DEFINE rest == s \ {e}
    <2>3. CASE rest = {}
      <3>1. \A x \in s : x = e /\ e \in Int
        BY <2>1, <2>3
      <3> QED
        BY <2>1, <2>2, <3>1
    <2>4. CASE rest # {}
      <3>1. PICK m \in rest : \A x \in rest : m >= x
        BY <2>1, <2>2, <2>4
      <3>2. m \in Int /\ e \in Int /\ m \in s /\ \A x \in s : x \in Int
        BY <2>1, <3>1
      <3>3. CASE m >= e
        <4>1. \A x \in s : m >= x
          BY <3>1, <3>3
        <4> QED
          BY <2>1, <3>2, <4>1
      <3>4. CASE e >= m
        <4>1. \A x \in s : e >= x
          BY <3>1, <3>2, <3>4
        <4> QED
          BY <2>1, <2>2, <4>1
      <3> QED
        BY <3>2, <3>3, <3>4
    <2> QED
      BY <2>3, <2>4
  <1> QED
    BY <1>1
================================================================================
