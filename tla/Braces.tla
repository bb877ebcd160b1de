-------------------------------- MODULE Braces --------------------------------
(***************************************************************************)
(* How many fields a brace expansion gives, counted before the library     *)
(* makes them (internal/runtime: materialization.go).  A sequence {a..b..c}*)
(* is run by the library with numbers of Width bits, so what is counted    *)
(* has to be what its loop does, and the loop has to end.                  *)
(*                                                                         *)
(* A word is a sequence of parts: [brace |-> "lit", bytes],                *)
(* [brace |-> "alternatives", elems] of words, and [brace |-> "sequence",  *)
(* from, to, by, zeros], by = 0 where none is given, zeros the width of    *)
(* the longest run of leading zeros.                                       *)
(***************************************************************************)
EXTENDS Numbers

Largest  == 2^(Width - 1) - 1
Smallest == -(2^(Width - 1))

Counted(count, bytes) == [ok |-> TRUE, count |-> count, bytes |-> bytes]
TooMany == [ok |-> FALSE, count |-> 0, bytes |-> 0]

Bounded(n, maximum) == n <= maximum

\* addBraceAlternatives, multiplyBraceParts
AddAlternatives(l, r, maximum, entry) ==
  IF /\ Bounded(l.count + r.count, maximum \div entry)
     /\ Bounded(l.bytes + r.bytes, maximum)
  THEN Counted(l.count + r.count, l.bytes + r.bytes) ELSE TooMany
MultiplyParts(l, r, maximum, entry) ==
  IF /\ Bounded(l.count * r.count, maximum \div entry)
     /\ Bounded(l.bytes * r.count + r.bytes * l.count, maximum)
  THEN Counted(l.count * r.count, l.bytes * r.count + r.bytes * l.count) ELSE TooMany

Upward(b) == b.from <= b.to
Step(b)   == IF b.by # 0 /\ (b.by > 0 <=> Upward(b)) THEN b.by
             ELSE IF Upward(b) THEN 1 ELSE -1

\* parseBraceSequence: unsigned differences; Room is what is left beyond the
\* last number before the next one would wrap.
Distance(b) == Unsigned(IF Upward(b) THEN b.to - b.from ELSE b.from - b.to)
Stride(b)   == IF Step(b) < 0 THEN Unsigned(-(Step(b) + 1)) + 1 ELSE Step(b)
Room(b)     == Unsigned(IF Upward(b) THEN Largest - b.to ELSE b.to - Smallest)
                 + (Distance(b) % Stride(b))
\* Mutant: the sequence is taken to end at its last number exactly.
Accepts_ToTheEnd(b, maximum) ==
  maximum >= 1 /\ Distance(b) \div Stride(b) < maximum
Accepts(b, maximum) ==
  /\ maximum >= 1 /\ Distance(b) \div Stride(b) < maximum
  /\ Stride(b) <= Unsigned(Room(b))

\* braceSequenceMaterialization
Sequence(b, maximum, entry) ==
  IF ~Accepts(b, maximum \div entry) THEN TooMany
  ELSE LET count == (Distance(b) \div Stride(b)) + 1
           bytes == MapThenSumSet(LAMBDA i : b.zeros + Len(Format(b.from + i * Step(b))),
                                  0 .. count - 1)
       IN IF Bounded(bytes, maximum) THEN Counted(count, bytes) ELSE TooMany

\* splitBraceWordMaterialization
RECURSIVE WordCount(_, _, _)
WordCount(word, maximum, entry) ==
  LET Part(p) ==
        IF p.brace = "lit" THEN Counted(1, p.bytes)
        ELSE IF p.brace = "sequence" THEN Sequence(p, maximum, entry)
        ELSE FoldLeft(LAMBDA acc, w :
               LET r == WordCount(w, maximum, entry) IN
               IF acc.ok /\ r.ok THEN AddAlternatives(acc, r, maximum, entry) ELSE TooMany,
               Counted(0, 0), p.elems)
  IN FoldLeft(LAMBDA acc, p :
       LET r == Part(p) IN
       IF acc.ok /\ r.ok THEN MultiplyParts(acc, r, maximum, entry) ELSE TooMany,
       Counted(1, 0), word)

\* braceExpansionMaterialization, of a word that has braces
Materialization(word, maximum, entry) ==
  LET r == WordCount(word, maximum, entry) IN
  IF r.ok /\ Bounded(r.count * entry + r.bytes, maximum) THEN r ELSE TooMany
-------------------------------------------------------------------------------
(* The library: the fields it makes, each as its number of bytes. *)

\* A loop that is still going after so many turns has come around.
Turns == 2^Width
RECURSIVE Looped(_, _, _)
Looped(b, n, made) ==
  IF (Upward(b) /\ n > b.to) \/ (~Upward(b) /\ n < b.to) THEN made
  ELSE IF Len(made) > Turns THEN made
  ELSE Looped(b, Wrap(n + Step(b)), Append(made, b.zeros + Len(Format(n))))

RECURSIVE Fields(_)
Fields(word) ==
  IF word = <<>> THEN <<0>>
  ELSE LET p    == Head(word)
           mine == IF p.brace = "lit" THEN <<p.bytes>>
                   ELSE IF p.brace = "sequence" THEN Looped(p, p.from, <<>>)
                   ELSE FlattenSeq([i \in DOMAIN p.elems |-> Fields(p.elems[i])])
           rest == Fields(Tail(word))
       IN FlattenSeq([i \in DOMAIN mine |-> [j \in DOMAIN rest |-> mine[i] + rest[j]]])

Total(fields) == FoldLeft(LAMBDA n, f : n + f, 0, fields)

\* The number after the last one is none of Width bits: the loop goes on.
Wraps(b) == b.from + Step(b) * ((Distance(b) \div Stride(b)) + 1) \notin Smallest .. Largest

\* What is accepted is what the library makes, field for field and byte for
\* byte; what is refused is too large, or would not end where it should.
BraceExact(word, maximum, entry) ==
  LET r == Materialization(word, maximum, entry)
      fields == Fields(word)
  IN IF r.ok THEN r.count = Len(fields) /\ r.bytes = Total(fields)
     ELSE \/ Len(fields) * entry + Total(fields) > maximum
          \/ \E i \in DOMAIN word : word[i].brace = "sequence" /\ Wraps(word[i])
===============================================================================
