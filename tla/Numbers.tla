------------------------------- MODULE Numbers -------------------------------
(***************************************************************************)
(* The integers of shell arithmetic (internal/runtime: arithmetic.go): the *)
(* literals that are recognised and the operators, on numbers of Width     *)
(* bits where the code has 64.                                             *)
(*                                                                         *)
(* A text is a sequence of characters.  A character that can be a digit is *)
(* the value it has in base 64 (0-9, a-z, A-Z, @ and _ are 0 to 63); the   *)
(* signs that matter have numbers after those.                             *)
(***************************************************************************)
EXTENDS Integers, Sequences, SequencesExt, FiniteSetsExt

CONSTANT Width  \* the bits of an int64

Hash == 64  Minus == 65  Plus == 66  Open == 67  Close == 68  Star == 69
CharX == {33, 59}  \* x and X

\* The value of n in Width bits, as int64 arithmetic leaves it.
Wrap(n) == ((n + 2^(Width - 1)) % 2^Width) - 2^(Width - 1)
Unsigned(n) == n % 2^Width

Magnitude(n) == IF n < 0 THEN -n ELSE n
Sign(n)      == IF n < 0 THEN -1 ELSE 1
Truth(b)     == IF b THEN 1 ELSE 0
Bit(n, k)    == (Unsigned(n) \div 2^k) % 2
BitFold(Op(_, _), a, b) ==
  Wrap(MapThenSumSet(LAMBDA k : 2^k * Op(Bit(a, k), Bit(b, k)), 0 .. Width - 1))
-------------------------------------------------------------------------------
(* Operators.  A result is [ok, value]. *)

Value(n) == [ok |-> TRUE, value |-> n]
Fails    == [ok |-> FALSE, value |-> 0]

\* Go truncates a quotient; the remainder has the sign of the dividend.
Quotient(a, b)  == Wrap(Sign(a) * Sign(b) * (Magnitude(a) \div Magnitude(b)))
Remainder(a, b) == Sign(a) * (Magnitude(a) % Magnitude(b))

\* Mutant: the square is taken before the bit of the exponent is looked at.
Power_SquaresFirst(a, b) ==
  FoldLeft(LAMBDA acc, k : LET squared == Wrap(acc.left * acc.left) IN
             [value |-> IF Bit(b, k - 1) = 1 THEN Wrap(acc.value * squared) ELSE acc.value,
              left  |-> squared],
           [value |-> 1, left |-> a], [k \in 1 .. Width |-> k]).value
\* The bits of the exponent from the lowest; each squares the base.
Power(a, b) ==
  FoldLeft(LAMBDA acc, k :
             [value |-> IF Bit(b, k - 1) = 1 THEN Wrap(acc.value * acc.left) ELSE acc.value,
              left  |-> Wrap(acc.left * acc.left)],
           [value |-> 1, left |-> a], [k \in 1 .. Width |-> k]).value

\* & 63
Shift(b) == Unsigned(b) % Width

Compares == [eq |-> "==", gt |-> ">", lt |-> "<", ne |-> "!=", le |-> "<=", ge |-> ">="]
Compared(sign, a, b) ==
  CASE sign = "==" -> a = b  [] sign = "!=" -> a # b
    [] sign = "<"  -> a < b  [] sign = "<=" -> a <= b
    [] sign = ">"  -> a > b  [] sign = ">=" -> a >= b

Signs == {"+", "-", "*", "/", "%", "**", "&", "|", "^", ">>", "<<", "&&", "||", "^^"}
           \cup {Compares[k] : k \in DOMAIN Compares}

\* applyBashArithmeticOperator
Apply(sign, a, b) ==
  CASE sign = "+" -> Value(Wrap(a + b))
    [] sign = "-" -> Value(Wrap(a - b))
    [] sign = "*" -> Value(Wrap(a * b))
    [] sign \in {"/", "%"} ->
         IF b = 0 THEN Fails
         ELSE Value(IF sign = "/" THEN Quotient(a, b) ELSE Remainder(a, b))
    [] sign = "**" -> IF b < 0 THEN Fails ELSE Value(Power(a, b))
    [] sign = "&"  -> Value(BitFold(LAMBDA x, y : x * y, a, b))
    [] sign = "|"  -> Value(BitFold(LAMBDA x, y : Truth(x + y > 0), a, b))
    [] sign = "^"  -> Value(BitFold(LAMBDA x, y : Truth(x # y), a, b))
    [] sign = ">>" -> Value(a \div 2^Shift(b))
    [] sign = "<<" -> Value(Wrap(a * 2^Shift(b)))
    [] sign = "&&" -> Value(Truth(a # 0 /\ b # 0))
    [] sign = "||" -> Value(Truth(a # 0 \/ b # 0))
    [] sign = "^^" -> Value(Truth((a # 0) # (b # 0)))
    [] OTHER -> Value(Truth(Compared(sign, a, b)))

ApplyUnary(sign, a) ==
  CASE sign = "!" -> Truth(a = 0) [] sign = "~" -> -a - 1
    [] sign = "+" -> a            [] sign = "-" -> Wrap(-a)
-------------------------------------------------------------------------------
(* Literals: [recognized, ok, value]. *)

Unrecognized == [recognized |-> FALSE, ok |-> FALSE, value |-> 0]
Malformed    == [recognized |-> TRUE, ok |-> FALSE, value |-> 0]

\* bashArithmeticDigit: up to base 36 both cases of a letter are one digit.
Digit(char, base) == IF char \in 36 .. 61 /\ base <= 36 THEN char - 26 ELSE char

Decimal(digits) == \A i \in DOMAIN digits : digits[i] \in 0 .. 9
Number(digits, base) == FoldLeft(LAMBDA n, d : Unsigned(n * base + Digit(d, base)), 0, digits)

InBase(negative, digits, base) ==
  IF \E i \in DOMAIN digits : Digit(digits[i], base) \notin 0 .. base - 1
  THEN Malformed
  ELSE [recognized |-> TRUE, ok |-> TRUE,
        value |-> Wrap((IF negative THEN -1 ELSE 1) * Number(digits, base))]

\* base#digits: a base is written in decimal, and may have a sign.
SizedLiteral(negative, size, digits) ==
  IF size \notin 2 .. 64 \/ digits = <<>> THEN Malformed ELSE InBase(negative, digits, size)
BasedLiteral(negative, base, digits) ==
  IF base = <<>> \/ ~Decimal(base) THEN Malformed
  ELSE SizedLiteral(negative, FoldLeft(LAMBDA n, d : n * 10 + d, 0, base), digits)
PlainLiteral(negative, digits) ==
  IF digits = <<>> THEN Unrecognized
  ELSE IF Len(digits) > 1 /\ digits[1] = 0 /\ digits[2] \in CharX THEN
    IF Len(digits) = 2 THEN Malformed
    ELSE InBase(negative, SubSeq(digits, 3, Len(digits)), 16)
  ELSE IF ~Decimal(digits) THEN Unrecognized
  ELSE InBase(negative, digits, IF Len(digits) > 1 /\ digits[1] = 0 THEN 8 ELSE 10)
UnsignedLiteral(negative, digits, at) ==
  IF at = 0 THEN PlainLiteral(negative, digits)
  ELSE BasedLiteral(negative,
         SubSeq(digits, IF digits[1] = Plus THEN 2 ELSE 1, at - 1),
         SubSeq(digits, at + 1, Len(digits)))

\* parseBashIntegerLiteral
WithoutSign(text) ==
  IF text # <<>> /\ Head(text) \in {Minus, Plus} THEN Tail(text) ELSE text
Literal(text) ==
  UnsignedLiteral(text # <<>> /\ Head(text) = Minus, WithoutSign(text),
                  SelectInSeq(WithoutSign(text), LAMBDA d : d = Hash))

\* strconv.FormatInt
Digits(n) ==
  LET places == Max({k \in 1 .. Width : k = 1 \/ n >= 10^(k - 1)})
  IN [i \in 1 .. places |-> (n \div 10^(places - i)) % 10]
Format(n) == IF n < 0 THEN <<Minus>> \o Digits(-n) ELSE Digits(n)
-------------------------------------------------------------------------------
(* What these should be, said another way. *)

\* An operator gives, in Width bits, the number the mathematical one gives.
OperatorExact(sign, a, b) ==
  LET r == Apply(sign, a, b) IN
  /\ r.value \in -(2^(Width - 1)) .. 2^(Width - 1) - 1
  /\ sign = "**" /\ b >= 0 =>
       r.ok /\ r.value = FoldLeft(LAMBDA n, k : Wrap(n * a), 1, [k \in 1 .. b |-> k])
  /\ sign = "/" /\ b # 0 =>
       LET rest == Apply("%", a, b) IN
       /\ r.ok /\ rest.ok
       /\ Wrap(r.value * b + rest.value) = a
       /\ Magnitude(rest.value) < Magnitude(b) /\ a * rest.value >= 0
  /\ sign \in {"&", "|"} => Apply("&", a, b).value + Apply("|", a, b).value = a + b
  /\ sign = "^" => r.value = Wrap(Apply("|", a, b).value - Apply("&", a, b).value)
  /\ sign = "<<" /\ b \in 0 .. Width - 1 => r.value = Wrap(a * 2^b)
  /\ sign = ">>" /\ b \in 0 .. Width - 1 =>
       a - r.value * 2^b \in 0 .. 2^b - 1
  /\ r.ok <=> ~(sign \in {"/", "%"} /\ b = 0) /\ ~(sign = "**" /\ b < 0)

\* A number that is written and read again is the same number.
RoundTrip(n) == Literal(Format(n)) = [recognized |-> TRUE, ok |-> TRUE, value |-> n]

\* The name of a variable (the library's ValidName) is never taken for a number.
ValidName(text) ==
  /\ text # <<>> /\ Head(text) \notin 0 .. 9
  /\ \A i \in DOMAIN text : text[i] \in 0 .. 61 \cup {63}
NamesAreNotNumbers(text) == ValidName(text) => ~Literal(text).recognized
===============================================================================
