------------------------------ MODULE Numbers -------------------------------
(***************************************************************************)
(* The numbers of SQL (common/obj_number.cpp over common/my_decimal.h):    *)
(* one number on which the operators of expressions, the aggregates and    *)
(* the storage work in any order.  What operators return is made anew from *)
(* its text; accumulate and increase, of the aggregates, write the number  *)
(* itself.  Every result is compared with exact arithmetic, as long as the *)
(* exact result fits a number.                                             *)
(***************************************************************************)
EXTENDS Decimal

CONSTANTS Texts,      \* the numbers that occur in statements
          TmpSize,    \* bytes of the array in which serialization packs a number
          MaxSteps    \* operations on the number

ASSUME NumbersAssumption ==
  /\ \A t \in Texts : t.sign \in BOOLEAN /\ t.intg \in Seq(0 .. 9) /\ t.frac \in Seq(0 .. 9)
  /\ TmpSize \in Nat
  /\ MaxSteps \in Nat

VARIABLES num,     \* the number
          width,   \* the bytes obj_width counts for it, set where it is made
          exact,   \* its exact value n / 10^k, Lost when it did not fit
          steps

vars == <<num, width, exact, steps>>

Lost == [n |-> 0, k |-> -1]

-----------------------------------------------------------------------------
(* Number.                                                                  *)

\* Number::make_object of the text of a result
Made(d) == FromText(ToText(d))

Plus(a, b) == Made(DecimalAdd(a, b, FALSE))
Minus(a, b) == Made(DecimalSub(a, b))
Times(a, b) == Made(DecimalMul(a, b))

\* operator/ refuses a divisor that is 0; the quotient has the digits of the
\* longer fraction
Divisible(b) == ~IsZero(b)
Over(a, b) == Made(DecimalDiv(a, b, Most(a.frac, b.frac)))

\* op_minus
Negated(a) == Made(DecimalMul(a, FromText([sign |-> TRUE, intg |-> <<1>>, frac |-> <<>>])))

\* decimal_bin_size, of the digits a has room for: whole words, and what is
\* left of a word on each side of the point
DigitBytes(n) == Least((n + 1) \div 2, 4)
DigitsBytes(n) == (n \div Digits) * DigitBytes(Digits) + DigitBytes(n % Digits)
BinSize(a) == DigitsBytes(a.intg) + DigitsBytes(a.frac)

\* serialization, and the constructor that reads it
Reloaded(a) == FromBinary(ToBinary(a), a.intg, a.frac)

\* accumulate, increase: the sum is written over the number
Accumulated(a, b) == DecimalAdd(a, b, TRUE)
One == FromText([sign |-> FALSE, intg |-> <<1>>, frac |-> <<>>])

\* operator==, operator<, operator>, between
Equal(a, b) == DecimalCmp(a, b) = 0
LessThan(a, b) == DecimalCmp(a, b) < 0
GreaterThan(a, b) == DecimalCmp(a, b) > 0
Between(a, l, r) == DecimalCmp(a, l) >= 0 /\ DecimalCmp(a, r) <= 0

\* bool_value
Truth(a) == ~IsZero(a)

HashKeyWords(a) == a

\* hash: of the text
HashKey(a) == ToText(a)

-----------------------------------------------------------------------------
(* Exact arithmetic, with integers of at most 9 digits.                     *)

Abs(n) == IF n < 0 THEN -n ELSE n
Length(n) == Cardinality({i \in 1 .. 9 : Abs(n) >= 10 ^ (i - 1)})
Sign(n) == IF n < 0 THEN -1 ELSE IF n > 0 THEN 1 ELSE 0

\* What a number stands for
Value(d) ==
  LET Of(t) == Number(t.intg \o t.frac)
  IN [n |-> Of(ToText(d)) * (IF d.sign THEN -1 ELSE 1), k |-> d.frac]

\* n / 10^k with m digits after the point
Scaled(x, m) == x.n * 10 ^ (m - x.k)
Comparable(x, y) ==
  LET k == Most(x.k, y.k) IN Length(x.n) + k - x.k <= 9 /\ Length(y.n) + k - y.k <= 9
SameValue(x, y) == Comparable(x, y) /\ Scaled(x, Most(x.k, y.k)) = Scaled(y, Most(x.k, y.k))
Difference(x, y) == Sign(Scaled(x, Most(x.k, y.k)) - Scaled(y, Most(x.k, y.k)))

\* What the text of a value has room for
Printable(x) ==
  (IF x.n < 0 THEN 1 ELSE 0) + Most(Length(x.n) - x.k, 1) + (IF x.k > 0 THEN 1 ELSE 0) + x.k <= Digits * Words + 1

\* What the words of a result have room for: the code judges by the words of
\* the operands, and by a carry there may be
SumFits(a, b) == Most(IntgWords(a), IntgWords(b)) + 1 + Most(FracWords(a), FracWords(b)) <= Words
ProductFits(a, b) == RoundUp(a.intg + b.intg) + FracWords(a) + FracWords(b) <= Words
QuotientFits(x) == RoundUp(Most(Length(x.n) - x.k, 0)) < Words

Kept(x) == IF Printable(x) THEN x ELSE Lost

ExactSum(x, y) ==
  LET k == Most(x.k, y.k)
  IN IF x = Lost \/ ~Comparable(x, y) THEN Lost ELSE Kept([n |-> Scaled(x, k) + Scaled(y, k), k |-> k])

Opposite(x) == [n |-> -x.n, k |-> x.k]

ExactProduct(x, y) ==
  IF x = Lost \/ Length(x.n) + Length(y.n) > 9 THEN Lost ELSE Kept([n |-> x.n * y.n, k |-> x.k + y.k])

\* The quotient cut after m digits
ExactQuotient(x, y, m) ==
  LET shift == m + y.k - x.k
      top == Abs(x.n) * 10 ^ Most(shift, 0)
      bottom == Abs(y.n) * 10 ^ Most(-shift, 0)
  IN IF x = Lost \/ y = Lost \/ Length(x.n) + Most(shift, 0) > 9 \/ Length(y.n) + Most(-shift, 0) > 9 THEN Lost
     ELSE LET q == [n |-> Sign(x.n) * Sign(y.n) * (top \div bottom), k |-> m]
          IN IF QuotientFits(q) THEN Kept(q) ELSE Lost

\* An addition in place reads what it has already written: a first word that
\* carries, or words that move up because leading ones are 0
Disturbed(a, b) ==
  IF a.sign = b.sign
  THEN /\ a.buf[0] # 0
       /\ \/ IntgWords(a) > IntgWords(b) /\ a.buf[0] > Base - 2
          \/ IntgWords(b) > IntgWords(a) /\ b.buf[0] > Base - 2
          \/ IntgWords(a) = IntgWords(b) /\ a.buf[0] + b.buf[0] > Base - 2
  ELSE Leading(a) > 0 /\ Most(IntgWords(a) - Leading(a), IntgWords(b) - Leading(b))
                         + Most(FracWords(a), FracWords(b)) > 1

-----------------------------------------------------------------------------

Init ==
  /\ \E t \in Texts : num = FromText(t) /\ width = BinSize(num) /\ exact = Value(FromText(t))
  /\ steps = 0

Operands == {FromText(t) : t \in Texts}

\* fits: the result has room for all its digits
Written(d, fits, x) ==
  /\ steps < MaxSteps
  /\ num' = d
  /\ exact' = IF fits THEN x ELSE Lost
  /\ steps' = steps + 1

Becomes(d, fits, x) == Written(d, fits, x) /\ width' = BinSize(d)

AddTo == \E o \in Operands : Becomes(Plus(num, o), SumFits(num, o), ExactSum(exact, Value(o)))
Subtract == \E o \in Operands : Becomes(Minus(num, o), SumFits(num, o), ExactSum(exact, Opposite(Value(o))))
Multiply == \E o \in Operands : Becomes(Times(num, o), ProductFits(num, o), ExactProduct(exact, Value(o)))
DividedExact(q, x, y) == Becomes(q, TRUE, ExactQuotient(x, y, q.frac))
DivideBy == \E o \in Operands : Divisible(o) /\ DividedExact(Over(num, o), exact, Value(o))
DivideInto == \E o \in Operands : Divisible(num) /\ DividedExact(Over(o, num), Value(o), exact)
Negate == Becomes(Negated(num), ProductFits(num, One), ExactProduct(exact, [n |-> -1, k |-> 0]))

\* A row keeps room for obj_width, which a number read from a page takes from
\* there and which accumulate does not set anew.  No number is stored that has
\* outgrown its width: what an aggregate returns is the result of a query, which
\* cast_to refuses, and an operator makes a number of it first
Storable == BinSize(num) <= width
Reload ==
  /\ Storable /\ BinSize(num) <= TmpSize
  /\ Written(Reloaded(num), TRUE, exact)
  /\ UNCHANGED width

\* A number of more bytes is written over the end of tmp.  What becomes of the
\* server then is left open: nothing is said of the number any more
Overrun ==
  /\ steps < MaxSteps
  /\ Storable /\ BinSize(num) > TmpSize
  /\ exact' = Lost /\ steps' = MaxSteps
  /\ UNCHANGED <<num, width>>

AddInPlace(o) ==
  /\ Written(Accumulated(num, o), SumFits(num, o) /\ ~Disturbed(num, o), ExactSum(exact, Value(o)))
  /\ UNCHANGED width
Accumulate == \E o \in Operands : AddInPlace(o)
Increase == AddInPlace(One)

Next ==
  \/ AddTo \/ Subtract \/ Multiply \/ DivideBy \/ DivideInto
  \/ Negate \/ Reload \/ Overrun \/ Accumulate \/ Increase

Spec == Init /\ [][Next]_vars

-----------------------------------------------------------------------------
(* Properties.                                                              *)

\* A quotient that is cut to 0 keeps its sign (decimal_div), and -0 is below 0
NegativeZero(d) == d.sign /\ IsZero(d)

\* Whatever operations a number went through, and however they left its words
\* (leading words that are 0, more words than digits, a sum in place), it is
\* the exact result as long as that fits: sums, differences and products
\* exactly, quotients cut after their last digit.  decimal_add, decimal_sub,
\* decimal_mul, decimal_div, decimal2bin and their way through text
Exact == exact # Lost => SameValue(Value(num), exact)

\* Comparisons see the value, not the words: against every number of the
\* statements, =, <, > and BETWEEN answer as exact arithmetic does, and a
\* condition is true when the number is not 0
ComparesExact ==
  exact # Lost /\ ~NegativeZero(num) =>
    /\ Truth(num) <=> exact.n # 0
    /\ \A o \in Operands : Comparable(exact, Value(o)) /\ ~NegativeZero(o) =>
         LET d == Difference(exact, Value(o))
         IN /\ Equal(num, o) <=> d = 0
            /\ LessThan(num, o) <=> d < 0
            /\ GreaterThan(o, num) <=> d < 0
            /\ Between(num, o, o) <=> d = 0

\* Numbers that are equal and have the same digits after the point have one
\* hash, however they were computed: they meet in hash joins, groups and
\* DISTINCT
KeysAgree ==
  \A o \in Operands : Equal(num, o) /\ num.frac = o.frac => HashKey(num) = HashKey(o)

=============================================================================
