------------------------------ MODULE Decimal -------------------------------
(***************************************************************************)
(* The decimal arithmetic of common/decimal.cc, on the representation it   *)
(* works on: a sign, the numbers of digits before and after the point, and *)
(* words of Digits decimal digits, the point between two words.  buf has   *)
(* Words words, whatever the operation needs: results that need more lose  *)
(* digits.  The digits a number has as text are sequences.                 *)
(***************************************************************************)
EXTENDS Integers, Sequences, SequencesExt, FiniteSetsExt

CONSTANTS Digits,   \* DIG_PER_DEC1, decimal digits of a word
          Words     \* DECIMAL_BUFF_LENGTH, words of a number

ASSUME DecimalAssumption == Digits \in Nat \ {0} /\ Words \in Nat \ {0, 1}

Base == 10 ^ Digits
RoundUp(n) == (n + Digits - 1) \div Digits
Least(a, b) == IF a < b THEN a ELSE b
Most(a, b) == IF a < b THEN b ELSE a
Index == 0 .. Words - 1

Decimals == [sign : BOOLEAN, intg : Nat, frac : Nat, buf : [Index -> 0 .. Base - 1]]

Zeros(n) == [i \in 1 .. n |-> 0]
Blank == [i \in Index |-> 0]

\* decimal_make_zero
Zero == [sign |-> FALSE, intg |-> 1, frac |-> 0, buf |-> Blank]

\* FIX_INTG_FRAC_ERROR: what i + f words of a result are cut to
FixIntg(i, f) == Least(i, Words)
FixFrac(i, f) == Least(f, Words - FixIntg(i, f))
Overflows(i) == i > Words

IntgWords(d) == RoundUp(d.intg)
FracWords(d) == RoundUp(d.frac)

\* The word of weight Base^j in a buffer whose point is after word i
At(buf, i, f, j) == IF j < i /\ -j <= f THEN buf[i - 1 - j] ELSE 0

-----------------------------------------------------------------------------
(* Text.                                                                    *)

Number(ds) == FoldLeft(LAMBDA a, x : 10 * a + x, 0, ds)
DigitsOf(w) == [i \in 1 .. Digits |-> (w \div 10 ^ (Digits - i)) % 10]
DigitsIn(buf, from, to) == FoldLeft(LAMBDA a, i : a \o DigitsOf(buf[i]), <<>>, [k \in 1 .. to - from |-> from + k - 1])
FirstOf(ds, n) == SubSeq(ds, 1, n)
LastOf(ds, n) == SubSeq(ds, Len(ds) - n + 1, Len(ds))
NoLeadingZeros(ds) == SelectInSeq(ds, LAMBDA x : x # 0)
Significant(ds) == IF NoLeadingZeros(ds) = 0 THEN <<>> ELSE SubSeq(ds, NoLeadingZeros(ds), Len(ds))

\* internal_str2dec, of a text without exponent: too many digits before the
\* point lose the leading ones, too many after it the last ones
FromText(text) ==
  LET i == FixIntg(RoundUp(Len(text.intg)), RoundUp(Len(text.frac)))
      f == FixFrac(RoundUp(Len(text.intg)), RoundUp(Len(text.frac)))
      intg == Least(Len(text.intg), i * Digits)
      frac == Least(Len(text.frac), f * Digits)
      ds == Zeros(i * Digits - intg) \o LastOf(text.intg, intg)
            \o FirstOf(text.frac, frac) \o Zeros(f * Digits - frac)
  IN IF Len(text.intg) + Len(text.frac) = 0 THEN Zero
     ELSE [sign |-> text.sign, intg |-> intg, frac |-> frac,
           buf |-> [k \in Index |-> IF k < i + f THEN Number(SubSeq(ds, k * Digits + 1, (k + 1) * Digits)) ELSE 0]]

\* decimal2string into the buffer of my_decimal::to_string, which has room
\* for all digits and one more character; digits beyond it become 0
Shown(sign, intg, frac) ==
  LET len == (IF sign THEN 1 ELSE 0) + Len(intg) + (IF frac = <<>> THEN 0 ELSE 1) + Len(frac)
      over == Least(Most(len - (Digits * Words + 1), 0), Len(frac))
  IN [sign |-> sign, intg |-> intg, frac |-> FirstOf(frac, Len(frac) - over) \o Zeros(over)]

OneDigit(ds) == IF ds = <<>> THEN <<0>> ELSE ds
ToText(d) ==
  Shown(d.sign, OneDigit(Significant(LastOf(DigitsIn(d.buf, 0, IntgWords(d)), d.intg))),
        FirstOf(DigitsIn(d.buf, IntgWords(d), IntgWords(d) + FracWords(d)), d.frac))

-----------------------------------------------------------------------------
(* Sums and differences.  inPlace: the result is written where the first    *)
(* operand is.                                                              *)

\* max_decimal
MaxDecimal == [sign |-> FALSE, intg |-> Digits * Words, frac |-> 0, buf |-> [k \in Index |-> Base - 1]]

\* The words of weight -f to i - 1 of a sum, and what they carry
Add(a, ia, fa, b, ib, fb, i, f) ==
  LET Sum(j) == At(a, ia, fa, j) + At(b, ib, fb, j)
      carry[j \in -f .. i] == IF j = -f THEN 0 ELSE (Sum(j - 1) + carry[j - 1]) \div Base
  IN [k \in Index |-> IF k < i + f THEN (Sum(i - 1 - k) + carry[i - 1 - k]) % Base ELSE 0]

\* do_add, of numbers of one sign.  When the leading words may carry it makes
\* room for one more word and clears the first word of the result, before it
\* has read the operands
DoAdd(a, b, inPlace) ==
  LET ia == IntgWords(a)
      ib == IntgWords(b)
      lead == IF ia > ib THEN a.buf[0] ELSE IF ib > ia THEN b.buf[0] ELSE a.buf[0] + b.buf[0]
      more == lead > Base - 2
      i0 == Most(ia, ib) + (IF more THEN 1 ELSE 0)
      f0 == Most(FracWords(a), FracWords(b))
      f == FixFrac(i0, f0)
      abuf == IF more /\ inPlace THEN [a.buf EXCEPT ![0] = 0] ELSE a.buf
  IN IF Overflows(i0) THEN MaxDecimal
     ELSE [sign |-> a.sign, intg |-> i0 * Digits, frac |-> Least(Most(a.frac, b.frac), f * Digits),
           buf |-> Add(abuf, ia, Least(FracWords(a), f), b.buf, ib, Least(FracWords(b), f), i0, f)]

\* Leading words of the integer part that are 0
Leading(d) == FoldLeft(LAMBDA n, k : IF n = k /\ d.buf[k] = 0 THEN n + 1 ELSE n, 0, [k \in 1 .. IntgWords(d) |-> k - 1])

FractionWhole(d) == FracWords(d)

\* Words of the fraction up to the last that is not 0
Fraction(d) == Max({0} \cup {k \in 1 .. FracWords(d) : d.buf[IntgWords(d) + k - 1] # 0})

\* How do_sub orders the absolute values: -1, 0 or 1
Order(a, b) ==
  LET ia == IntgWords(a) - Leading(a)
      ib == IntgWords(b) - Leading(b)
      wa == SubSeq([k \in 1 .. Words |-> a.buf[k - 1]], Leading(a) + 1, IntgWords(a) + Fraction(a))
      wb == SubSeq([k \in 1 .. Words |-> b.buf[k - 1]], Leading(b) + 1, IntgWords(b) + Fraction(b))
      differ == {k \in 1 .. Least(Len(wa), Len(wb)) : wa[k] # wb[k]}
  IN IF ia # ib THEN (IF ib > ia THEN -1 ELSE 1)
     ELSE IF differ # {} THEN (IF wb[Min(differ)] > wa[Min(differ)] THEN -1 ELSE 1)
     ELSE IF Len(wa) = Len(wb) THEN 0
     ELSE IF Len(wb) > Len(wa) THEN -1 ELSE 1

\* What do_sub reads of an operand: i words before the point, from the first
\* that is not 0 on, and f behind it; own: where the result is written
Part(d, i, f, own) == [buf |-> d.buf, lead |-> Leading(d), intg |-> i, frac |-> f, own |-> own]

\* Word by word from the last; words of the result are written as the operands'
\* are read
SubWords(x, y, i, f, result) ==
  LET WordOf(part, s, j) ==
        At([k \in 0 .. Words - 1 - part.lead |-> IF part.own THEN s.mem[k + part.lead] ELSE part.buf[k + part.lead]],
           part.intg, part.frac, j)
      Take(s, j) ==
        LET t == WordOf(x, s, j) - WordOf(y, s, j) - s.borrow
        IN [mem |-> [s.mem EXCEPT ![i - 1 - j] = t % Base], borrow |-> IF t < 0 THEN 1 ELSE 0]
  IN FoldLeft(Take, [mem |-> result, borrow |-> 0], [k \in 1 .. i + f |-> k - 1 - f]).mem

\* x, which is larger, minus y; leading words that are 0 are not kept
SubFrom(x, y, ix, iy, sign, overX, overY) ==
  LET f0 == Most(FracWords(x), FracWords(y))
      i == FixIntg(ix, f0)
      f == FixFrac(ix, f0)
      Used(d) == Least(IF ix = iy THEN Fraction(d) ELSE FracWords(d), f)
      result == IF overX THEN x.buf ELSE IF overY THEN y.buf ELSE Blank
  IN [sign |-> sign, intg |-> i * Digits, frac |-> Least(Most(x.frac, y.frac), f * Digits),
      buf |-> SubWords(Part(x, ix, Used(x), overX), Part(y, iy, Used(y), overY), i, f, result)]

\* do_sub, of numbers of one sign: the smaller from the larger
DoSub(a, b, inPlace) ==
  LET Intg(d) == IntgWords(d) - Leading(d)
      Ordered(order) ==
        CASE order = 0 -> Zero
          [] order > 0 -> SubFrom(a, b, Intg(a), Intg(b), a.sign, inPlace, FALSE)
          [] order < 0 -> SubFrom(b, a, Intg(b), Intg(a), ~a.sign, FALSE, inPlace)
  IN Ordered(Order(a, b))

\* decimal_add, decimal_sub
DecimalAdd(a, b, inPlace) == IF a.sign = b.sign THEN DoAdd(a, b, inPlace) ELSE DoSub(a, b, inPlace)
DecimalSub(a, b) == IF a.sign = b.sign THEN DoSub(a, b, FALSE) ELSE DoAdd(a, b, FALSE)

\* decimal_cmp: signs first, whatever the digits
DecimalCmp(a, b) ==
  IF a.sign # b.sign THEN (IF a.sign THEN -1 ELSE 1)
  ELSE IF a.sign THEN -Order(a, b) ELSE Order(a, b)

IsZero(d) == \A k \in 0 .. IntgWords(d) + FracWords(d) - 1 : d.buf[k] = 0

-----------------------------------------------------------------------------
(* Products.                                                                *)

\* decimal_mul.  What does not fit is left out of the factors: leading words,
\* or words of the fractions
Factors(a, b) ==
  LET i0 == RoundUp(a.intg + b.intg)
      f0 == FracWords(a) + FracWords(b)
      lostI == Most(i0 - Words, 0)
      lostF == f0 - FixFrac(i0, f0)
      half == lostF \div 2
  IN IF lostI > 0
     THEN [ia |-> IntgWords(a) - lostI \div 2, ib |-> IntgWords(b) - (lostI - lostI \div 2), fa |-> 0, fb |-> 0]
     ELSE [ia |-> IntgWords(a), ib |-> IntgWords(b),
           fa |-> FracWords(a) - (IF FracWords(a) <= FracWords(b) THEN half ELSE lostF - half),
           fb |-> FracWords(b) - (IF FracWords(a) <= FracWords(b) THEN lostF - half ELSE half)]

\* One row of the product: a word of the first factor times the second, added
\* from word start on; the row stops where its carry would leave the buffer
Row(buf, word, other, start) ==
  LET Step(s, k) ==
        LET t == s.buf[start - k] + s.carry + (IF k < Len(other) THEN word * other[k + 1] ELSE 0)
        IN [buf |-> [s.buf EXCEPT ![start - k] = t % Base], carry |-> t \div Base]
      row == FoldLeft(Step, [buf |-> buf, carry |-> 0], [k \in 1 .. start + 1 |-> k - 1])
  IN [buf |-> row.buf, over |-> row.carry # 0]

\* The words of a factor, the last first
Factor(d, intg, frac) == [k \in 1 .. intg + frac |-> d.buf[IntgWords(d) + frac - k]]

Rows(wa, wb, i, f) ==
  LET AddRow(s, k) == IF s.over THEN s ELSE Row(s.buf, wa[k], wb, i + f - k)
  IN FoldLeft(AddRow, [buf |-> Blank, over |-> FALSE], [k \in 1 .. Len(wa) |-> k])

\* Leading words that are 0 are taken away, but for one
Product(sign, rows, i, frac) ==
  LET zeros == FoldLeft(LAMBDA z, k : IF z = k /\ rows.buf[k] = 0 THEN z + 1 ELSE z, 0, [k \in 1 .. Words |-> k - 1])
      empty == Least(zeros, Most(i - 1, 0))
  IN IF rows.over THEN [sign |-> sign, intg |-> i * Digits, frac |-> frac, buf |-> rows.buf]
     ELSE IF sign /\ rows.buf = Blank THEN Zero
     ELSE [sign |-> sign, intg |-> (i - empty) * Digits, frac |-> frac,
           buf |-> [k \in Index |-> IF k + empty < Words THEN rows.buf[k + empty] ELSE 0]]

DecimalMul(a, b) ==
  LET i0 == RoundUp(a.intg + b.intg)
      f0 == FracWords(a) + FracWords(b)
      i == FixIntg(i0, f0)
      f == FixFrac(i0, f0)
      RowsOf(n) == Rows(Factor(a, n.ia, n.fa), Factor(b, n.ib, n.fb), i, f)
  IN Product(a.sign # b.sign, RowsOf(Factors(a, b)), i, Least(a.frac + b.frac, f * Digits))

-----------------------------------------------------------------------------
(* Quotients: long division, a word of the quotient at a time.              *)

\* The first word that is not 0, and the digits from there to the last word
FirstWord(d) == Min({k \in 0 .. IntgWords(d) + FracWords(d) - 1 : d.buf[k] # 0})
Precision(d) == Digits * (IntgWords(d) + FracWords(d) - FirstWord(d) - 1) + Len(Significant(DigitsOf(d.buf[FirstWord(d)])))

GuessByFirst(x, y, divisor) == Least(x \div divisor[1], Base - 1)

\* The guess of the next word: from the leading words, scaled so that the
\* divisor's is large, and put right by its second word
Guess(x, y, divisor) ==
  LET norm == Base \div (divisor[1] + 1)
      large == norm * divisor[1] + (IF Len(divisor) > 1 THEN (norm * divisor[2]) \div Base ELSE 0)
      guess == Least((norm * x + (norm * y) \div Base) \div large, Base - 1)
      TooBig(g) == Len(divisor) > 1 /\ divisor[2] * g > (x - g * divisor[1]) * Base + y
      Lower(g) == IF TooBig(g) THEN g - 1 ELSE g
  IN Lower(Lower(guess))

\* guess times the divisor less than the words of rest at start, and one
\* divisor more
Lessened(s, divisor, guess) ==
  LET Less(t, k) ==
        LET at == s.start + Len(divisor) - k
            w == t.rest[at] - guess * divisor[Len(divisor) + 1 - k] - t.carry
        IN [rest |-> [t.rest EXCEPT ![at] = w % Base], carry |-> -(w \div Base)]
  IN FoldLeft(Less, [rest |-> s.rest, carry |-> 0], [k \in DOMAIN divisor |-> k])
PutBack(s, divisor, rest) == Lessened([s EXCEPT !.rest = rest], divisor, -1).rest

\* Subtract guess times the divisor from the words of rest at start; when that
\* takes more than the word before them, the guess was one too many
NextWord(s, divisor) ==
  LET guess == IF s.before = 0 /\ s.rest[s.start] < divisor[1] THEN 0
               ELSE Guess(s.rest[s.start] + s.before * Base, s.rest[s.start + 1], divisor)
      Left(rest, word) == [rest |-> rest, start |-> s.start + 1, before |-> rest[s.start], words |-> Append(s.words, word)]
      Tried(g, less) ==
        IF s.before < less.carry THEN Left(PutBack(s, divisor, less.rest), g - 1) ELSE Left(less.rest, g)
      Try(g) == Tried(g, Lessened(s, divisor, g))
  IN Try(guess)

\* n words of the quotient, after those that are 0 from the start
QuotientWords(words, divisor, empty, n, room) ==
  LET small == words[1] < divisor[1]
      start == [rest |-> [k \in 1 .. room |-> IF k <= Len(words) THEN words[k] ELSE 0],
                start |-> IF small THEN 2 ELSE 1, before |-> IF small THEN words[1] ELSE 0,
                words |-> Zeros(empty)]
  IN FoldLeft(LAMBDA s, k : NextWord(s, divisor), start, [k \in 1 .. n |-> k]).words

\* The words of d from the first that is not 0, and its digits there
Dividend(d) == [k \in 1 .. RoundUp(Precision(d)) |-> d.buf[FirstWord(d) + k - 1]]
NoTrailingZeros(words) == FirstOf(words, Max({k \in DOMAIN words : words[k] # 0}))

Quotient(sign, words, i, f) ==
  [sign |-> sign, intg |-> i * Digits, frac |-> f * Digits,
   buf |-> [k \in Index |-> IF k < Len(words) THEN words[k + 1] ELSE 0]]

\* intg: the digits before the point, negative when the first digits behind it
\* are 0
Divide(sign, wa, wb, intg, fracs, room) ==
  LET i0 == IF intg < 0 THEN 0 ELSE RoundUp(intg)
      i == FixIntg(i0, fracs)
      f == FixFrac(i0, fracs)
      empty == Least(IF intg < 0 THEN (-intg) \div Digits ELSE 0, Words)
  IN Quotient(sign, QuotientWords(wa, NoTrailingZeros(wb), empty, i + f - empty, room), i, f)

\* decimal_div, of a divisor that is not 0
DecimalDiv(a, b, incr) ==
  LET fracA == FracWords(a) * Digits
      fracB == FracWords(b) * Digits
      scale == Most(incr - (fracA - a.frac + fracB - b.frac), 0)
      Divided(wa, wb) ==
        Divide(a.sign # b.sign, wa, wb,
               (Precision(a) - fracA) - (Precision(b) - fracB) + (IF wa[1] >= wb[1] THEN 1 ELSE 0),
               RoundUp(fracA + fracB + scale), Most(Len(wa) + RoundUp(2 * fracB + scale + 1) + 1, 3))
  IN IF IsZero(a) THEN Zero ELSE Divided(Dividend(a), Dividend(b))

-----------------------------------------------------------------------------
(* The stored form: the digits in groups, the first and the last of them    *)
(* shorter than a word, each inverted when the number is negative.          *)

\* decimal2bin; precision and scale are the number's own
ToBinary(d) ==
  LET lead == d.intg % Digits
      tail == d.frac % Digits
      groups == [k \in 1 .. IntgWords(d) + FracWords(d) |->
                   IF k = 1 /\ lead # 0 THEN d.buf[0] % 10 ^ lead
                   ELSE IF k = IntgWords(d) + FracWords(d) /\ tail # 0 THEN d.buf[k - 1] \div 10 ^ (Digits - tail)
                   ELSE d.buf[k - 1]]
      noDigits == d.frac = 0 /\ \A k \in 0 .. IntgWords(d) - 1 : d.buf[k] = 0
  IN [k \in DOMAIN groups |-> IF d.sign /\ ~noDigits THEN -1 - groups[k] ELSE groups[k]]

\* bin2decimal: leading groups that are 0 are not kept
FromBinary(groups, intg, frac) ==
  LET sign == groups[1] < 0
      words == [k \in DOMAIN groups |-> IF sign THEN -1 - groups[k] ELSE groups[k]]
      n == RoundUp(intg)
      tail == frac % Digits
      Word(k) == IF k = Len(groups) /\ tail # 0 THEN words[k] * 10 ^ (Digits - tail) ELSE words[k]
      Without(empty) ==
        LET kept == IF empty = 0 THEN intg ELSE (n - empty) * Digits
        IN IF kept + frac = 0 THEN Zero
           ELSE [sign |-> sign, intg |-> kept, frac |-> frac,
                 buf |-> [k \in Index |-> IF k + empty < Len(groups) THEN Word(k + empty + 1) ELSE 0]]
  IN Without(FoldLeft(LAMBDA z, k : IF z = k - 1 /\ words[k] = 0 THEN z + 1 ELSE z, 0, [k \in 1 .. n |-> k]))
=============================================================================
