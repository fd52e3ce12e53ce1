----------------------------- MODULE FloatCodec -----------------------------
(***************************************************************************)
(* Floating-point numbers on the wire (util.cpp): FloatToUInt32 and        *)
(* UInt32ToFloat, which with other constants are DoubleToUInt64 and        *)
(* UInt64ToDouble.                                                         *)
(*                                                                         *)
(* A number has a sign, and bits: the exponent field and the fraction, as  *)
(* in IEEE 754, for any ExpBits (8, 11) and Precision (24, 53 with the     *)
(* hidden bit).  The code multiplies by powers of two only.  Evaluation in *)
(* a wider type (float_t, FLT_EVAL_METHOD 1 or 2) is not modelled.         *)
(***************************************************************************)
EXTENDS ZigZag

CONSTANTS
  ExpBits, Precision,
  Boost         \* FRExp multiplies a denormal by 2^Boost (64)

Bias == 2 ^ (ExpBits - 1) - 1
Hidden == 2 ^ (Precision - 1)
MaxField == 2 ^ ExpBits - 1
Infinity == MaxField * Hidden
Lowest == 2 - Bias - Precision      \* exponent of the smallest denormal
WordModulus == 2 ^ (ExpBits + Precision)

\* One boost makes a normal number of any denormal, and the three steps of
\* LDExp lead from the largest number below the smallest one.
FormatFits ==
  /\ ExpBits \in Nat \ {0} /\ Precision \in Nat \ {0, 1} /\ Boost \in Nat
  /\ Boost >= Precision /\ Boost < Bias + Precision
  /\ Precision + 3 < Bias

Floats == [neg : BOOLEAN, bits : 0 .. (MaxField * Hidden + Hidden - 1)]
Zero(neg) == [neg |-> neg, bits |-> 0]
Field(f) == f.bits \div Hidden
Fraction(f) == f.bits % Hidden
IsFinite(f) == f.bits < Infinity

\* f is Mantissa * 2^Scale.
Mantissa(f) == IF Field(f) = 0 THEN f.bits ELSE Hidden + Fraction(f)
Scale(f) == Lowest + (IF Field(f) = 0 THEN 0 ELSE Field(f) - 1)

-----------------------------------------------------------------------------
(***************************************************************************)
(* The arithmetic of the processor: the number nearest to m * 2^s, ties to *)
(* even.                                                                   *)
(***************************************************************************)
BitLength[m \in Nat] == IF m = 0 THEN 0 ELSE 1 + BitLength[m \div 2]

\* m / 2^n, cut off or rounded.
Quotient(m, n) == IF n > BitLength[m] THEN 0 ELSE m \div 2 ^ n
Shifted(m, n) ==
  LET q == m \div 2 ^ n
      r == m % 2 ^ n
  IN  IF n > BitLength[m] THEN 0
      ELSE IF 2 * r > 2 ^ n \/ (2 * r = 2 ^ n /\ q % 2 = 1) THEN q + 1 ELSE q

Nearest(neg, m, s) ==
  LET top == s + BitLength[m] - Precision       \* the unit of a normal number
      unit == IF top > Lowest THEN top ELSE Lowest
      q == IF s >= unit THEN m * 2 ^ (s - unit) ELSE Shifted(m, unit - s)
      bits == (unit - Lowest) * Hidden + q      \* a carry runs into the exponent
  IN  IF m = 0 THEN Zero(neg)
      ELSE [neg |-> neg, bits |-> IF bits < Infinity THEN bits ELSE Infinity]

\* f * 2^n; infinities and NaN stay what they are.
Times(f, n) == IF IsFinite(f) THEN Nearest(f.neg, Mantissa(f), Scale(f) + n) ELSE f

-----------------------------------------------------------------------------
(***************************************************************************)
(* LDExp and FRExp.                                                        *)
(***************************************************************************)
\* An exponent that is too large is reached in up to three steps.
LDExp(x, n) ==
  CASE n > 2 * Bias -> Times(Times(Times(x, Bias), Bias),
                             IF n > 3 * Bias THEN Bias ELSE n - 2 * Bias)
    [] n > Bias /\ n <= 2 * Bias -> Times(Times(x, Bias), n - Bias)
    [] n < 2 * (1 - Bias) -> Times(Times(Times(x, 1 - Bias), 1 - Bias),
                             IF n < 3 * (1 - Bias) THEN 1 - Bias ELSE n - 2 * (1 - Bias))
    [] n < 1 - Bias /\ n >= 2 * (1 - Bias) -> Times(Times(x, 1 - Bias), n - (1 - Bias))
    [] OTHER -> Times(x, n)

\* The fraction in [1/2, 1), and the exponent; that of an infinity or of NaN
\* is what the caller has set it to.
Split(x) ==
  IF Field(x) = MaxField THEN [x |-> x, e |-> 0]
  ELSE [x |-> [x EXCEPT !.bits = (Bias - 1) * Hidden + Fraction(x)],
        e |-> Field(x) - (Bias - 1)]

\* Slip: the boost of a denormal is not taken back.
FRExp_Boosted(x) ==
  IF x.bits = 0 THEN [x |-> x, e |-> 0]
  ELSE IF Field(x) = 0 THEN Split(Times(x, Boost)) ELSE Split(x)

FRExp(x) ==
  IF x.bits = 0 THEN [x |-> x, e |-> 0]
  ELSE IF Field(x) = 0 THEN [Split(Times(x, Boost)) EXCEPT !.e = @ - Boost]
  ELSE Split(x)

-----------------------------------------------------------------------------
(***************************************************************************)
(* The words.  A float that does not fit into the integer is undefined     *)
(* behaviour; the builds give the smallest or the largest integer or 0.    *)
(***************************************************************************)
Truncated(x, undefined) ==
  LET size == IF Scale(x) >= 0 THEN Mantissa(x) * 2 ^ Scale(x)
              ELSE Quotient(Mantissa(x), - Scale(x))
  IN  IF ~IsFinite(x) THEN undefined ELSE IF x.neg THEN - size ELSE size
Undefined == {- (WordModulus \div 2), WordModulus \div 2 - 1, 0}

\* hi | low, for an hi of which the lowest ExpBits bits are clear, and a low of
\* at most one bit more.
Or(hi, low) ==
  LET n == hi \div 2 ^ ExpBits
      bit == low \div 2 ^ ExpBits
  IN  (IF n % 2 = 0 THEN n + bit ELSE n) * 2 ^ ExpBits + (low % 2 ^ ExpBits)

ToWord(f, undefined) ==
  LET r == FRExp(f)
      digits == Truncated(LDExp(r.x, Precision - 1), undefined)
  IN  Or((ZigZag(digits, WordModulus) * 2 ^ ExpBits) % WordModulus,
         ZigZag(r.e - 1, WordModulus))

\* Slip: the exponent is not counted up again.
FromWord_OneLess(word) ==
  LET digits == ZagZig(word \div 2 ^ ExpBits, WordModulus)
  IN  LDExp(LDExp(Nearest(digits < 0, IF digits < 0 THEN - digits ELSE digits, 0),
                  1 - Precision),
            ZagZig(word % 2 ^ ExpBits, WordModulus))

FromWord(word) ==
  LET digits == ZagZig(word \div 2 ^ ExpBits, WordModulus)
  IN  LDExp(LDExp(Nearest(digits < 0, IF digits < 0 THEN - digits ELSE digits, 0),
                  1 - Precision),
            ZagZig(word % 2 ^ ExpBits, WordModulus) + 1)

-----------------------------------------------------------------------------
(***************************************************************************)
(* What the words keep.  The lowest bit of a significand of full length is *)
(* cut off; a denormal so small that its exponent needs another bit is     *)
(* not kept at all; there is no negative zero.                             *)
(***************************************************************************)
Kept(f) == IsFinite(f) /\ (f.bits = 0 \/ f.bits >= Hidden \div 4)
Shortened(f) ==
  IF f.bits = 0 THEN Zero(FALSE)
  ELSE IF Field(f) = 0 THEN f ELSE [f EXCEPT !.bits = @ - (@ % 2)]

\* Of two numbers, how many others lie between them.
Ordinal(f) == IF f.neg THEN - f.bits ELSE f.bits
Distance(f, g) ==
  IF Ordinal(f) < Ordinal(g) THEN Ordinal(g) - Ordinal(f) ELSE Ordinal(f) - Ordinal(g)

\* x * 2^n as the library has it, and x as a fraction times a power of two.
Scales(x) ==
  IsFinite(x) /\ x.bits # 0 =>
    /\ \A n \in (-4 * Bias) .. (4 * Bias) :
         Distance(LDExp(x, n), Nearest(x.neg, Mantissa(x), Scale(x) + n))
           <= (IF LDExp(x, n).bits < Hidden THEN 1 ELSE 0)
    /\ LET r == FRExp(x)
       IN  /\ Field(r.x) = Bias - 1 /\ r.x.neg = x.neg
           /\ Nearest(x.neg, Mantissa(r.x), Scale(r.x) + r.e) = x

=============================================================================
