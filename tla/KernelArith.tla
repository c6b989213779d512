----------------------------- MODULE KernelArith -----------------------------
(***************************************************************************)
(* Integer arithmetic the kernels are written in: sums over a loop index,  *)
(* rounding, saturation and the lane widths of the vector instructions.    *)
(***************************************************************************)
LOCAL INSTANCE Integers

\* Sum of term[0], ..., term[n - 1]: an accumulator over a counted loop.
SumTo(n, term) ==
  LET s[i \in 0 .. n] == IF i = 0 THEN 0 ELSE s[i - 1] + term[i - 1] IN s[n]

Greatest(a, b) == IF a >= b THEN a ELSE b

\* Greatest of 0, term[0], ..., term[n - 1]: a running maximum.
MaxTo(n, term) ==
  LET s[i \in 0 .. n] == IF i = 0 THEN 0 ELSE Greatest(term[i - 1], s[i - 1]) IN s[n]

AbsOf(x) == IF x < 0 THEN -x ELSE x
Least(a, b) == IF a <= b THEN a ELSE b
Clamp(lo, hi, x) == Greatest(lo, Least(hi, x))

\* Two's complement wrap of a lane of w bits.
WrapTo(w, x) == ((x + 2 ^ (w - 1)) % (2 ^ w)) - 2 ^ (w - 1)
Saturate16(x) == Clamp(-32768, 32767, x)

\* num / den rounded as lroundf does (halves away from zero), den > 0.
RoundAway(num, den) ==
  IF num >= 0 THEN (2 * num + den) \div (2 * den) ELSE -((den - 2 * num) \div (2 * den))

\* num / den rounded as vcvtps2dq and fcvtns do (halves to even), den > 0.
RoundEven(num, den) ==
  LET q == (2 * num + den) \div (2 * den)
  IN  IF ((2 * num + den) % (2 * den)) = 0 /\ (q % 2) # 0 THEN q - 1 ELSE q
==============================================================================
