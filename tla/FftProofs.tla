------------------------------- MODULE FftProofs -------------------------------
(***************************************************************************)
(* The transforms' arithmetic and their steps, for every signal: a stage's *)
(* buffer is the sum over the signal's impulses of one ray each, and every *)
(* step of FeFft takes the buffers of one width to those of the next.      *)
(***************************************************************************)
EXTENDS FeFft, QgemmPackProofs

-----------------------------------------------------------------------------
(* Complex numbers over the field *)

Scalars == 0 .. FieldP - 1
Complex == Scalars \X Scalars

\* Residues: equal when their difference is a multiple of the modulus.
LEMMA FldSame ==
  ASSUME NEW x \in Int, NEW y \in Int, NEW k \in Int, x = y + FieldP * k
  PROVE  Fld(x) = Fld(y)
BY DEF Fld, FieldP

\* A residue is a scalar, congruent to its number, and a scalar is its own.
LEMMA FldParts ==
  ASSUME NEW x \in Int
  PROVE  /\ Fld(x) \in Scalars /\ Fld(x) \in Int
         /\ x \in Scalars => Fld(x) = x
         /\ \E k \in Int : x = Fld(x) + FieldP * k
<1>1. x = FieldP * (x \div FieldP) + (x % FieldP) /\ x % FieldP \in Scalars
      /\ x \div FieldP \in Int
  BY DivMod DEF FieldP, Scalars
<1>2. x \in Scalars => x % FieldP = x  BY DEF Scalars, FieldP
<1>3. Fld(x) \in Scalars /\ Fld(x) \in Int  BY <1>1 DEF Fld, Scalars, FieldP
<1>4. x \div FieldP \in Int /\ x = Fld(x) + FieldP * (x \div FieldP)  BY <1>1 DEF Fld, FieldP
<1>5. x \in Scalars => Fld(x) = x  BY <1>2 DEF Fld
<1> QED  BY <1>3, <1>4, <1>5

\* The residue of x is the scalar congruent to x.
LEMMA FldIs ==
  ASSUME NEW x \in Int, NEW r \in Scalars, NEW k \in Int, x = r + FieldP * k
  PROVE  Fld(x) = r
<1>1. r \in Int  BY DEF Scalars, FieldP
<1> QED  BY <1>1, FldSame, FldParts

\* A combination of residues is the residue of the combination.
LEMMA FldCombined ==
  ASSUME NEW x \in Int, NEW y \in Int, NEW a \in Int, NEW b \in Int
  PROVE  /\ Fld(a * Fld(x) + b * Fld(y)) = Fld(a * x + b * y)
         /\ Fld(a * Fld(x) - b * Fld(y)) = Fld(a * x - b * y)
<1>1. Fld(x) \in Int /\ Fld(y) \in Int  BY FldParts
<1>2. PICK k \in Int : x = Fld(x) + FieldP * k  BY FldParts
<1>3. PICK l \in Int : y = Fld(y) + FieldP * l  BY FldParts
<1> DEFINE u == Fld(x)
           v == Fld(y)
<1>4. u \in Int /\ v \in Int /\ x = u + FieldP * k /\ y = v + FieldP * l  BY <1>1, <1>2, <1>3
<1> HIDE DEF u, v
<1>5. a * x = a * u + FieldP * (a * k) /\ b * y = b * v + FieldP * (b * l)
  BY <1>4 DEF FieldP
<1>6. a * u \in Int /\ b * v \in Int /\ a * k \in Int /\ b * l \in Int
      /\ a * x \in Int /\ b * y \in Int
  BY <1>4
<1>7. a * x + b * y = (a * u + b * v) + FieldP * (a * k + b * l)
      /\ a * x - b * y = (a * u - b * v) + FieldP * (a * k - b * l)
  BY <1>5, <1>6 DEF FieldP
<1>8. Fld(a * x + b * y) = Fld(a * u + b * v)
  <2>1. a * x + b * y \in Int /\ a * u + b * v \in Int /\ a * k + b * l \in Int  BY <1>6
  <2> QED  BY <1>7, <2>1, FldSame
<1>9. Fld(a * x - b * y) = Fld(a * u - b * v)
  <2>1. a * x - b * y \in Int /\ a * u - b * v \in Int /\ a * k - b * l \in Int  BY <1>6
  <2> QED  BY <1>7, <2>1, FldSame
<1> QED  BY <1>8, <1>9 DEF u, v

\* A complex number is its two parts.
LEMMA ComplexParts ==
  ASSUME NEW a \in Complex
  PROVE  /\ a = <<a[1], a[2]>> /\ a[1] \in Scalars /\ a[2] \in Scalars
         /\ a[1] \in Int /\ a[2] \in Int
<1>1. a = <<a[1], a[2]>> /\ a[1] \in Scalars /\ a[2] \in Scalars  BY DEF Complex
<1>2. \A x \in Scalars : x \in Int  BY DEF Scalars, FieldP
<1> QED  BY <1>1, <1>2

\* The operations stay among the complex numbers.
LEMMA ComplexClosed ==
  ASSUME NEW a \in Complex, NEW b \in Complex
  PROVE  /\ CAdd(a, b) \in Complex /\ CSub(a, b) \in Complex /\ CMul(a, b) \in Complex
         /\ CConj(a) \in Complex /\ MinusI(a) \in Complex
<1>1. /\ a[1] \in Int /\ a[2] \in Int /\ b[1] \in Int /\ b[2] \in Int
      /\ a[1] \in Scalars /\ a[2] \in Scalars
  BY ComplexParts
<1>2. \A x \in Int : Fld(x) \in Scalars  BY FldParts
<1>3. /\ a[1] + b[1] \in Int /\ a[2] + b[2] \in Int /\ a[1] - b[1] \in Int /\ a[2] - b[2] \in Int
      /\ -a[2] \in Int /\ -a[1] \in Int
      /\ a[1] * b[1] - a[2] * b[2] \in Int /\ a[1] * b[2] + a[2] * b[1] \in Int
  BY <1>1
<1> QED  BY <1>1, <1>2, <1>3, Zenon DEF CAdd, CSub, CMul, CConj, MinusI, Complex

\* The product commutes and associates, and <<1, 0>> is its unit.
LEMMA ProductCommutes ==
  ASSUME NEW a \in Complex, NEW b \in Complex
  PROVE  CMul(a, b) = CMul(b, a) /\ CMul(a, <<1, 0>>) = a
<1>1. /\ a[1] \in Int /\ a[2] \in Int /\ b[1] \in Int /\ b[2] \in Int
      /\ a[1] \in Scalars /\ a[2] \in Scalars /\ a = <<a[1], a[2]>>
  BY ComplexParts
<1>2. /\ a[1] * b[1] - a[2] * b[2] = b[1] * a[1] - b[2] * a[2]
      /\ a[1] * b[2] + a[2] * b[1] = b[1] * a[2] + b[2] * a[1]
  BY <1>1
<1>3. CMul(a, b) = CMul(b, a)  BY <1>2 DEF CMul
<1>4. a[1] * 1 - a[2] * 0 = a[1] /\ a[1] * 0 + a[2] * 1 = a[2]  BY <1>1
<1>5. Fld(a[1]) = a[1] /\ Fld(a[2]) = a[2]  BY <1>1, FldParts
<1> QED  BY <1>1, <1>3, <1>4, <1>5 DEF CMul

\* The order in which three factors are multiplied does not matter.
LEMMA ProductAssociates ==
  ASSUME NEW a \in Complex, NEW b \in Complex, NEW c \in Complex
  PROVE  CMul(CMul(a, b), c) = CMul(a, CMul(b, c))
<1> DEFINE a1 == a[1]
           a2 == a[2]
           c1 == c[1]
           c2 == c[2]
           x == a1 * b[1] - a2 * b[2]
           y == a1 * b[2] + a2 * b[1]
           u == b[1] * c1 - b[2] * c2
           v == b[1] * c2 + b[2] * c1
<1>1. /\ a1 \in Int /\ a2 \in Int /\ b[1] \in Int /\ b[2] \in Int /\ c1 \in Int /\ c2 \in Int
  BY ComplexParts
<1>2. x \in Int /\ y \in Int /\ u \in Int /\ v \in Int  BY <1>1
<1>3. c1 * x - c2 * y = a1 * u - a2 * v /\ c2 * x + c1 * y = a1 * v + a2 * u
  BY <1>1
<1>4. CMul(a, b) = <<Fld(x), Fld(y)>> /\ CMul(b, c) = <<Fld(u), Fld(v)>>  BY DEF CMul
<1>5. a1 = a[1] /\ a2 = a[2] /\ c1 = c[1] /\ c2 = c[2]  OBVIOUS
<1> HIDE DEF x, y, u, v, a1, a2, c1, c2
<1>6. Fld(x) \in Int /\ Fld(y) \in Int /\ Fld(u) \in Int /\ Fld(v) \in Int
  BY <1>2, FldParts
<1>7. CMul(CMul(a, b), c) = <<Fld(c1 * Fld(x) - c2 * Fld(y)), Fld(c2 * Fld(x) + c1 * Fld(y))>>
  BY <1>1, <1>4, <1>5, <1>6 DEF CMul
<1>8. CMul(a, CMul(b, c)) = <<Fld(a1 * Fld(u) - a2 * Fld(v)), Fld(a1 * Fld(v) + a2 * Fld(u))>>
  BY <1>4, <1>5 DEF CMul
<1>9. Fld(c1 * Fld(x) - c2 * Fld(y)) = Fld(c1 * x - c2 * y)  BY <1>1, <1>2, FldCombined
<1>10. Fld(c2 * Fld(x) + c1 * Fld(y)) = Fld(c2 * x + c1 * y)  BY <1>1, <1>2, FldCombined
<1>11. Fld(a1 * Fld(u) - a2 * Fld(v)) = Fld(a1 * u - a2 * v)  BY <1>1, <1>2, FldCombined
<1>12. Fld(a1 * Fld(v) + a2 * Fld(u)) = Fld(a1 * v + a2 * u)  BY <1>1, <1>2, FldCombined
<1> QED  BY <1>3, <1>7, <1>8, <1>9, <1>10, <1>11, <1>12

-----------------------------------------------------------------------------
(* The powers of the root of unity *)

\* The loop of a table of powers of w has run.
PowerLoop(w, n, s) ==
  s = [k \in 0 .. n |-> IF k = 0 THEN <<1, 0>> ELSE CMul(s[k - 1], w)]

\* Every such loop ends.
LEMMA PowerLoopExists ==
  ASSUME NEW w
  PROVE  \A n \in Nat : \E s : PowerLoop(w, n, s)
<1> DEFINE Ends == {n \in Nat : \E s : PowerLoop(w, n, s)}
<1>1. 0 \in Ends
  <2>1. PowerLoop(w, 0, [k \in 0 .. 0 |-> <<1, 0>>])  BY DEF PowerLoop
  <2> QED  BY <2>1
<1>2. ASSUME NEW n \in Nat, n \in Ends PROVE n + 1 \in Ends
  <2>1. PICK s : PowerLoop(w, n, s)  BY <1>2
  <2> DEFINE t == [k \in 0 .. n + 1 |-> IF k = n + 1 THEN CMul(s[n], w) ELSE s[k]]
  <2>2. \A k \in 0 .. n : s[k] = IF k = 0 THEN <<1, 0>> ELSE CMul(s[k - 1], w)
    BY <2>1 DEF PowerLoop
  <2>3. \A k \in 0 .. n : t[k] = s[k]  OBVIOUS
  <2>4. t[n + 1] = CMul(s[n], w)  OBVIOUS
  <2>5. t[n + 1] = CMul(t[n], w)  BY <2>3, <2>4
  <2>6. \A k \in 0 .. n : k # 0 => t[k - 1] = s[k - 1]  BY <2>3
  <2>7. t = [k \in 0 .. n + 1 |-> t[k]]  OBVIOUS
  <2> HIDE DEF t
  <2>8. \A k \in 0 .. n + 1 : t[k] = IF k = 0 THEN <<1, 0>> ELSE CMul(t[k - 1], w)
    <3> TAKE k \in 0 .. n + 1
    <3>1. CASE k \in 0 .. n  BY <2>2, <2>3, <2>6, <3>1
    <3>2. CASE k = n + 1
      <4>1. k # 0 /\ k - 1 = n  BY <3>2
      <4> QED  BY <2>5, <3>2, <4>1
    <3> QED  BY <3>1, <3>2
  <2>9. PowerLoop(w, n + 1, t)  BY <2>7, <2>8, Zenon DEF PowerLoop
  <2> QED  BY <2>9
<1> HIDE DEF Ends
<1>3. \A n \in Nat : n \in Ends  BY <1>1, <1>2, SetInduction
<1> QED  BY <1>3 DEF Ends

\* Step by step: one, then w times the entry before.
LEMMA PowerSteps ==
  ASSUME NEW w, NEW n \in Nat, NEW s, PowerLoop(w, n, s)
  PROVE  s[0] = <<1, 0>> /\ \A k \in 0 .. n - 1 : s[k + 1] = CMul(s[k], w)
<1>1. s[0] = <<1, 0>>  BY DEF PowerLoop
<1>2. ASSUME NEW k \in 0 .. n - 1 PROVE s[k + 1] = CMul(s[k], w)
  <2>1. k + 1 \in 0 .. n /\ k + 1 # 0 /\ (k + 1) - 1 = k  OBVIOUS
  <2> QED  BY <2>1 DEF PowerLoop
<1> QED  BY <1>1, <1>2

\* The unit of the product.
LEMMA UnitComplex == <<1, 0>> \in Complex
<1>1. 1 \in Scalars /\ 0 \in Scalars  BY DEF Scalars, FieldP
<1> QED  BY <1>1 DEF Complex

\* The powers of a complex number are complex.
LEMMA PowersComplex ==
  ASSUME NEW w \in Complex, NEW n \in Nat, NEW s, PowerLoop(w, n, s)
  PROVE  \A k \in 0 .. n : s[k] \in Complex
<1> DEFINE In == {k \in Nat : k <= n => s[k] \in Complex}
<1>1. 0 \in In  BY UnitComplex, PowerSteps
<1>2. ASSUME NEW k \in Nat, k \in In PROVE k + 1 \in In
  <2> SUFFICES ASSUME k + 1 <= n PROVE s[k + 1] \in Complex  OBVIOUS
  <2>1. k \in 0 .. n - 1 /\ s[k] \in Complex  BY <1>2
  <2>2. s[k + 1] = CMul(s[k], w)  BY <2>1, PowerSteps
  <2> QED  BY <2>1, <2>2, ComplexClosed
<1> HIDE DEF In
<1>3. \A k \in Nat : k \in In  BY <1>1, <1>2, SetInduction
<1> QED  BY <1>3 DEF In

\* Powers multiply by adding exponents.
LEMMA PowersAdd ==
  ASSUME NEW w \in Complex, NEW n \in Nat, NEW s, PowerLoop(w, n, s), NEW a \in 0 .. n
  PROVE  \A b \in 0 .. n - a : s[a + b] = CMul(s[a], s[b])
<1> DEFINE Adds == {b \in Nat : a + b <= n => s[a + b] = CMul(s[a], s[b])}
<1>0. \A k \in 0 .. n : s[k] \in Complex  BY PowersComplex
<1>1. 0 \in Adds
  <2>1. s[a] \in Complex /\ s[0] = <<1, 0>> /\ a + 0 = a  BY <1>0, PowerSteps
  <2> QED  BY <2>1, ProductCommutes
<1>2. ASSUME NEW b \in Nat, b \in Adds PROVE b + 1 \in Adds
  <2> SUFFICES ASSUME a + (b + 1) <= n PROVE s[a + (b + 1)] = CMul(s[a], s[b + 1])  OBVIOUS
  <2>1. a + b \in 0 .. n - 1 /\ b \in 0 .. n - 1 /\ a + (b + 1) = (a + b) + 1  OBVIOUS
  <2>2. s[(a + b) + 1] = CMul(s[a + b], w) /\ s[b + 1] = CMul(s[b], w)  BY <2>1, PowerSteps
  <2>3. s[a + b] = CMul(s[a], s[b])  BY <1>2
  <2>4. s[a] \in Complex /\ s[b] \in Complex  BY <1>0, <2>1
  <2> QED  BY <2>1, <2>2, <2>3, <2>4, ProductAssociates
<1> HIDE DEF Adds
<1>3. \A b \in Nat : b \in Adds  BY <1>1, <1>2, SetInduction
<1>4. \A b \in 0 .. n - a : b \in Nat /\ a + b <= n  OBVIOUS
<1> QED  BY <1>3, <1>4 DEF Adds

\* The squares that lead from the root to minus i and back to one.
LEMMA RootSquares ==
  /\ CMul(Root, Root) = <<1588, 5416>>
  /\ CMul(<<1588, 5416>>, <<1588, 5416>>) = <<6022, 116>>
  /\ CMul(<<6022, 116>>, <<6022, 116>>) = <<5853, 4634>>
  /\ CMul(<<5853, 4634>>, <<5853, 4634>>) = <<5693, 4802>>
  /\ CMul(<<5693, 4802>>, <<5693, 4802>>) = <<5114, 647>>
  /\ CMul(<<5114, 647>>, <<5114, 647>>) = <<6456, 7379>>
  /\ CMul(<<6456, 7379>>, <<6456, 7379>>) = <<64, 8127>>
  /\ CMul(<<64, 8127>>, <<64, 8127>>) = <<0, 8190>>
  /\ CMul(<<0, 8190>>, <<0, 8190>>) = <<8190, 0>>
  /\ CMul(<<8190, 0>>, <<8190, 0>>) = <<1, 0>>
  /\ CMul(CConj(Root), Root) = <<1, 0>>
<1>1. CMul(Root, Root) = <<1588, 5416>>  BY DEF CMul, Fld, FieldP, Root
<1>2. CMul(<<1588, 5416>>, <<1588, 5416>>) = <<6022, 116>>
  <2>1. 1588 * 1588 - 5416 * 5416 = 6022 + FieldP * (-3274)  BY DEF FieldP
  <2>2. 6022 \in Scalars /\ (-3274) \in Int /\ 1588 * 1588 - 5416 * 5416 \in Int  BY DEF Scalars, FieldP
  <2>3. Fld(1588 * 1588 - 5416 * 5416) = 6022  BY <2>1, <2>2, FldIs
  <2>4. Fld(1588 * 5416 + 5416 * 1588) = 116  BY DEF Fld, FieldP
  <2> QED  BY <2>3, <2>4 DEF CMul
<1>3. CMul(<<6022, 116>>, <<6022, 116>>) = <<5853, 4634>>  BY DEF CMul, Fld, FieldP
<1>4. CMul(<<5853, 4634>>, <<5853, 4634>>) = <<5693, 4802>>  BY DEF CMul, Fld, FieldP
<1>5. CMul(<<5693, 4802>>, <<5693, 4802>>) = <<5114, 647>>  BY DEF CMul, Fld, FieldP
<1>6. CMul(<<5114, 647>>, <<5114, 647>>) = <<6456, 7379>>  BY DEF CMul, Fld, FieldP
<1>7. CMul(<<6456, 7379>>, <<6456, 7379>>) = <<64, 8127>>
  <2>1. 6456 * 6456 - 7379 * 7379 = 64 + FieldP * (-1559)  BY DEF FieldP
  <2>2. 64 \in Scalars /\ (-1559) \in Int /\ 6456 * 6456 - 7379 * 7379 \in Int  BY DEF Scalars, FieldP
  <2>3. Fld(6456 * 6456 - 7379 * 7379) = 64  BY <2>1, <2>2, FldIs
  <2>4. Fld(6456 * 7379 + 7379 * 6456) = 8127  BY DEF Fld, FieldP
  <2> QED  BY <2>3, <2>4 DEF CMul
<1>8. CMul(<<64, 8127>>, <<64, 8127>>) = <<0, 8190>>
  <2>1. 64 * 64 - 8127 * 8127 = 0 + FieldP * (-8063)  BY DEF FieldP
  <2>2. 0 \in Scalars /\ (-8063) \in Int /\ 64 * 64 - 8127 * 8127 \in Int  BY DEF Scalars, FieldP
  <2>3. Fld(64 * 64 - 8127 * 8127) = 0  BY <2>1, <2>2, FldIs
  <2>4. Fld(64 * 8127 + 8127 * 64) = 8190  BY DEF Fld, FieldP
  <2> QED  BY <2>3, <2>4 DEF CMul
<1>9. CMul(<<0, 8190>>, <<0, 8190>>) = <<8190, 0>>
  <2>1. 0 * 0 - 8190 * 8190 = 8190 + FieldP * (-8190)  BY DEF FieldP
  <2>2. 8190 \in Scalars /\ (-8190) \in Int /\ 0 * 0 - 8190 * 8190 \in Int  BY DEF Scalars, FieldP
  <2>3. Fld(0 * 0 - 8190 * 8190) = 8190  BY <2>1, <2>2, FldIs
  <2>4. Fld(0 * 8190 + 8190 * 0) = 0  BY DEF Fld, FieldP
  <2> QED  BY <2>3, <2>4 DEF CMul
<1>10. CMul(<<8190, 0>>, <<8190, 0>>) = <<1, 0>>  BY DEF CMul, Fld, FieldP
<1>11. CMul(CConj(Root), Root) = <<1, 0>>  BY DEF CMul, CConj, Fld, FieldP, Root
<1> QED  BY <1>1, <1>2, <1>3, <1>4, <1>5, <1>6, <1>7, <1>8, <1>9, <1>10, <1>11

\* The 16-th power of w is four squares away, and the 32-nd a fifth.
LEMMA SixteenthPower ==
  ASSUME NEW w \in Complex, NEW s, PowerLoop(w, 31, s),
         NEW w2, w2 = CMul(w, w), NEW w4, w4 = CMul(w2, w2), NEW w8, w8 = CMul(w4, w4)
  PROVE  /\ s[8] = w8 /\ s[16] = CMul(w8, w8)
         /\ CMul(s[31], w) = CMul(s[16], s[16])
<1>1. s[0] = <<1, 0>> /\ \A k \in 0 .. 30 : s[k + 1] = CMul(s[k], w)
  <2>1. 31 \in Nat /\ 31 - 1 = 30  OBVIOUS
  <2> QED  BY <2>1, PowerSteps
<1>2. \A a, b \in 0 .. 31 : a + b <= 31 => s[a + b] = CMul(s[a], s[b])
  <2> TAKE a, b \in 0 .. 31
  <2>1. 31 \in Nat  OBVIOUS
  <2> HAVE a + b <= 31
  <2>2. b \in 0 .. 31 - a  OBVIOUS
  <2> QED  BY <2>1, <2>2, PowersAdd
<1>3. \A k \in 0 .. 31 : s[k] \in Complex
  <2>1. 31 \in Nat  OBVIOUS
  <2> QED  BY <2>1, PowersComplex
<1>4. s[1] = w
  <2>1. s[0 + 1] = CMul(s[0], w)  BY <1>1
  <2> QED  BY <1>1, <2>1, UnitComplex, ProductCommutes
<1>5. s[1 + 1] = CMul(s[1], s[1])  BY <1>2
<1>6. s[2 + 2] = CMul(s[2], s[2])  BY <1>2
<1>7. s[4 + 4] = CMul(s[4], s[4])  BY <1>2
<1>8. s[8 + 8] = CMul(s[8], s[8])  BY <1>2
<1>9. s[16 + 15] = CMul(s[16], s[15])  BY <1>2
<1>10. s[15 + 1] = CMul(s[15], w)  BY <1>1
<1>11. CMul(CMul(s[16], s[15]), w) = CMul(s[16], CMul(s[15], w))
  BY <1>3, ProductAssociates
<1> QED  BY <1>4, <1>5, <1>6, <1>7, <1>8, <1>9, <1>10, <1>11

\* Both tables that Turns is multiplied from.
LEMMA TurnsTables ==
  \E lo, hi : /\ PowerLoop(Root, 31, lo) /\ PowerLoop(CMul(lo[31], Root), 31, hi)
              /\ Turns = [k \in 0 .. FFT_N - 1 |-> CMul(lo[k % 32], hi[k \div 32])]
<1> DEFINE lo == CHOOSE f : f = [k \in 0 .. 31 |-> IF k = 0 THEN <<1, 0>> ELSE CMul(f[k - 1], Root)]
           step == CMul(lo[31], Root)
           hi == CHOOSE f : f = [k \in 0 .. 31 |-> IF k = 0 THEN <<1, 0>> ELSE CMul(f[k - 1], step)]
<1>1. 31 \in Nat  OBVIOUS
<1>2. \E f : f = [k \in 0 .. 31 |-> IF k = 0 THEN <<1, 0>> ELSE CMul(f[k - 1], Root)]
  BY <1>1, PowerLoopExists DEF PowerLoop
<1>3. \E f : f = [k \in 0 .. 31 |-> IF k = 0 THEN <<1, 0>> ELSE CMul(f[k - 1], step)]
  BY <1>1, PowerLoopExists, ZenonT(40) DEF PowerLoop
<1>4. Turns = [k \in 0 .. FFT_N - 1 |-> CMul(lo[k % 32], hi[k \div 32])]  BY DEF Turns
<1>5. lo = [k \in 0 .. 31 |-> IF k = 0 THEN <<1, 0>> ELSE CMul(lo[k - 1], Root)]  BY <1>2, Zenon
<1>6. hi = [k \in 0 .. 31 |-> IF k = 0 THEN <<1, 0>> ELSE CMul(hi[k - 1], step)]  BY <1>3, Zenon
<1>7. PowerLoop(Root, 31, lo)  BY <1>5, Zenon DEF PowerLoop
<1>8. PowerLoop(CMul(lo[31], Root), 31, hi)  BY <1>6, Zenon DEF PowerLoop
<1> HIDE DEF lo, hi
<1> QED  BY <1>4, <1>7, <1>8

-----------------------------------------------------------------------------
(* The turns: a homomorphism from the integers, of period 1024 *)

Turn(e) == Turns[e % FFT_N]

\* The root and its conjugate are complex.
LEMMA RootComplex == Root \in Complex /\ CConj(Root) \in Complex
<1>1. 6470 \in Scalars /\ 4320 \in Scalars  BY DEF Scalars, FieldP
<1>2. Root \in Complex  BY <1>1 DEF Root, Complex
<1> QED  BY <1>2, ComplexClosed

\* Within the table: an entry is Root times the one before, and one follows the last.
TableComplex == \A k \in 0 .. 1023 : Turns[k] \in Complex
TableSteps == \A k \in 0 .. 1022 : Turns[k + 1] = CMul(Turns[k], Root)

\* The table of turns starts at 1, is at -i after a quarter, goes on by one root per
\* entry, and one root after its last entry it is back at 1.
LEMMA TurnsTable ==
  /\ TableComplex /\ TableSteps
  /\ Turns[0] = <<1, 0>> /\ Turns[256] = <<0, 8190>>
  /\ CMul(Turns[1023], Root) = <<1, 0>>
<1>1. PICK lo, hi :
        /\ PowerLoop(Root, 31, lo) /\ PowerLoop(CMul(lo[31], Root), 31, hi)
        /\ Turns = [k \in 0 .. FFT_N - 1 |-> CMul(lo[k % 32], hi[k \div 32])]
  BY TurnsTables
<1> DEFINE step == CMul(lo[31], Root)
<1>2. 31 \in Nat /\ 31 - 1 = 30  OBVIOUS
<1>3. \A k \in 0 .. 31 : lo[k] \in Complex  BY <1>1, <1>2, RootComplex, PowersComplex
<1>4. step \in Complex
  <2>1. lo[31] \in Complex  BY <1>3
  <2> QED  BY <2>1, RootComplex, ComplexClosed
<1>5. PowerLoop(step, 31, hi)  BY <1>1
<1> HIDE DEF step
<1>6. \A k \in 0 .. 31 : hi[k] \in Complex  BY <1>2, <1>4, <1>5, PowersComplex
<1>7. \A k \in 0 .. 1023 : Turns[k] = CMul(lo[k % 32], hi[k \div 32])
  <2>1. FFT_N - 1 = 1023  BY DEF FFT_N
  <2>2. Turns = [k \in 0 .. 1023 |-> CMul(lo[k % 32], hi[k \div 32])]  BY <1>1, <2>1, ZenonT(40)
  <2> QED  BY <2>2, Zenon
<1>8. \A k \in 0 .. 1023 : k % 32 \in 0 .. 31 /\ k \div 32 \in 0 .. 31  OBVIOUS
<1>9. lo[0] = <<1, 0>> /\ \A k \in 0 .. 30 : lo[k + 1] = CMul(lo[k], Root)
  BY <1>1, <1>2, PowerSteps
<1>10. hi[0] = <<1, 0>> /\ \A k \in 0 .. 30 : hi[k + 1] = CMul(hi[k], step)
  BY <1>5, <1>2, PowerSteps
<1>11. ASSUME NEW k \in 0 .. 1023 PROVE Turns[k] \in Complex
  <2>1. lo[k % 32] \in Complex /\ hi[k \div 32] \in Complex  BY <1>3, <1>6, <1>8, Zenon
  <2>2. CMul(lo[k % 32], hi[k \div 32]) \in Complex  BY <2>1, ComplexClosed
  <2> QED  BY <1>7, <2>2, Zenon
<1>12. CMul(lo[16], lo[16]) = step /\ lo[16] = <<5693, 4802>>
  <2>1. /\ lo[16] = CMul(<<5853, 4634>>, <<5853, 4634>>)
        /\ CMul(lo[31], Root) = CMul(lo[16], lo[16])
    BY <1>1, RootComplex, RootSquares, SixteenthPower
  <2> QED  BY <2>1, RootSquares DEF step
<1>13. step = <<5114, 647>>  BY <1>12, RootSquares
<1>14. hi[8] = <<0, 8190>> /\ CMul(hi[31], step) = <<1, 0>>
  <2>1. /\ hi[8] = <<0, 8190>> /\ hi[16] = CMul(<<0, 8190>>, <<0, 8190>>)
        /\ CMul(hi[31], step) = CMul(hi[16], hi[16])
    BY <1>4, <1>5, <1>13, RootSquares, SixteenthPower, SMTT(30)
  <2> QED  BY <2>1, RootSquares
<1>15. Turns[0] = <<1, 0>>
  <2>1. 0 % 32 = 0 /\ 0 \div 32 = 0  OBVIOUS
  <2> QED  BY <1>7, <1>9, <1>10, <2>1, UnitComplex, ProductCommutes
<1>16. Turns[256] = <<0, 8190>>
  <2>1. 256 % 32 = 0 /\ 256 \div 32 = 8  OBVIOUS
  <2>2. hi[8] \in Complex  BY <1>6
  <2> QED  BY <1>7, <1>9, <1>14, <2>1, <2>2, UnitComplex, ProductCommutes
<1>17. ASSUME NEW k \in 0 .. 1022 PROVE Turns[k + 1] = CMul(Turns[k], Root)
  <2> DEFINE l == k % 32
             h == k \div 32
  <2>1. l \in 0 .. 31 /\ h \in 0 .. 31 /\ k = 32 * h + l  OBVIOUS
  <2>2. lo[l] \in Complex /\ hi[h] \in Complex  BY <1>3, <1>6, <2>1
  <2>3. Turns[k] = CMul(lo[l], hi[h])
    <3>1. k \in 0 .. 1023  OBVIOUS
    <3> QED  BY <1>7, <3>1, ZenonT(40)
  <2>4. CMul(Turns[k], Root) = CMul(CMul(lo[l], Root), hi[h])
    <3>1. CMul(CMul(hi[h], lo[l]), Root) = CMul(hi[h], CMul(lo[l], Root))
      BY <2>2, RootComplex, ProductAssociates
    <3>2. CMul(lo[l], hi[h]) = CMul(hi[h], lo[l])  BY <2>2, ProductCommutes
    <3>3. CMul(lo[l], Root) \in Complex  BY <2>2, RootComplex, ComplexClosed
    <3>4. CMul(hi[h], CMul(lo[l], Root)) = CMul(CMul(lo[l], Root), hi[h])
      BY <2>2, <3>3, ProductCommutes
    <3> QED  BY <2>3, <3>1, <3>2, <3>4
  <2>5. Turns[k + 1] = CMul(lo[(k + 1) % 32], hi[(k + 1) \div 32])
    <3>1. k + 1 \in 0 .. 1023  OBVIOUS
    <3> QED  BY <1>7, <3>1, ZenonT(40)
  <2>6. CASE l \in 0 .. 30
    <3>1. (k + 1) % 32 = l + 1 /\ (k + 1) \div 32 = h  BY <2>1, <2>6
    <3> HIDE DEF l, h
    <3> QED  BY <1>9, <2>4, <2>5, <2>6, <3>1
  <2>7. CASE l = 31
    <3>1. (k + 1) % 32 = 0 /\ (k + 1) \div 32 = h + 1 /\ h \in 0 .. 30  BY <2>1, <2>7
    <3> HIDE DEF l, h
    <3>2. Turns[k + 1] = CMul(<<1, 0>>, CMul(hi[h], step))  BY <1>9, <1>10, <2>5, <3>1
    <3>3. CMul(hi[h], step) = CMul(step, hi[h]) /\ CMul(hi[h], step) \in Complex
      BY <1>4, <2>2, ProductCommutes, ComplexClosed
    <3>4. CMul(<<1, 0>>, CMul(hi[h], step)) = CMul(hi[h], step)
      BY <3>3, UnitComplex, ProductCommutes
    <3> QED  BY <2>4, <2>7, <3>2, <3>3, <3>4 DEF step
  <2> QED  BY <2>1, <2>6, <2>7
<1>18. CMul(Turns[1023], Root) = <<1, 0>>
  <2>1. 1023 % 32 = 31 /\ 1023 \div 32 = 31  OBVIOUS
  <2>2. Turns[1023] = CMul(lo[31], hi[31]) /\ lo[31] \in Complex /\ hi[31] \in Complex
    BY <1>3, <1>6, <1>7, <2>1
  <2>3. CMul(lo[31], hi[31]) = CMul(hi[31], lo[31])  BY <2>2, ProductCommutes
  <2>4. CMul(CMul(hi[31], lo[31]), Root) = CMul(hi[31], step)
    BY <2>2, RootComplex, ProductAssociates DEF step
  <2> QED  BY <1>14, <2>2, <2>3, <2>4
<1>19. TableComplex  BY <1>11, Zenon DEF TableComplex
<1>20. TableSteps  BY <1>17, Zenon DEF TableSteps
<1> QED  BY <1>15, <1>16, <1>18, <1>19, <1>20

\* A turn depends on its number modulo 1024 only.
LEMMA TurnPeriod ==
  ASSUME NEW e \in Int, NEW f \in Int, e % 1024 = f % 1024
  PROVE  Turn(e) = Turn(f)
BY DEF Turn, FFT_N

\* The turns of all integers, no longer only of the table, go on by one root each.
LEMMA TurnSteps ==
  /\ Turn(0) = <<1, 0>> /\ Turn(256) = <<0, 8190>>
  /\ \A e \in Int : Turn(e) \in Complex /\ Turn(e + 1) = CMul(Turn(e), Root)
<1>1. 0 % 1024 = 0 /\ 256 % 1024 = 256  OBVIOUS
<1>2. Turn(0) = <<1, 0>> /\ Turn(256) = <<0, 8190>>  BY <1>1, TurnsTable DEF Turn, FFT_N
<1>3. ASSUME NEW e \in Int PROVE Turn(e) \in Complex /\ Turn(e + 1) = CMul(Turn(e), Root)
  <2> DEFINE k == e % 1024
  <2>1. k \in 0 .. 1023  OBVIOUS
  <2>2. (e + 1) % 1024 = IF k = 1023 THEN 0 ELSE k + 1  OBVIOUS
  <2>3. Turn(e) = Turns[k] /\ Turn(e + 1) = Turns[(e + 1) % 1024]  BY DEF Turn, FFT_N
  <2> HIDE DEF k
  <2>4. Turn(e) \in Complex
    <3>1. TableComplex  BY TurnsTable
    <3>2. Turns[k] \in Complex  BY <2>1, <3>1, Zenon DEF TableComplex
    <3> QED  BY <2>3, <3>2
  <2>5. CASE k = 1023
    <3>1. (e + 1) % 1024 = 0  BY <2>2, <2>5
    <3>2. Turn(e) = Turns[1023] /\ Turn(e + 1) = Turns[0]  BY <2>3, <2>5, <3>1, ZenonT(40)
    <3>3. CMul(Turns[1023], Root) = <<1, 0>> /\ Turns[0] = <<1, 0>>  BY TurnsTable
    <3> QED  BY <2>4, <3>2, <3>3
  <2>6. CASE k # 1023
    <3>1. k \in 0 .. 1022 /\ (e + 1) % 1024 = k + 1  BY <2>1, <2>2, <2>6
    <3>2. TableSteps  BY TurnsTable
    <3>3. Turns[k + 1] = CMul(Turns[k], Root)  BY <3>1, <3>2, Zenon DEF TableSteps
    <3> QED  BY <2>3, <2>4, <3>1, <3>3, ZenonT(40)
  <2> QED  BY <2>4, <2>5, <2>6
<1> QED  BY <1>2, <1>3

\* Turns multiply by adding.
LEMMA TurnsAdd ==
  ASSUME NEW e \in Int, NEW f \in Int
  PROVE  CMul(Turn(e), Turn(f)) = Turn(e + f)
<1> DEFINE Adds == {k \in Nat : Turn(e + k) = CMul(Turn(e), Turn(k))}
<1>1. 0 \in Adds
  <2>1. e + 0 = e /\ Turn(e) \in Complex /\ Turn(0) = <<1, 0>>  BY TurnSteps
  <2> QED  BY <2>1, ProductCommutes
<1>2. ASSUME NEW k \in Nat, k \in Adds PROVE k + 1 \in Adds
  <2>1. e + k \in Int /\ k \in Int /\ e + (k + 1) = (e + k) + 1  OBVIOUS
  <2>2. Turn((e + k) + 1) = CMul(Turn(e + k), Root) /\ Turn(k + 1) = CMul(Turn(k), Root)
    BY <2>1, TurnSteps
  <2>3. Turn(e + k) = CMul(Turn(e), Turn(k))  BY <1>2
  <2>4. Turn(e) \in Complex /\ Turn(k) \in Complex  BY TurnSteps
  <2>5. CMul(CMul(Turn(e), Turn(k)), Root) = CMul(Turn(e), CMul(Turn(k), Root))
    BY <2>4, RootComplex, ProductAssociates
  <2> QED  BY <2>1, <2>2, <2>3, <2>5
<1> HIDE DEF Adds
<1>3. \A k \in Nat : k \in Adds  BY <1>1, <1>2, SetInduction
<1> DEFINE k == f % 1024
<1>4. k \in Nat /\ f \div 1024 \in Int /\ f = k + 1024 * (f \div 1024)
      /\ e + f = (e + k) + 1024 * (f \div 1024) /\ e + k \in Int
  OBVIOUS
<1> HIDE DEF k
<1>5. Turn(f) = Turn(k) /\ Turn(e + f) = Turn(e + k)
  <2>1. Turn(f) = Turn(k)
    <3>1. f % 1024 = k % 1024 /\ k \in Int  BY <1>4
    <3> QED  BY <3>1, TurnPeriod
  <2>2. Turn(e + f) = Turn(e + k)
    <3> DEFINE u == e + f
               v == e + k
    <3>1. u \in Int /\ v \in Int /\ u % 1024 = v % 1024  BY <1>4
    <3> HIDE DEF u, v
    <3>2. Turn(u) = Turn(v)  BY <3>1, TurnPeriod
    <3> QED  BY <3>2 DEF u, v
  <2> QED  BY <2>1, <2>2
<1>6. k \in Adds  BY <1>3, <1>4
<1> QED  BY <1>5, <1>6 DEF Adds

\* Conjugation is multiplicative.
LEMMA ConjMul ==
  ASSUME NEW a \in Complex, NEW b \in Complex
  PROVE  CConj(CMul(a, b)) = CMul(CConj(a), CConj(b))
<1> DEFINE a1 == a[1]
           a2 == a[2]
           b1 == b[1]
           b2 == b[2]
           x == a1 * b1 - a2 * b2
           y == a1 * b2 + a2 * b1
<1>1. a1 \in Int /\ a2 \in Int /\ b1 \in Int /\ b2 \in Int  BY ComplexParts
<1>2. x \in Int /\ y \in Int  BY <1>1
<1>3. CMul(a, b) = <<Fld(x), Fld(y)>>  BY DEF CMul
<1>4. CConj(a) = <<a1, Fld(-a2)>> /\ CConj(b) = <<b1, Fld(-b2)>>  BY DEF CConj
<1>5. x = a1 * b1 - a2 * b2 /\ y = a1 * b2 + a2 * b1  OBVIOUS
<1> HIDE DEF x, y, a1, a2, b1, b2
<1> DEFINE m == Fld(-a2)
           n == Fld(-b2)
<1>6. m \in Int /\ n \in Int /\ -a2 \in Int /\ -b2 \in Int  BY <1>1, FldParts
<1>7. CMul(CConj(a), CConj(b)) = <<Fld(a1 * b1 - m * n), Fld(a1 * n + m * b1)>>
  BY <1>4 DEF CMul
<1>8. CConj(CMul(a, b)) = <<Fld(x), Fld(-Fld(y))>>  BY <1>3 DEF CConj
<1>9. PICK k \in Int : -a2 = m + FieldP * k  BY <1>6, FldParts
<1>10. PICK l \in Int : -b2 = n + FieldP * l  BY <1>6, FldParts
<1> HIDE DEF m, n
<1>11. Fld(a1 * b1 - m * n) = Fld(x)
  <2>1. x = (a1 * b1 - m * n) + FieldP * (k * b2 - m * l)
    <3>1. a2 * b2 = (-a2) * (-b2) /\ (-a2) * (-b2) = m * n + FieldP * (m * l) + FieldP * (k * (-b2))
      BY <1>1, <1>6, <1>9, <1>10 DEF FieldP
    <3>2. k * (-b2) = -(k * b2) /\ k * b2 \in Int /\ m * l \in Int /\ m * n \in Int /\ a1 * b1 \in Int
      BY <1>1, <1>6
    <3> QED  BY <1>5, <3>1, <3>2 DEF FieldP
  <2>2. a1 * b1 - m * n \in Int /\ k * b2 - m * l \in Int  BY <1>1, <1>6
  <2> QED  BY <1>2, <2>1, <2>2, FldSame
<1>12. Fld(a1 * n + m * b1) = Fld(-y)
  <2>1. -y = (a1 * n + m * b1) + FieldP * (a1 * l + k * b1)
    <3>1. -y = a1 * (-b2) + (-a2) * b1  BY <1>1, <1>5
    <3>2. a1 * (-b2) = a1 * n + FieldP * (a1 * l) /\ (-a2) * b1 = m * b1 + FieldP * (k * b1)
      BY <1>1, <1>6, <1>9, <1>10 DEF FieldP
    <3>3. a1 * n \in Int /\ a1 * l \in Int /\ m * b1 \in Int /\ k * b1 \in Int
      BY <1>1, <1>6
    <3> QED  BY <3>1, <3>2, <3>3 DEF FieldP
  <2>2. a1 * n + m * b1 \in Int /\ a1 * l + k * b1 \in Int /\ -y \in Int  BY <1>1, <1>2, <1>6
  <2> QED  BY <2>1, <2>2, FldSame
<1>13. Fld(-Fld(y)) = Fld(-y)
  <2>1. PICK j \in Int : y = Fld(y) + FieldP * j  BY <1>2, FldParts
  <2>2. Fld(y) \in Int  BY <1>2, FldParts
  <2>3. -Fld(y) = -y + FieldP * j /\ -Fld(y) \in Int /\ -y \in Int  BY <1>2, <2>1, <2>2 DEF FieldP
  <2> QED  BY <2>3, FldSame
<1> QED  BY <1>7, <1>8, <1>11, <1>12, <1>13

\* The conjugate of a turn is the turn back.
LEMMA TurnConj ==
  ASSUME NEW e \in Int
  PROVE  CConj(Turn(e)) = Turn(-e)
<1>1. Turn(-1) = CConj(Root)
  <2>1. Turn(-1) \in Complex /\ Turn(-1 + 1) = CMul(Turn(-1), Root)  BY TurnSteps
  <2>2. -1 + 1 = 0 /\ Turn(0) = <<1, 0>>  BY TurnSteps
  <2>3. CMul(Root, CConj(Root)) = <<1, 0>>  BY RootComplex, RootSquares, ProductCommutes
  <2>4. CMul(CMul(Turn(-1), Root), CConj(Root)) = CMul(Turn(-1), CMul(Root, CConj(Root)))
    BY <2>1, RootComplex, ProductAssociates
  <2>5. CMul(<<1, 0>>, CConj(Root)) = CConj(Root)
    BY RootComplex, UnitComplex, ProductCommutes
  <2>6. CMul(Turn(-1), <<1, 0>>) = Turn(-1)  BY <2>1, ProductCommutes
  <2> QED  BY <2>1, <2>2, <2>3, <2>4, <2>5, <2>6
<1> DEFINE Back == {k \in Nat : \A f \in Int : f + k = 0 => CConj(Turn(k)) = Turn(f)}
<1>2. 0 \in Back
  <2>1. Turn(0) = <<1, 0>>  BY TurnSteps
  <2>2. CConj(<<1, 0>>) = <<1, 0>>  BY DEF CConj, Fld, FieldP
  <2>3. \A f \in Int : f + 0 = 0 => f = 0  OBVIOUS
  <2> QED  BY <2>1, <2>2, <2>3
<1>3. ASSUME NEW k \in Nat, k \in Back PROVE k + 1 \in Back
  <2> SUFFICES ASSUME NEW f \in Int, f + (k + 1) = 0 PROVE CConj(Turn(k + 1)) = Turn(f)
    OBVIOUS
  <2> DEFINE g == f + 1
  <2>1. Turn(k) \in Complex /\ Turn(k + 1) = CMul(Turn(k), Root)  BY TurnSteps
  <2>2. g \in Int /\ g + k = 0 /\ -1 \in Int /\ g + -1 = f  OBVIOUS
  <2> HIDE DEF g
  <2>3. CConj(Turn(k)) = Turn(g)  BY <1>3, <2>2
  <2>4. CConj(Turn(k + 1)) = CMul(Turn(g), CConj(Root))  BY <2>1, <2>3, RootComplex, ConjMul
  <2>5. CMul(Turn(g), Turn(-1)) = Turn(g + -1)  BY <2>2, TurnsAdd
  <2> QED  BY <1>1, <2>2, <2>4, <2>5
<1> HIDE DEF Back
<1>4. \A k \in Nat : k \in Back  BY <1>2, <1>3, SetInduction
<1> DEFINE k == e % 1024
<1>5. /\ k \in Nat /\ e \div 1024 \in Int /\ e = k + 1024 * (e \div 1024)
      /\ -e \in Int /\ -k \in Int /\ -e = -k + 1024 * (-(e \div 1024)) /\ -(e \div 1024) \in Int
  OBVIOUS
<1> HIDE DEF k
<1>6. Turn(e) = Turn(k)
  <2>1. e % 1024 = k % 1024  BY <1>5
  <2> QED  BY <1>5, <2>1, TurnPeriod
<1>7. Turn(-e) = Turn(-k)
  <2> DEFINE u == -e
             v == -k
  <2>1. u \in Int /\ v \in Int /\ u % 1024 = v % 1024  BY <1>5
  <2> HIDE DEF u, v
  <2>2. Turn(u) = Turn(v)  BY <2>1, TurnPeriod
  <2> QED  BY <2>2 DEF u, v
<1>8. k \in Back  BY <1>4, <1>5
<1>9. CConj(Turn(k)) = Turn(-k)
  <2>1. -k \in Int /\ -k + k = 0  BY <1>5
  <2> QED  BY <1>8, <2>1 DEF Back
<1> QED  BY <1>6, <1>7, <1>9

-----------------------------------------------------------------------------
(* Sums of complex numbers, and what the transform's operations do to them *)

\* Residues may be taken before a sum, a difference or a negation as well as after.
LEMMA FldSum ==
  ASSUME NEW x \in Int, NEW y \in Int
  PROVE  /\ Fld(Fld(x) + Fld(y)) = Fld(x + y) /\ Fld(Fld(x) - Fld(y)) = Fld(x - y)
         /\ Fld(-Fld(x)) = Fld(-x)
<1>1. Fld(x) \in Int /\ Fld(y) \in Int  BY FldParts
<1>2. /\ Fld(1 * Fld(x) + 1 * Fld(y)) = Fld(1 * x + 1 * y)
      /\ Fld(1 * Fld(x) - 1 * Fld(y)) = Fld(1 * x - 1 * y)
  BY FldCombined
<1>3. 1 * Fld(x) + 1 * Fld(y) = Fld(x) + Fld(y) /\ 1 * Fld(x) - 1 * Fld(y) = Fld(x) - Fld(y)
      /\ 1 * x + 1 * y = x + y /\ 1 * x - 1 * y = x - y
  BY <1>1
<1>4. Fld(-Fld(x)) = Fld(-x)
  <2>1. PICK k \in Int : x = Fld(x) + FieldP * k  BY FldParts
  <2>2. -Fld(x) = -x + FieldP * k /\ -Fld(x) \in Int /\ -x \in Int  BY <1>1, <2>1 DEF FieldP
  <2> QED  BY <2>2, FldSame
<1> QED  BY <1>2, <1>3, <1>4

\* Addition commutes and associates, with the unit <<0, 0>>.
LEMMA ZeroComplex ==
  /\ <<0, 0>> \in Complex
  /\ \A a \in Complex : CAdd(a, <<0, 0>>) = a /\ CAdd(<<0, 0>>, a) = a /\ CSub(a, <<0, 0>>) = a
  /\ \A a \in Complex : CMul(<<0, 0>>, a) = <<0, 0>>
  /\ CConj(<<0, 0>>) = <<0, 0>> /\ CSub(<<0, 0>>, <<0, 0>>) = <<0, 0>>
<1>1. 0 \in Scalars /\ 0 \in Int /\ Fld(0) = 0
  <2>1. 0 \in Scalars  BY DEF Scalars, FieldP
  <2> QED  BY <2>1, FldParts
<1>2. ASSUME NEW a \in Complex
      PROVE  /\ CAdd(a, <<0, 0>>) = a /\ CAdd(<<0, 0>>, a) = a /\ CSub(a, <<0, 0>>) = a
             /\ CMul(<<0, 0>>, a) = <<0, 0>>
  <2>1. /\ a = <<a[1], a[2]>> /\ a[1] \in Int /\ a[2] \in Int /\ a[1] \in Scalars /\ a[2] \in Scalars
    BY ComplexParts
  <2>2. Fld(a[1]) = a[1] /\ Fld(a[2]) = a[2]  BY <2>1, FldParts
  <2>3. a[1] + 0 = a[1] /\ a[2] + 0 = a[2] /\ 0 + a[1] = a[1] /\ 0 + a[2] = a[2]
        /\ a[1] - 0 = a[1] /\ a[2] - 0 = a[2]
        /\ 0 * a[1] - 0 * a[2] = 0 /\ 0 * a[2] + 0 * a[1] = 0
    BY <2>1
  <2> QED  BY <1>1, <2>1, <2>2, <2>3 DEF CAdd, CSub, CMul
<1>3. CConj(<<0, 0>>) = <<0, 0>> /\ CSub(<<0, 0>>, <<0, 0>>) = <<0, 0>>
  <2>1. CConj(<<0, 0>>) = <<0, 0>>  BY DEF CConj, Fld, FieldP
  <2>2. <<0, 0>> \in Complex  BY <1>1 DEF Complex
  <2> QED  BY <1>2, <2>1, <2>2
<1>4. <<0, 0>> \in Complex  BY <1>1 DEF Complex
<1> QED  BY <1>2, <1>3, <1>4

\* Pairs of residues add part by part.
LEMMA PairSum ==
  ASSUME NEW x \in Int, NEW y \in Int, NEW u \in Int, NEW v \in Int
  PROVE  /\ CAdd(<<Fld(x), Fld(y)>>, <<Fld(u), Fld(v)>>) = <<Fld(x + u), Fld(y + v)>>
         /\ CSub(<<Fld(x), Fld(y)>>, <<Fld(u), Fld(v)>>) = <<Fld(x - u), Fld(y - v)>>
<1>1. Fld(Fld(x) + Fld(u)) = Fld(x + u) /\ Fld(Fld(x) - Fld(u)) = Fld(x - u)  BY FldSum
<1>2. Fld(Fld(y) + Fld(v)) = Fld(y + v) /\ Fld(Fld(y) - Fld(v)) = Fld(y - v)  BY FldSum
<1> QED  BY <1>1, <1>2 DEF CAdd, CSub

\* Every operation is additive.
LEMMA Additive ==
  ASSUME NEW a \in Complex, NEW b \in Complex, NEW c \in Complex, NEW d \in Complex
  PROVE  /\ CAdd(CAdd(a, b), CAdd(c, d)) = CAdd(CAdd(a, c), CAdd(b, d))
         /\ CSub(CAdd(a, b), CAdd(c, d)) = CAdd(CSub(a, c), CSub(b, d))
         /\ CMul(CAdd(a, b), c) = CAdd(CMul(a, c), CMul(b, c))
         /\ CConj(CAdd(a, b)) = CAdd(CConj(a), CConj(b))
<1> DEFINE a1 == a[1]
           a2 == a[2]
           b1 == b[1]
           b2 == b[2]
           c1 == c[1]
           c2 == c[2]
           d1 == d[1]
           d2 == d[2]
<1>1. /\ a1 \in Int /\ a2 \in Int /\ b1 \in Int /\ b2 \in Int
      /\ c1 \in Int /\ c2 \in Int /\ d1 \in Int /\ d2 \in Int
  BY ComplexParts
<1>2. /\ a1 = a[1] /\ a2 = a[2] /\ b1 = b[1] /\ b2 = b[2]
      /\ c1 = c[1] /\ c2 = c[2] /\ d1 = d[1] /\ d2 = d[2]
  OBVIOUS
<1> HIDE DEF a1, a2, b1, b2, c1, c2, d1, d2
<1>3. /\ CAdd(a, b) = <<Fld(a1 + b1), Fld(a2 + b2)>>
      /\ CAdd(c, d) = <<Fld(c1 + d1), Fld(c2 + d2)>>
      /\ CAdd(a, c) = <<Fld(a1 + c1), Fld(a2 + c2)>>
      /\ CAdd(b, d) = <<Fld(b1 + d1), Fld(b2 + d2)>>
      /\ CSub(a, c) = <<Fld(a1 - c1), Fld(a2 - c2)>>
      /\ CSub(b, d) = <<Fld(b1 - d1), Fld(b2 - d2)>>
      /\ CMul(a, c) = <<Fld(a1 * c1 - a2 * c2), Fld(a1 * c2 + a2 * c1)>>
      /\ CMul(b, c) = <<Fld(b1 * c1 - b2 * c2), Fld(b1 * c2 + b2 * c1)>>
      /\ CConj(a) = <<a1, Fld(-a2)>> /\ CConj(b) = <<b1, Fld(-b2)>>
  BY <1>2 DEF CAdd, CSub, CMul, CConj
<1>4. /\ a1 + b1 \in Int /\ a2 + b2 \in Int /\ c1 + d1 \in Int /\ c2 + d2 \in Int
      /\ a1 + c1 \in Int /\ a2 + c2 \in Int /\ b1 + d1 \in Int /\ b2 + d2 \in Int
      /\ a1 - c1 \in Int /\ a2 - c2 \in Int /\ b1 - d1 \in Int /\ b2 - d2 \in Int
      /\ a1 * c1 - a2 * c2 \in Int /\ a1 * c2 + a2 * c1 \in Int
      /\ b1 * c1 - b2 * c2 \in Int /\ b1 * c2 + b2 * c1 \in Int
      /\ -a2 \in Int /\ -b2 \in Int
  BY <1>1
<1>5. \A x, y \in Int : /\ Fld(Fld(x) + Fld(y)) = Fld(x + y)
                        /\ Fld(Fld(x) - Fld(y)) = Fld(x - y) /\ Fld(-Fld(x)) = Fld(-x)
  BY FldSum
<1>6. CAdd(CAdd(a, b), CAdd(c, d)) = CAdd(CAdd(a, c), CAdd(b, d))
  <2> DEFINE p1 == a1 + b1
             p2 == a2 + b2
             q1 == c1 + d1
             q2 == c2 + d2
             r1 == a1 + c1
             r2 == a2 + c2
             s1 == b1 + d1
             s2 == b2 + d2
  <2>1. /\ p1 \in Int /\ p2 \in Int /\ q1 \in Int /\ q2 \in Int
        /\ r1 \in Int /\ r2 \in Int /\ s1 \in Int /\ s2 \in Int
        /\ p1 + q1 = r1 + s1 /\ p2 + q2 = r2 + s2
    BY <1>1
  <2>2. /\ CAdd(a, b) = <<Fld(p1), Fld(p2)>> /\ CAdd(c, d) = <<Fld(q1), Fld(q2)>>
        /\ CAdd(a, c) = <<Fld(r1), Fld(r2)>> /\ CAdd(b, d) = <<Fld(s1), Fld(s2)>>
    BY <1>3
  <2> HIDE DEF p1, p2, q1, q2, r1, r2, s1, s2
  <2>3. CAdd(CAdd(a, b), CAdd(c, d)) = <<Fld(p1 + q1), Fld(p2 + q2)>>  BY <2>1, <2>2, PairSum
  <2>4. CAdd(CAdd(a, c), CAdd(b, d)) = <<Fld(r1 + s1), Fld(r2 + s2)>>  BY <2>1, <2>2, PairSum
  <2> QED  BY <2>1, <2>3, <2>4
<1>7. CSub(CAdd(a, b), CAdd(c, d)) = CAdd(CSub(a, c), CSub(b, d))
  <2> DEFINE p1 == a1 + b1
             p2 == a2 + b2
             q1 == c1 + d1
             q2 == c2 + d2
             r1 == a1 - c1
             r2 == a2 - c2
             s1 == b1 - d1
             s2 == b2 - d2
  <2>1. /\ p1 \in Int /\ p2 \in Int /\ q1 \in Int /\ q2 \in Int
        /\ r1 \in Int /\ r2 \in Int /\ s1 \in Int /\ s2 \in Int
        /\ p1 - q1 = r1 + s1 /\ p2 - q2 = r2 + s2
    BY <1>1
  <2>2. /\ CAdd(a, b) = <<Fld(p1), Fld(p2)>> /\ CAdd(c, d) = <<Fld(q1), Fld(q2)>>
        /\ CSub(a, c) = <<Fld(r1), Fld(r2)>> /\ CSub(b, d) = <<Fld(s1), Fld(s2)>>
    BY <1>3
  <2> HIDE DEF p1, p2, q1, q2, r1, r2, s1, s2
  <2>3. CSub(CAdd(a, b), CAdd(c, d)) = <<Fld(p1 - q1), Fld(p2 - q2)>>
    <3>1. CSub(<<Fld(p1), Fld(p2)>>, <<Fld(q1), Fld(q2)>>) = <<Fld(p1 - q1), Fld(p2 - q2)>>
      BY <2>1, PairSum
    <3> QED  BY <2>2, <3>1
  <2>4. CAdd(CSub(a, c), CSub(b, d)) = <<Fld(r1 + s1), Fld(r2 + s2)>>  BY <2>1, <2>2, PairSum
  <2> QED  BY <2>1, <2>3, <2>4
<1>8. CMul(CAdd(a, b), c) = CAdd(CMul(a, c), CMul(b, c))
  <2> DEFINE x == a1 + b1
             y == a2 + b2
             u == a1 * c1 - a2 * c2
             v == a1 * c2 + a2 * c1
             s == b1 * c1 - b2 * c2
             t == b1 * c2 + b2 * c1
  <2>1. /\ x \in Int /\ y \in Int /\ u \in Int /\ v \in Int /\ s \in Int /\ t \in Int
        /\ c1 * x - c2 * y = u + s /\ c2 * x + c1 * y = v + t
    BY <1>1
  <2>2. CAdd(a, b) = <<Fld(x), Fld(y)>> /\ CMul(a, c) = <<Fld(u), Fld(v)>>
        /\ CMul(b, c) = <<Fld(s), Fld(t)>>
    BY <1>3
  <2> HIDE DEF x, y, u, v, s, t
  <2>3. Fld(x) \in Int /\ Fld(y) \in Int  BY <2>1, FldParts
  <2>4. /\ Fld(x) * c1 - Fld(y) * c2 = c1 * Fld(x) - c2 * Fld(y)
        /\ Fld(x) * c2 + Fld(y) * c1 = c2 * Fld(x) + c1 * Fld(y)
    BY <1>1, <2>3
  <2>5. CMul(CAdd(a, b), c) = <<Fld(c1 * Fld(x) - c2 * Fld(y)), Fld(c2 * Fld(x) + c1 * Fld(y))>>
    BY <1>2, <2>2, <2>4 DEF CMul
  <2>6. Fld(c1 * Fld(x) - c2 * Fld(y)) = Fld(c1 * x - c2 * y)  BY <1>1, <2>1, FldCombined
  <2>7. Fld(c2 * Fld(x) + c1 * Fld(y)) = Fld(c2 * x + c1 * y)  BY <1>1, <2>1, FldCombined
  <2>8. CAdd(CMul(a, c), CMul(b, c)) = <<Fld(u + s), Fld(v + t)>>
    BY <1>5, <2>1, <2>2 DEF CAdd
  <2> QED  BY <2>1, <2>5, <2>6, <2>7, <2>8
<1>9. CConj(CAdd(a, b)) = CAdd(CConj(a), CConj(b))
  <2>1. CConj(CAdd(a, b)) = <<Fld(a1 + b1), Fld(-(a2 + b2))>>
    BY <1>3, <1>4, <1>5 DEF CConj
  <2>2. CAdd(CConj(a), CConj(b)) = <<Fld(a1 + b1), Fld(-a2 + -b2)>>
    BY <1>3, <1>4, <1>5 DEF CAdd
  <2>3. -(a2 + b2) = -a2 + -b2  BY <1>1
  <2> QED  BY <2>1, <2>2, <2>3
<1> QED  BY <1>6, <1>7, <1>8, <1>9

\* The sum of f[0], ..., f[m - 1].
CSum(m, f) == <<Fld(SumTo(m, [j \in Nat |-> f[j][1]])), Fld(SumTo(m, [j \in Nat |-> f[j][2]]))>>

\* A sum is the sum of all terms but the last, plus the last.
LEMMA CSumStep ==
  ASSUME NEW f, NEW m \in Nat, \A j \in 0 .. m : f[j] \in Complex
  PROVE  /\ CSum(m + 1, f) = CAdd(CSum(m, f), f[m])
         /\ CSum(m, f) \in Complex
<1> DEFINE re == [j \in Nat |-> f[j][1]]
           im == [j \in Nat |-> f[j][2]]
           x == SumTo(m, re)
           y == SumTo(m, im)
<1>1. \A j \in 0 .. m : re[j] = f[j][1] /\ im[j] = f[j][2]  OBVIOUS
<1>2. \A n \in Nat : CSum(n, f) = <<Fld(SumTo(n, re)), Fld(SumTo(n, im))>>  BY DEF CSum
<1> HIDE DEF re, im
<1>3. /\ SumTo(m + 1, re) = SumTo(m, re) + re[m] /\ SumTo(m + 1, im) = SumTo(m, im) + im[m]
  BY SumToStep
<1>4. \A j \in 0 .. m : re[j] \in Int /\ im[j] \in Int  BY <1>1, ComplexParts
<1>5. x \in Int /\ y \in Int
  <2>1. \A j \in 0 .. m - 1 : re[j] \in Int /\ im[j] \in Int  BY <1>4
  <2> QED  BY <2>1, SumToInt
<1> DEFINE u == re[m]
           v == im[m]
<1>8. f[m] = <<u, v>> /\ u \in Int /\ v \in Int /\ u \in Scalars /\ v \in Scalars
  <2>1. m \in 0 .. m  OBVIOUS
  <2> QED  BY <1>1, <2>1, ComplexParts
<1>9. m + 1 \in Nat  OBVIOUS
<1>10. CSum(m + 1, f) = <<Fld(x + u), Fld(y + v)>> /\ CSum(m, f) = <<Fld(x), Fld(y)>>
  BY <1>2, <1>3, <1>9
<1> HIDE DEF x, y, u, v
<1>11. Fld(u) = u /\ Fld(v) = v  BY <1>8, FldParts
<1>12. Fld(Fld(x) + Fld(u)) = Fld(x + u) /\ Fld(Fld(y) + Fld(v)) = Fld(y + v)
  BY <1>5, <1>8, FldSum
<1>13. CAdd(CSum(m, f), f[m]) = <<Fld(x + u), Fld(y + v)>>
  BY <1>8, <1>10, <1>11, <1>12 DEF CAdd
<1>14. CSum(m, f) \in Complex  BY <1>5, <1>10, FldParts DEF Complex
<1> QED  BY <1>10, <1>13, <1>14

\* The sum of no terms.
LEMMA CSumZero ==
  ASSUME NEW f
  PROVE  CSum(0, f) = <<0, 0>>
<1>1. SumTo(0, [j \in Nat |-> f[j][1]]) = 0  BY SumToStep
<1>2. SumTo(0, [j \in Nat |-> f[j][2]]) = 0  BY SumToStep
<1>3. Fld(0) = 0  BY DEF Fld, FieldP
<1> QED  BY <1>1, <1>2, <1>3 DEF CSum

\* A sum of complex numbers is one.
LEMMA CSumComplex ==
  ASSUME NEW f, NEW m \in Nat, \A j \in 0 .. m - 1 : f[j] \in Complex
  PROVE  CSum(m, f) \in Complex
<1> DEFINE x == SumTo(m, [j \in Nat |-> f[j][1]])
           y == SumTo(m, [j \in Nat |-> f[j][2]])
<1>1. x \in Int
  <2> DEFINE t == [j \in Nat |-> f[j][1]]
  <2>1. \A j \in 0 .. m - 1 : t[j] \in Int  BY ComplexParts
  <2> HIDE DEF t
  <2>2. SumTo(m, t) \in Int  BY <2>1, SumToInt
  <2> QED  BY <2>2 DEF t
<1>2. y \in Int
  <2> DEFINE t == [j \in Nat |-> f[j][2]]
  <2>1. \A j \in 0 .. m - 1 : t[j] \in Int  BY ComplexParts
  <2> HIDE DEF t
  <2>2. SumTo(m, t) \in Int  BY <2>1, SumToInt
  <2> QED  BY <2>2 DEF t
<1>3. CSum(m, f) = <<Fld(x), Fld(y)>>  BY DEF CSum
<1> HIDE DEF x, y
<1> QED  BY <1>1, <1>2, <1>3, FldParts DEF Complex

\* The sum of sums, differences, multiples and conjugates.
LEMMA CSumSame ==
  ASSUME NEW f, NEW g, NEW m \in Nat, \A j \in 0 .. m - 1 : f[j] = g[j]
  PROVE  CSum(m, f) = CSum(m, g)
<1>1. SumTo(m, [j \in Nat |-> f[j][1]]) = SumTo(m, [j \in Nat |-> g[j][1]])
  <2> DEFINE t == [j \in Nat |-> f[j][1]]
             u == [j \in Nat |-> g[j][1]]
  <2>1. \A j \in 0 .. m - 1 : t[j] = u[j]  OBVIOUS
  <2> HIDE DEF t, u
  <2>2. SumTo(m, t) = SumTo(m, u)  BY <2>1, SumToSame
  <2> QED  BY <2>2 DEF t, u
<1>2. SumTo(m, [j \in Nat |-> f[j][2]]) = SumTo(m, [j \in Nat |-> g[j][2]])
  <2> DEFINE t == [j \in Nat |-> f[j][2]]
             u == [j \in Nat |-> g[j][2]]
  <2>1. \A j \in 0 .. m - 1 : t[j] = u[j]  OBVIOUS
  <2> HIDE DEF t, u
  <2>2. SumTo(m, t) = SumTo(m, u)  BY <2>1, SumToSame
  <2> QED  BY <2>2 DEF t, u
<1> QED  BY <1>1, <1>2 DEF CSum

\* The sum of two sums is the sum of the sums of their terms.
LEMMA CSumAdd ==
  ASSUME NEW f, NEW g, NEW h, NEW m \in Nat,
         \A j \in 0 .. m - 1 : f[j] \in Complex /\ g[j] \in Complex /\ h[j] = CAdd(f[j], g[j])
  PROVE  CAdd(CSum(m, f), CSum(m, g)) = CSum(m, h)
<1> DEFINE Holds == {n \in Nat : n <= m => CAdd(CSum(n, f), CSum(n, g)) = CSum(n, h)}
<1>0. \A j \in 0 .. m - 1 : h[j] \in Complex  BY ComplexClosed
<1>1. 0 \in Holds
  <2>1. \A k \in {f, g, h} : CSum(0, k) = <<0, 0>>  BY CSumZero
  <2> QED  BY <2>1, ZeroComplex
<1>2. ASSUME NEW n \in Nat, n \in Holds PROVE n + 1 \in Holds
  <2> SUFFICES ASSUME n + 1 <= m PROVE CAdd(CSum(n + 1, f), CSum(n + 1, g)) = CSum(n + 1, h)
    OBVIOUS
  <2>1. n \in 0 .. m - 1 /\ n <= m /\ \A j \in 0 .. n : j \in 0 .. m - 1  OBVIOUS
  <2>2. CSum(n + 1, f) = CAdd(CSum(n, f), f[n]) /\ CSum(n, f) \in Complex  BY <2>1, CSumStep
  <2>3. CSum(n + 1, g) = CAdd(CSum(n, g), g[n]) /\ CSum(n, g) \in Complex  BY <2>1, CSumStep
  <2>4. CSum(n + 1, h) = CAdd(CSum(n, h), h[n])  BY <1>0, <2>1, CSumStep
  <2>5. f[n] \in Complex /\ g[n] \in Complex /\ h[n] = CAdd(f[n], g[n])  BY <2>1
  <2>6. CAdd(CSum(n, f), CSum(n, g)) = CSum(n, h)  BY <1>2, <2>1
  <2> QED  BY <2>2, <2>3, <2>4, <2>5, <2>6, Additive
<1> HIDE DEF Holds
<1>3. \A n \in Nat : n \in Holds  BY <1>1, <1>2, SetInduction
<1> QED  BY <1>3 DEF Holds

\* So are differences,
LEMMA CSumSub ==
  ASSUME NEW f, NEW g, NEW h, NEW m \in Nat,
         \A j \in 0 .. m - 1 : f[j] \in Complex /\ g[j] \in Complex /\ h[j] = CSub(f[j], g[j])
  PROVE  CSub(CSum(m, f), CSum(m, g)) = CSum(m, h)
<1> DEFINE Holds == {n \in Nat : n <= m => CSub(CSum(n, f), CSum(n, g)) = CSum(n, h)}
<1>0. \A j \in 0 .. m - 1 : h[j] \in Complex  BY ComplexClosed
<1>1. 0 \in Holds
  <2>1. \A k \in {f, g, h} : CSum(0, k) = <<0, 0>>  BY CSumZero
  <2> QED  BY <2>1, ZeroComplex
<1>2. ASSUME NEW n \in Nat, n \in Holds PROVE n + 1 \in Holds
  <2> SUFFICES ASSUME n + 1 <= m PROVE CSub(CSum(n + 1, f), CSum(n + 1, g)) = CSum(n + 1, h)
    OBVIOUS
  <2>1. n \in 0 .. m - 1 /\ n <= m /\ \A j \in 0 .. n : j \in 0 .. m - 1  OBVIOUS
  <2>2. CSum(n + 1, f) = CAdd(CSum(n, f), f[n]) /\ CSum(n, f) \in Complex  BY <2>1, CSumStep
  <2>3. CSum(n + 1, g) = CAdd(CSum(n, g), g[n]) /\ CSum(n, g) \in Complex  BY <2>1, CSumStep
  <2>4. CSum(n + 1, h) = CAdd(CSum(n, h), h[n])  BY <1>0, <2>1, CSumStep
  <2>5. f[n] \in Complex /\ g[n] \in Complex /\ h[n] = CSub(f[n], g[n])  BY <2>1
  <2>6. CSub(CSum(n, f), CSum(n, g)) = CSum(n, h)  BY <1>2, <2>1
  <2> QED  BY <2>2, <2>3, <2>4, <2>5, <2>6, Additive
<1> HIDE DEF Holds
<1>3. \A n \in Nat : n \in Holds  BY <1>1, <1>2, SetInduction
<1> QED  BY <1>3 DEF Holds

\* products with one factor,
LEMMA CSumMul ==
  ASSUME NEW f, NEW h, NEW w \in Complex, NEW m \in Nat,
         \A j \in 0 .. m - 1 : f[j] \in Complex /\ h[j] = CMul(f[j], w)
  PROVE  CMul(CSum(m, f), w) = CSum(m, h)
<1> DEFINE Holds == {n \in Nat : n <= m => CMul(CSum(n, f), w) = CSum(n, h)}
<1>0. \A j \in 0 .. m - 1 : h[j] \in Complex  BY ComplexClosed
<1>1. 0 \in Holds
  <2>1. \A k \in {f, h} : CSum(0, k) = <<0, 0>>  BY CSumZero
  <2> QED  BY <2>1, ZeroComplex
<1>2. ASSUME NEW n \in Nat, n \in Holds PROVE n + 1 \in Holds
  <2> SUFFICES ASSUME n + 1 <= m PROVE CMul(CSum(n + 1, f), w) = CSum(n + 1, h)  OBVIOUS
  <2>1. n \in 0 .. m - 1 /\ n <= m /\ \A j \in 0 .. n : j \in 0 .. m - 1  OBVIOUS
  <2>2. CSum(n + 1, f) = CAdd(CSum(n, f), f[n]) /\ CSum(n, f) \in Complex  BY <2>1, CSumStep
  <2>3. CSum(n + 1, h) = CAdd(CSum(n, h), h[n])  BY <1>0, <2>1, CSumStep
  <2>4. f[n] \in Complex /\ h[n] = CMul(f[n], w)  BY <2>1
  <2>5. CMul(CSum(n, f), w) = CSum(n, h)  BY <1>2, <2>1
  <2> QED  BY <2>2, <2>3, <2>4, <2>5, Additive
<1> HIDE DEF Holds
<1>3. \A n \in Nat : n \in Holds  BY <1>1, <1>2, SetInduction
<1> QED  BY <1>3 DEF Holds

\* and conjugates.
LEMMA CSumConj ==
  ASSUME NEW f, NEW h, NEW m \in Nat,
         \A j \in 0 .. m - 1 : f[j] \in Complex /\ h[j] = CConj(f[j])
  PROVE  CConj(CSum(m, f)) = CSum(m, h)
<1> DEFINE Holds == {n \in Nat : n <= m => CConj(CSum(n, f)) = CSum(n, h)}
<1>0. \A j \in 0 .. m - 1 : h[j] \in Complex  BY ComplexClosed
<1>1. 0 \in Holds
  <2>1. \A k \in {f, h} : CSum(0, k) = <<0, 0>>  BY CSumZero
  <2> QED  BY <2>1, ZeroComplex
<1>2. ASSUME NEW n \in Nat, n \in Holds PROVE n + 1 \in Holds
  <2> SUFFICES ASSUME n + 1 <= m PROVE CConj(CSum(n + 1, f)) = CSum(n + 1, h)  OBVIOUS
  <2>1. n \in 0 .. m - 1 /\ n <= m /\ \A j \in 0 .. n : j \in 0 .. m - 1  OBVIOUS
  <2>2. CSum(n + 1, f) = CAdd(CSum(n, f), f[n]) /\ CSum(n, f) \in Complex  BY <2>1, CSumStep
  <2>3. CSum(n + 1, h) = CAdd(CSum(n, h), h[n])  BY <1>0, <2>1, CSumStep
  <2>4. f[n] \in Complex /\ h[n] = CConj(f[n])  BY <2>1
  <2>5. CConj(CSum(n, f)) = CSum(n, h)  BY <1>2, <2>1
  <2> QED  BY <2>2, <2>3, <2>4, <2>5, Additive
<1> HIDE DEF Holds
<1>3. \A n \in Nat : n \in Holds  BY <1>1, <1>2, SetInduction
<1> QED  BY <1>3 DEF Holds

-----------------------------------------------------------------------------
(* Multiples of a turn *)

Real(c) == <<Fld(c), 0>>
Ray(c, e) == CMul(Real(c), Turn(e))

\* A real number scales both parts and is its own conjugate.
LEMMA RealComplex ==
  ASSUME NEW c \in Int
  PROVE  /\ Real(c) \in Complex /\ CConj(Real(c)) = Real(c)
         /\ \A x, y \in Int : CMul(Real(c), <<x, y>>) = <<Fld(c * x), Fld(c * y)>>
<1>1. 0 \in Scalars /\ Fld(-0) = 0
  <2>1. 0 \in Scalars  BY DEF Scalars, FieldP
  <2> QED  BY <2>1 DEF Fld, FieldP
<1>2. Fld(c) \in Scalars /\ Fld(c) \in Int  BY FldParts
<1>3. Real(c) \in Complex /\ CConj(Real(c)) = Real(c)
  BY <1>1, <1>2 DEF Real, Complex, CConj
<1>4. ASSUME NEW x \in Int, NEW y \in Int
      PROVE  CMul(Real(c), <<x, y>>) = <<Fld(c * x), Fld(c * y)>>
  <2> DEFINE r == Fld(c)
  <2>1. r \in Int  BY <1>2
  <2>2. PICK k \in Int : c = r + FieldP * k  BY FldParts
  <2>3. Real(c) = <<r, 0>>  BY DEF Real
  <2> HIDE DEF r
  <2>4. r * x - 0 * y = r * x /\ r * y + 0 * x = r * y  BY <1>4, <2>1
  <2>5. CMul(Real(c), <<x, y>>) = <<Fld(r * x), Fld(r * y)>>  BY <2>3, <2>4 DEF CMul
  <2>6. c * x = r * x + FieldP * (k * x) /\ c * y = r * y + FieldP * (k * y)
        /\ c * x \in Int /\ c * y \in Int /\ r * x \in Int /\ r * y \in Int
        /\ k * x \in Int /\ k * y \in Int
    BY <1>4, <2>1, <2>2 DEF FieldP
  <2>7. Fld(c * x) = Fld(r * x)  BY <2>6, FldSame
  <2>8. Fld(c * y) = Fld(r * y)  BY <2>6, FldSame
  <2> QED  BY <2>5, <2>7, <2>8
<1> QED  BY <1>3, <1>4

\* Both parts of a ray are those of its turn, scaled.
LEMMA RayParts ==
  ASSUME NEW c \in Int, NEW e \in Int
  PROVE  /\ Ray(c, e) \in Complex
         /\ Ray(c, e) = <<Fld(c * Turn(e)[1]), Fld(c * Turn(e)[2])>>
<1>1. Turn(e) \in Complex /\ Real(c) \in Complex  BY TurnSteps, RealComplex
<1>2. Turn(e) = <<Turn(e)[1], Turn(e)[2]>> /\ Turn(e)[1] \in Int /\ Turn(e)[2] \in Int
  BY <1>1, ComplexParts
<1>3. Ray(c, e) \in Complex  BY <1>1, ComplexClosed DEF Ray
<1> DEFINE x == Turn(e)[1]
           y == Turn(e)[2]
<1>4. Turn(e) = <<x, y>> /\ x \in Int /\ y \in Int  BY <1>2
<1> HIDE DEF x, y
<1>5. Ray(c, e) = <<Fld(c * x), Fld(c * y)>>  BY <1>4, RealComplex DEF Ray
<1> QED  BY <1>3, <1>5 DEF x, y

\* Exponents are taken modulo 1024.
LEMMA RayPeriod ==
  ASSUME NEW c \in Int, NEW e \in Int, NEW f \in Int, e % 1024 = f % 1024
  PROVE  Ray(c, e) = Ray(c, f)
BY TurnPeriod DEF Ray

\* A turn turns a ray.
LEMMA RayTurn ==
  ASSUME NEW c \in Int, NEW e \in Int, NEW f \in Int
  PROVE  CMul(Ray(c, e), Turn(f)) = Ray(c, e + f)
<1>1. Real(c) \in Complex /\ Turn(e) \in Complex /\ Turn(f) \in Complex  BY TurnSteps, RealComplex
<1> QED  BY <1>1, ProductAssociates, TurnsAdd DEF Ray

\* The conjugate of a ray turns the other way.
LEMMA RayConj ==
  ASSUME NEW c \in Int, NEW e \in Int
  PROVE  CConj(Ray(c, e)) = Ray(c, -e)
<1>1. Real(c) \in Complex /\ Turn(e) \in Complex  BY TurnSteps, RealComplex
<1>2. CConj(Ray(c, e)) = CMul(CConj(Real(c)), CConj(Turn(e)))  BY <1>1, ConjMul DEF Ray
<1>3. CConj(Real(c)) = Real(c)  BY RealComplex
<1> QED  BY <1>2, <1>3, TurnConj DEF Ray

\* Rays in one direction add by their multiples.
LEMMA RayAdd ==
  ASSUME NEW c \in Int, NEW d \in Int, NEW e \in Int
  PROVE  /\ CAdd(Ray(c, e), Ray(d, e)) = Ray(c + d, e)
         /\ CSub(Ray(c, e), Ray(d, e)) = Ray(c - d, e)
<1> DEFINE x == Turn(e)[1]
           y == Turn(e)[2]
<1>1. x \in Int /\ y \in Int  BY TurnSteps, ComplexParts
<1> DEFINE s == c + d
           t == c - d
<1>2. s \in Int /\ t \in Int  OBVIOUS
<1>3. /\ c * x \in Int /\ c * y \in Int /\ d * x \in Int /\ d * y \in Int
      /\ c * x + d * x = s * x /\ c * y + d * y = s * y
      /\ c * x - d * x = t * x /\ c * y - d * y = t * y
  BY <1>1
<1>4. s = c + d /\ t = c - d  OBVIOUS
<1> HIDE DEF s, t
<1>5. /\ Ray(c, e) = <<Fld(c * x), Fld(c * y)>> /\ Ray(d, e) = <<Fld(d * x), Fld(d * y)>>
  BY RayParts
<1>6. /\ Ray(s, e) = <<Fld(s * x), Fld(s * y)>> /\ Ray(t, e) = <<Fld(t * x), Fld(t * y)>>
  BY <1>2, RayParts
<1> HIDE DEF x, y
<1> DEFINE cx == c * x
           cy == c * y
           dx == d * x
           dy == d * y
<1>7. cx \in Int /\ cy \in Int /\ dx \in Int /\ dy \in Int  BY <1>3
<1>8. Ray(c, e) = <<Fld(cx), Fld(cy)>> /\ Ray(d, e) = <<Fld(dx), Fld(dy)>>  BY <1>5
<1>9. cx + dx = s * x /\ cy + dy = s * y /\ cx - dx = t * x /\ cy - dy = t * y  BY <1>3
<1> HIDE DEF cx, cy, dx, dy
<1>10. /\ CAdd(<<Fld(cx), Fld(cy)>>, <<Fld(dx), Fld(dy)>>) = <<Fld(cx + dx), Fld(cy + dy)>>
       /\ CSub(<<Fld(cx), Fld(cy)>>, <<Fld(dx), Fld(dy)>>) = <<Fld(cx - dx), Fld(cy - dy)>>
  BY <1>7, PairSum
<1> QED  BY <1>4, <1>6, <1>8, <1>9, <1>10

\* A ray of length 0.
LEMMA RayZero ==
  ASSUME NEW e \in Int
  PROVE  Ray(0, e) = <<0, 0>>
<1>1. Real(0) = <<0, 0>>  BY DEF Real, Fld, FieldP
<1>2. Turn(e) \in Complex  BY TurnSteps
<1> QED  BY <1>1, <1>2, ZeroComplex DEF Ray

\* -i is a quarter turn, and a half turn is a change of sign.
LEMMA QuarterTurn ==
  ASSUME NEW a \in Complex
  PROVE  MinusI(a) = CMul(a, Turn(256))
<1> DEFINE x == a[1]
           y == a[2]
<1>1. x \in Int /\ y \in Int /\ y \in Scalars /\ a[1] = x /\ a[2] = y  BY ComplexParts
<1> HIDE DEF x, y
<1>2. Turn(256) = <<0, 8190>>  BY TurnSteps
<1>3. CMul(a, <<0, 8190>>) = <<Fld(x * 0 - y * 8190), Fld(x * 8190 + y * 0)>>  BY <1>1 DEF CMul
<1>4. Fld(x * 0 - y * 8190) = y
  <2>1. x * 0 - y * 8190 = y + FieldP * (-y) /\ x * 0 - y * 8190 \in Int /\ -y \in Int
    BY <1>1 DEF FieldP
  <2> QED  BY <1>1, <2>1, FldIs
<1>5. Fld(x * 8190 + y * 0) = Fld(-x)
  <2>1. x * 8190 + y * 0 = -x + FieldP * x /\ x * 8190 + y * 0 \in Int /\ -x \in Int
    BY <1>1 DEF FieldP
  <2> QED  BY <1>1, <2>1, FldSame
<1> QED  BY <1>1, <1>2, <1>3, <1>4, <1>5 DEF MinusI

\* The product with -i is a quarter turn,
LEMMA RayQuarter ==
  ASSUME NEW c \in Int, NEW e \in Int
  PROVE  MinusI(Ray(c, e)) = Ray(c, e + 256)
<1>1. Ray(c, e) \in Complex  BY RayParts
<1>2. 256 \in Int  OBVIOUS
<1> QED  BY <1>1, <1>2, QuarterTurn, RayTurn

\* and half a turn changes the sign.
LEMMA RayHalf ==
  ASSUME NEW c \in Int, NEW e \in Int
  PROVE  Ray(c, e + 512) = Ray(-c, e)
<1> DEFINE x == Turn(e)[1]
           y == Turn(e)[2]
<1>1. x \in Int /\ y \in Int /\ Turn(e) \in Complex /\ Turn(e) = <<x, y>>
  BY TurnSteps, ComplexParts
<1> HIDE DEF x, y
<1>2. MinusI(Turn(e)) = <<y, Fld(-x)>>  BY <1>1 DEF MinusI
<1>3. MinusI(MinusI(Turn(e))) = <<Fld(-x), Fld(-y)>>  BY <1>2 DEF MinusI
<1>4. MinusI(Turn(e)) = Turn(e + 256) /\ MinusI(Turn(e + 256)) = Turn((e + 256) + 256)
  <2>1. e + 256 \in Int /\ 256 \in Int /\ Turn(e + 256) \in Complex  BY TurnSteps
  <2>2. CMul(Turn(e), Turn(256)) = Turn(e + 256) /\ CMul(Turn(e + 256), Turn(256)) = Turn((e + 256) + 256)
    BY <2>1, TurnsAdd
  <2> QED  BY <1>1, <2>1, <2>2, QuarterTurn
<1>5. Turn(e + 512) = <<Fld(-x), Fld(-y)>>
  <2>1. (e + 256) + 256 = e + 512  OBVIOUS
  <2> QED  BY <1>3, <1>4, <2>1
<1> DEFINE u == Fld(-x)
           v == Fld(-y)
           n == -c
<1>6. -x \in Int /\ -y \in Int /\ u \in Int /\ v \in Int /\ n \in Int  BY <1>1, FldParts
<1>7. PICK k \in Int : -x = u + FieldP * k  BY <1>6, FldParts
<1>8. PICK l \in Int : -y = v + FieldP * l  BY <1>6, FldParts
<1>9. Turn(e + 512) = <<u, v>>  BY <1>5
<1>10. n = -c  OBVIOUS
<1> HIDE DEF u, v, n
<1>11. Ray(c, e + 512) = <<Fld(c * u), Fld(c * v)>>  BY <1>6, <1>9, RealComplex DEF Ray
<1>12. Ray(n, e) = <<Fld(n * x), Fld(n * y)>>  BY <1>1, <1>6, RealComplex DEF Ray
<1>13. /\ n * x = c * u + FieldP * (c * k) /\ n * y = c * v + FieldP * (c * l)
       /\ n * x \in Int /\ n * y \in Int /\ c * u \in Int /\ c * v \in Int
       /\ c * k \in Int /\ c * l \in Int
  <2>1. n * x = c * (-x) /\ n * y = c * (-y)  BY <1>1, <1>10
  <2> QED  BY <1>1, <1>6, <1>7, <1>8, <2>1 DEF FieldP
<1>14. Fld(n * x) = Fld(c * u)  BY <1>13, FldSame
<1>15. Fld(n * y) = Fld(c * v)  BY <1>13, FldSame
<1> QED  BY <1>10, <1>11, <1>12, <1>14, <1>15

\* Half of a double ray is the ray.
LEMMA RayHalved ==
  ASSUME NEW c \in Int, NEW e \in Int
  PROVE  CMul(Ray(2 * c, e), <<HalfOf, 0>>) = Ray(c, e)
<1> DEFINE d == 2 * c
           h == <<HalfOf, 0>>
<1>1. d \in Int /\ d = 2 * c  OBVIOUS
<1> HIDE DEF d
<1>2. h \in Complex
  <2>1. 4096 \in Scalars /\ 0 \in Scalars  BY DEF Scalars, FieldP
  <2> QED  BY <2>1 DEF Complex, HalfOf
<1>3. Turn(e) \in Complex /\ Real(d) \in Complex  BY <1>1, TurnSteps, RealComplex
<1>4. CMul(Real(d), h) = Real(c)
  <2>1. 4096 \in Int /\ 0 \in Int /\ h = <<4096, 0>>  BY DEF HalfOf
  <2>2. CMul(Real(d), <<4096, 0>>) = <<Fld(d * 4096), Fld(d * 0)>>  BY <1>1, <2>1, RealComplex
  <2>3. Fld(d * 4096) = Fld(c)
    <3>1. d * 4096 = c + FieldP * c /\ d * 4096 \in Int  BY <1>1 DEF FieldP
    <3> QED  BY <3>1, FldSame
  <2>4. d * 0 = 0 /\ Fld(0) = 0  BY <1>1 DEF Fld, FieldP
  <2> QED  BY <2>1, <2>2, <2>3, <2>4 DEF Real
<1> HIDE DEF h
<1>5. CMul(Ray(d, e), h) = CMul(h, CMul(Real(d), Turn(e)))
  <2>1. Ray(d, e) \in Complex  BY <1>1, RayParts
  <2> QED  BY <1>2, <2>1, ProductCommutes DEF Ray
<1>6. CMul(CMul(h, Real(d)), Turn(e)) = CMul(h, CMul(Real(d), Turn(e)))
  BY <1>2, <1>3, ProductAssociates
<1>7. CMul(h, Real(d)) = CMul(Real(d), h)  BY <1>2, <1>3, ProductCommutes
<1>8. CMul(Ray(d, e), h) = Ray(c, e)  BY <1>4, <1>5, <1>6, <1>7 DEF Ray
<1> QED  BY <1>1, <1>8 DEF h

-----------------------------------------------------------------------------
(* Butterflies of rays, and of sums *)

\* So does taking a ray from zero.
LEMMA RayMinus ==
  ASSUME NEW c \in Int, NEW e \in Int
  PROVE  CSub(<<0, 0>>, Ray(c, e)) = Ray(c, e + 512)
<1>1. CSub(Ray(0, e), Ray(c, e)) = Ray(0 - c, e)  BY RayAdd
<1>2. 0 - c = -c  OBVIOUS
<1> QED  BY <1>1, <1>2, RayZero, RayHalf

\* A butterfly of four inputs, only one of which is not zero.
ButterflyOf(z) == Butterfly(z[0], z[1], z[2], z[3])

OneInput(z, i, c, e) == z[i] = Ray(c, e) /\ \A j \in 0 .. 3 : j # i => z[j] = <<0, 0>>
Output(z, q) == ButterflyOf(z)[q + 1]
QuartersOn(f, e, i, q) == f = e + 256 * (i * q)

\* One input alone reaches output q turned by q times its own quarter turns.
LEMMA ButterflyOne ==
  ASSUME NEW c \in Int, NEW e \in Int, NEW i \in 0 .. 3, NEW z, OneInput(z, i, c, e), NEW d \in 0 .. 3,
         NEW l \in Int, QuartersOn(l, e, i, d)
  PROVE  Output(z, d) = Ray(c, l)
<1> SUFFICES \A q \in 0 .. 3 : ButterflyOf(z)[q + 1] = Ray(c, e + 256 * (i * q))
  BY DEF Output, QuartersOn
<1> DEFINE o == <<0, 0>>
           a == Ray(c, e)
           b == Ray(c, e + 256)
           dd == Ray(c, e + 512)
           g == Ray(c, e + 768)
<1>1. a \in Complex /\ b \in Complex /\ dd \in Complex /\ g \in Complex
  <2>1. e + 256 \in Int /\ e + 512 \in Int /\ e + 768 \in Int  OBVIOUS
  <2> QED  BY <2>1, RayParts
<1>2. MinusI(a) = b  BY RayQuarter
<1>3. CSub(o, a) = dd  BY RayMinus
<1>4. CSub(o, b) = g
  <2> DEFINE f == e + 256
  <2>1. f \in Int /\ f + 512 = e + 768  OBVIOUS
  <2>2. b = Ray(c, f)  OBVIOUS
  <2> HIDE DEF f, b
  <2>3. CSub(o, b) = Ray(c, f + 512)  BY <2>1, <2>2, RayMinus
  <2> QED  BY <2>1, <2>3
<1>5. MinusI(dd) = g
  <2> DEFINE f == e + 512
  <2>1. f \in Int /\ f + 256 = e + 768  OBVIOUS
  <2>2. dd = Ray(c, f)  OBVIOUS
  <2> HIDE DEF f, dd
  <2>3. MinusI(dd) = Ray(c, f + 256)  BY <2>1, <2>2, RayQuarter
  <2> QED  BY <2>1, <2>3
<1>6. CSub(o, g) = b
  <2> DEFINE f == e + 768
             h == e + 256
  <2>1. f \in Int /\ h \in Int /\ f + 512 \in Int /\ (f + 512) % 1024 = h % 1024  OBVIOUS
  <2>2. g = Ray(c, f) /\ b = Ray(c, h)  OBVIOUS
  <2> HIDE DEF f, g, h, b
  <2>3. CSub(o, g) = Ray(c, f + 512)  BY <2>1, <2>2, RayMinus
  <2>4. Ray(c, f + 512) = Ray(c, h)
    <3> DEFINE k == f + 512
    <3>1. k \in Int /\ k % 1024 = h % 1024  BY <2>1
    <3> HIDE DEF k
    <3>2. Ray(c, k) = Ray(c, h)  BY <2>1, <3>1, RayPeriod
    <3> QED  BY <3>2 DEF k
  <2> QED  BY <2>2, <2>3, <2>4
<1>7. MinusI(o) = o  BY DEF MinusI, Fld, FieldP
<1>8. \A x \in Complex : CAdd(x, o) = x /\ CAdd(o, x) = x /\ CSub(x, o) = x  BY ZeroComplex
<1>9. CAdd(o, o) = o /\ CSub(o, o) = o  BY ZeroComplex
<1>10. /\ 256 * (i * 0) = 0 /\ e + 0 = e
       /\ i = 0 => /\ 256 * (i * 1) = 0 /\ 256 * (i * 2) = 0 /\ 256 * (i * 3) = 0
       /\ i = 1 => /\ 256 * (i * 1) = 256 /\ 256 * (i * 2) = 512 /\ 256 * (i * 3) = 768
       /\ i = 2 => /\ 256 * (i * 1) = 512 /\ 256 * (i * 2) = 1024 /\ 256 * (i * 3) = 1536
       /\ i = 3 => /\ 256 * (i * 1) = 768 /\ 256 * (i * 2) = 1536 /\ 256 * (i * 3) = 2304
  OBVIOUS
<1>11. Ray(c, e + 1024) = a
  <2> DEFINE f == e + 1024
  <2>1. f \in Int /\ f % 1024 = e % 1024  OBVIOUS
  <2> HIDE DEF f
  <2>2. Ray(c, f) = Ray(c, e)  BY <2>1, RayPeriod
  <2> QED  BY <2>2 DEF f
<1>12. Ray(c, e + 1536) = dd
  <2> DEFINE f == e + 1536
             h == e + 512
  <2>1. f \in Int /\ h \in Int /\ f % 1024 = h % 1024  OBVIOUS
  <2> HIDE DEF f, h
  <2>2. Ray(c, f) = Ray(c, h)  BY <2>1, RayPeriod
  <2> QED  BY <2>2 DEF f, h
<1>13. Ray(c, e + 2304) = b
  <2> DEFINE f == e + 2304
             h == e + 256
  <2>1. f \in Int /\ h \in Int /\ f % 1024 = h % 1024  OBVIOUS
  <2> HIDE DEF f, h
  <2>2. Ray(c, f) = Ray(c, h)  BY <2>1, RayPeriod
  <2> QED  BY <2>2 DEF f, h
<1> DEFINE R(q) == Ray(c, e + 256 * (i * q))
<1>14. /\ R(0) = a
       /\ i = 0 => R(1) = a /\ R(2) = a /\ R(3) = a
       /\ i = 1 => R(1) = b /\ R(2) = dd /\ R(3) = g
       /\ i = 2 => R(1) = dd /\ R(2) = a /\ R(3) = dd
       /\ i = 3 => R(1) = g /\ R(2) = dd /\ R(3) = b
  BY <1>10, <1>11, <1>12, <1>13
<1> HIDE DEF a, b, dd, g, o
<1>15. z[i] = a /\ \A j \in 0 .. 3 : j # i => z[j] = o  BY DEF a, o, OneInput
<1> SUFFICES /\ ButterflyOf(z)[1] = R(0) /\ ButterflyOf(z)[2] = R(1)
             /\ ButterflyOf(z)[3] = R(2) /\ ButterflyOf(z)[4] = R(3)
  <2>1. \A q \in 0 .. 3 : q = 0 \/ q = 1 \/ q = 2 \/ q = 3  OBVIOUS
  <2>2. 0 + 1 = 1 /\ 1 + 1 = 2 /\ 2 + 1 = 3 /\ 3 + 1 = 4  OBVIOUS
  <2> QED  BY <2>1, <2>2
<1> HIDE DEF R
<1>16. i = 0 \/ i = 1 \/ i = 2 \/ i = 3  OBVIOUS
<1>17. CASE i = 0
  <2>1. z[0] = a /\ z[1] = o /\ z[2] = o /\ z[3] = o  BY <1>15, <1>17
  <2>2. ButterflyOf(z) = <<a, a, a, a>>
    BY <1>1, <1>7, <1>8, <1>9, <2>1 DEF ButterflyOf, Butterfly
  <2> QED  BY <1>14, <1>17, <2>2
<1>18. CASE i = 1
  <2>1. z[0] = o /\ z[1] = a /\ z[2] = o /\ z[3] = o  BY <1>15, <1>18
  <2>2. ButterflyOf(z) = <<a, b, dd, g>>
    BY <1>1, <1>2, <1>3, <1>4, <1>8, <1>9, <2>1 DEF ButterflyOf, Butterfly
  <2> QED  BY <1>14, <1>18, <2>2
<1>19. CASE i = 2
  <2>1. z[0] = o /\ z[1] = o /\ z[2] = a /\ z[3] = o  BY <1>15, <1>19
  <2>2. ButterflyOf(z) = <<a, dd, a, dd>>
    BY <1>1, <1>3, <1>7, <1>8, <1>9, <2>1 DEF ButterflyOf, Butterfly
  <2> QED  BY <1>14, <1>19, <2>2
<1>20. CASE i = 3
  <2>1. z[0] = o /\ z[1] = o /\ z[2] = o /\ z[3] = a  BY <1>15, <1>20
  <2>2. ButterflyOf(z) = <<a, g, dd, b>>
    BY <1>1, <1>3, <1>5, <1>6, <1>8, <1>9, <2>1 DEF ButterflyOf, Butterfly
  <2> QED  BY <1>14, <1>20, <2>2
<1> QED  BY <1>16, <1>17, <1>18, <1>19, <1>20

\* The sums and differences that the four inputs of ButterflyFour give.
LEMMA OppositeRays ==
  ASSUME NEW c \in Int, NEW e \in Int
  PROVE  /\ CAdd(Ray(c, e), Ray(c, e)) = Ray(2 * c, e)
         /\ CSub(Ray(c, e), Ray(c, e)) = <<0, 0>>
         /\ CAdd(Ray(c, e), Ray(-c, e)) = <<0, 0>>
         /\ CSub(Ray(c, e), Ray(-c, e)) = Ray(2 * c, e)
         /\ CAdd(Ray(-c, e), Ray(-c, e)) = Ray(-(2 * c), e)
         /\ CSub(Ray(-c, e), Ray(-c, e)) = <<0, 0>>
         /\ CAdd(Ray(2 * c, e), Ray(2 * c, e)) = Ray(4 * c, e)
         /\ CSub(Ray(2 * c, e), Ray(2 * c, e)) = <<0, 0>>
         /\ CAdd(Ray(2 * c, e), Ray(-(2 * c), e)) = <<0, 0>>
         /\ CSub(Ray(2 * c, e), Ray(-(2 * c), e)) = Ray(4 * c, e)
         /\ CAdd(Ray(-c, e + 256), Ray(c, e + 256)) = <<0, 0>>
         /\ MinusI(CSub(Ray(-c, e + 256), Ray(c, e + 256))) = Ray(2 * c, e)
         /\ CAdd(Ray(c, e + 256), Ray(-c, e + 256)) = <<0, 0>>
         /\ MinusI(CSub(Ray(c, e + 256), Ray(-c, e + 256))) = Ray(-(2 * c), e)
<1>0. PICK cn \in Int, cd \in Int, cm \in Int, cx \in Int, k \in Int :
        cn = -c /\ cd = 2 * c /\ cm = -(2 * c) /\ cx = 4 * c /\ k = e + 256
  OBVIOUS
<1>1. /\ c + c = cd /\ c - c = 0 /\ c + cn = 0 /\ c - cn = cd /\ cn + cn = cm /\ cn - cn = 0
      /\ cd + cd = cx /\ cd - cd = 0 /\ cd + cm = 0 /\ cd - cm = cx
      /\ cn - c = cm /\ cn + c = 0 /\ -cm = cd /\ -cd = cm /\ k + 256 = e + 512
  BY <1>0
<1>3. /\ CAdd(Ray(c, e), Ray(c, e)) = Ray(c + c, e)
      /\ CSub(Ray(c, e), Ray(c, e)) = Ray(c - c, e)
  BY RayAdd
<1>4. /\ CAdd(Ray(c, e), Ray(cn, e)) = Ray(c + cn, e)
      /\ CSub(Ray(c, e), Ray(cn, e)) = Ray(c - cn, e)
  BY RayAdd
<1>5. /\ CAdd(Ray(cn, e), Ray(cn, e)) = Ray(cn + cn, e)
      /\ CSub(Ray(cn, e), Ray(cn, e)) = Ray(cn - cn, e)
  BY RayAdd
<1>6. /\ CAdd(Ray(cd, e), Ray(cd, e)) = Ray(cd + cd, e)
      /\ CSub(Ray(cd, e), Ray(cd, e)) = Ray(cd - cd, e)
  BY RayAdd
<1>7. /\ CAdd(Ray(cd, e), Ray(cm, e)) = Ray(cd + cm, e)
      /\ CSub(Ray(cd, e), Ray(cm, e)) = Ray(cd - cm, e)
  BY RayAdd
<1>8. /\ CAdd(Ray(cn, k), Ray(c, k)) = Ray(cn + c, k)
      /\ CSub(Ray(cn, k), Ray(c, k)) = Ray(cn - c, k)
  BY RayAdd
<1>9. /\ CAdd(Ray(c, k), Ray(cn, k)) = Ray(c + cn, k)
      /\ CSub(Ray(c, k), Ray(cn, k)) = Ray(c - cn, k)
  BY RayAdd
<1>10. MinusI(Ray(cm, k)) = Ray(cm, k + 256) /\ MinusI(Ray(cd, k)) = Ray(cd, k + 256)
  BY RayQuarter
<1>11. Ray(cm, e + 512) = Ray(-cm, e) /\ Ray(cd, e + 512) = Ray(-cd, e)  BY RayHalf
<1>12. Ray(0, e) = <<0, 0>> /\ Ray(0, k) = <<0, 0>>  BY RayZero
<1>13. /\ CAdd(Ray(c, e), Ray(c, e)) = Ray(cd, e)
       /\ CSub(Ray(c, e), Ray(c, e)) = <<0, 0>>
       /\ CAdd(Ray(c, e), Ray(cn, e)) = <<0, 0>>
       /\ CSub(Ray(c, e), Ray(cn, e)) = Ray(cd, e)
       /\ CAdd(Ray(cn, e), Ray(cn, e)) = Ray(cm, e)
       /\ CSub(Ray(cn, e), Ray(cn, e)) = <<0, 0>>
       /\ CAdd(Ray(cd, e), Ray(cd, e)) = Ray(cx, e)
       /\ CSub(Ray(cd, e), Ray(cd, e)) = <<0, 0>>
       /\ CAdd(Ray(cd, e), Ray(cm, e)) = <<0, 0>>
       /\ CSub(Ray(cd, e), Ray(cm, e)) = Ray(cx, e)
       /\ CAdd(Ray(cn, k), Ray(c, k)) = <<0, 0>>
       /\ MinusI(CSub(Ray(cn, k), Ray(c, k))) = Ray(cd, e)
       /\ CAdd(Ray(c, k), Ray(cn, k)) = <<0, 0>>
       /\ MinusI(CSub(Ray(c, k), Ray(cn, k))) = Ray(cm, e)
  BY <1>1, <1>3, <1>4, <1>5, <1>6, <1>7, <1>8, <1>9, <1>10, <1>11, <1>12
<1> QED  BY <1>0, <1>13

QuartersBack(z, c, e, r) == \A j \in 0 .. 3 : z[j] = Ray(c, e - 256 * (r * j))

Meeting(y, c, g, r) == y = 4 * c /\ g = r % 4

\* Four inputs, each r quarter turns back from the one before, meet in one output.
LEMMA ButterflyFour ==
  ASSUME NEW c \in Int, NEW e \in Int, NEW r \in Int, NEW z,
         QuartersBack(z, c, e, r), NEW d \in 0 .. 3,
         NEW y \in Int, NEW g, Meeting(y, c, g, r)
  PROVE  Output(z, d) = IF d = g THEN Ray(y, e) ELSE <<0, 0>>
<1> SUFFICES \A q \in 0 .. 3 : ButterflyOf(z)[q + 1] =
                             IF q = r % 4 THEN Ray(4 * c, e) ELSE <<0, 0>>
  BY DEF Output, Meeting
<1> DEFINE o == <<0, 0>>
           a == Ray(c, e)
           n == Ray(-c, e)
           b == Ray(c, e + 256)
           m == Ray(-c, e + 256)
           w == Ray(2 * c, e)
           v == Ray(2 * c, e + 256)
           x == Ray(4 * c, e)
           s == r % 4
           t == r \div 4
<1>1. s \in 0 .. 3 /\ t \in Int /\ r = 4 * t + s  OBVIOUS
<1> HIDE DEF s, t
<1>2. /\ 4 * c \in Int /\ 2 * c \in Int /\ -c \in Int /\ e + 256 \in Int
      /\ c + c = 2 * c /\ c - c = 0 /\ c + -c = 0 /\ c - -c = 2 * c /\ 2 * c + 2 * c = 4 * c
      /\ 2 * c - 2 * c = 0 /\ -c - c = -(2 * c) /\ -c - -c = 0
  OBVIOUS
<1> DEFINE y1 == e - 256 * (r * 1)
           y2 == e - 256 * (r * 2)
           y3 == e - 256 * (r * 3)
           h == e + 512
           k == e + 256
           l == e + 768
<1>3. /\ y1 \in Int /\ y2 \in Int /\ y3 \in Int /\ h \in Int /\ k \in Int /\ l \in Int
      /\ s = 0 => y1 % 1024 = e % 1024 /\ y2 % 1024 = e % 1024 /\ y3 % 1024 = e % 1024
      /\ s = 1 => y1 % 1024 = l % 1024 /\ y2 % 1024 = h % 1024 /\ y3 % 1024 = k % 1024
      /\ s = 2 => y1 % 1024 = h % 1024 /\ y2 % 1024 = e % 1024 /\ y3 % 1024 = h % 1024
      /\ s = 3 => y1 % 1024 = k % 1024 /\ y2 % 1024 = h % 1024 /\ y3 % 1024 = l % 1024
      /\ h = e + 512 /\ k = e + 256 /\ l = k + 512
  BY <1>1
<1>4. z[0] = a /\ z[1] = Ray(c, y1) /\ z[2] = Ray(c, y2) /\ z[3] = Ray(c, y3)
  <2>1. e - 256 * (r * 0) = e  OBVIOUS
  <2> QED  BY <2>1 DEF QuartersBack
<1> HIDE DEF y1, y2, y3, h, k, l
<1>5. Ray(c, h) = n /\ Ray(c, k) = b /\ Ray(c, l) = m
  BY <1>3, RayHalf DEF k
<1>6. /\ s = 0 => z[1] = a /\ z[2] = a /\ z[3] = a
      /\ s = 1 => z[1] = m /\ z[2] = n /\ z[3] = b
      /\ s = 2 => z[1] = n /\ z[2] = a /\ z[3] = n
      /\ s = 3 => z[1] = b /\ z[2] = n /\ z[3] = m
  BY <1>3, <1>4, <1>5, RayPeriod
<1> DEFINE p == Ray(-(2 * c), e)
<1>9. /\ CAdd(a, a) = w /\ CSub(a, a) = o /\ CAdd(a, n) = o /\ CSub(a, n) = w
      /\ CAdd(n, n) = p /\ CSub(n, n) = o /\ CAdd(w, w) = x /\ CSub(w, w) = o
      /\ CAdd(w, p) = o /\ CSub(w, p) = x
      /\ CAdd(m, b) = o /\ MinusI(CSub(m, b)) = w
      /\ CAdd(b, m) = o /\ MinusI(CSub(b, m)) = p
  BY OppositeRays
<1>8. o = <<0, 0>> /\ x = Ray(4 * c, e)  OBVIOUS
<1> HIDE DEF p, a, n, b, m, w, x, o, v
<1>16. MinusI(o) = o /\ CAdd(o, o) = o /\ CSub(o, o) = o
  <2>1. MinusI(<<0, 0>>) = <<0, 0>>  BY DEF MinusI, Fld, FieldP
  <2> QED  BY <1>8, <2>1, ZeroComplex
<1> SUFFICES /\ s = 0 => ButterflyOf(z) = <<x, o, o, o>>
             /\ s = 1 => ButterflyOf(z) = <<o, x, o, o>>
             /\ s = 2 => ButterflyOf(z) = <<o, o, x, o>>
             /\ s = 3 => ButterflyOf(z) = <<o, o, o, x>>
  <2>1. \A q \in 0 .. 3 : q = 0 \/ q = 1 \/ q = 2 \/ q = 3  OBVIOUS
  <2>2. 0 + 1 = 1 /\ 1 + 1 = 2 /\ 2 + 1 = 3 /\ 3 + 1 = 4  OBVIOUS
  <2>3. s = 0 \/ s = 1 \/ s = 2 \/ s = 3  BY <1>1
  <2>4. \A q \in 0 .. 3 : ButterflyOf(z)[q + 1] = IF q = s THEN x ELSE o
    BY <2>1, <2>2, <2>3
  <2> QED  BY <1>8, <2>4 DEF s
<1>17. CASE s = 0
  <2>1. z[1] = a /\ z[2] = a /\ z[3] = a  BY <1>6, <1>17
  <2>2. ButterflyOf(z) = <<x, o, o, o>>
    BY <1>4, <1>9, <1>16, <2>1 DEF ButterflyOf, Butterfly
  <2> QED  BY <1>17, <2>2
<1>18. CASE s = 1
  <2>1. z[1] = m /\ z[2] = n /\ z[3] = b  BY <1>6, <1>18
  <2>2. ButterflyOf(z) = <<o, x, o, o>>
    BY <1>4, <1>9, <1>16, <2>1 DEF ButterflyOf, Butterfly
  <2> QED  BY <1>18, <2>2
<1>19. CASE s = 2
  <2>1. z[1] = n /\ z[2] = a /\ z[3] = n  BY <1>6, <1>19
  <2>2. ButterflyOf(z) = <<o, o, x, o>>
    BY <1>4, <1>9, <1>16, <2>1 DEF ButterflyOf, Butterfly
  <2> QED  BY <1>19, <2>2
<1>20. CASE s = 3
  <2>1. z[1] = b /\ z[2] = n /\ z[3] = m  BY <1>6, <1>20
  <2>2. ButterflyOf(z) = <<o, o, o, x>>
    BY <1>4, <1>9, <1>16, <2>1 DEF ButterflyOf, Butterfly
  <2> QED  BY <1>20, <2>2
<1> QED  BY <1>1, <1>17, <1>18, <1>19, <1>20

\* The butterfly of sums is the sum of the butterflies.
Addends(z, m, q, h) ==
  /\ \A i \in 0 .. 3 : \A j \in 0 .. m - 1 : z[i][j] \in Complex
  /\ \A j \in 0 .. m - 1 : h[j] = Butterfly(z[0][j], z[1][j], z[2][j], z[3][j])[q]
Added(z, m, q, h) ==
  Butterfly(CSum(m, z[0]), CSum(m, z[1]), CSum(m, z[2]), CSum(m, z[3]))[q] = CSum(m, h)

\* What the butterfly makes of sums is the sum of what it makes of the addends.
LEMMA ButterflySum ==
  ASSUME NEW z, NEW m \in Nat, NEW q \in 1 .. 4, NEW h, Addends(z, m, q, h)
  PROVE  Added(z, m, q, h)
<1> SUFFICES ASSUME \A i \in 0 .. 3 : \A j \in 0 .. m - 1 : z[i][j] \in Complex,
                    \A j \in 0 .. m - 1 : h[j] = Butterfly(z[0][j], z[1][j], z[2][j], z[3][j])[q]
             PROVE  Butterfly(CSum(m, z[0]), CSum(m, z[1]), CSum(m, z[2]), CSum(m, z[3]))[q] = CSum(m, h)
  BY DEF Addends, Added
<1> DEFINE f0 == [j \in Nat |-> CAdd(z[0][j], z[2][j])]
           f1 == [j \in Nat |-> CSub(z[0][j], z[2][j])]
           f2 == [j \in Nat |-> CAdd(z[1][j], z[3][j])]
           g == [j \in Nat |-> CSub(z[1][j], z[3][j])]
           f3 == [j \in Nat |-> MinusI(g[j])]
<1>1. \A j \in 0 .. m - 1 :
        /\ f0[j] = CAdd(z[0][j], z[2][j]) /\ f1[j] = CSub(z[0][j], z[2][j])
        /\ f2[j] = CAdd(z[1][j], z[3][j]) /\ g[j] = CSub(z[1][j], z[3][j])
        /\ f3[j] = MinusI(g[j])
  OBVIOUS
<1> HIDE DEF f0, f1, f2, g, f3
<1>2. \A j \in 0 .. m - 1 :
        z[0][j] \in Complex /\ z[1][j] \in Complex /\ z[2][j] \in Complex /\ z[3][j] \in Complex
  OBVIOUS
<1>3. \A j \in 0 .. m - 1 : /\ f0[j] \in Complex /\ f1[j] \in Complex /\ f2[j] \in Complex
                            /\ g[j] \in Complex /\ f3[j] \in Complex
  <2> SUFFICES ASSUME NEW j \in 0 .. m - 1
               PROVE  /\ f0[j] \in Complex /\ f1[j] \in Complex /\ f2[j] \in Complex
                      /\ g[j] \in Complex /\ f3[j] \in Complex
    OBVIOUS
  <2>1. f0[j] \in Complex /\ f1[j] \in Complex
    <3>1. z[0][j] \in Complex /\ z[2][j] \in Complex  BY <1>2
    <3>2. f0[j] = CAdd(z[0][j], z[2][j]) /\ f1[j] = CSub(z[0][j], z[2][j])  BY <1>1
    <3> QED  BY <3>1, <3>2, ComplexClosed
  <2>2. f2[j] \in Complex /\ g[j] \in Complex
    <3>1. z[1][j] \in Complex /\ z[3][j] \in Complex  BY <1>2
    <3>2. f2[j] = CAdd(z[1][j], z[3][j]) /\ g[j] = CSub(z[1][j], z[3][j])  BY <1>1
    <3> QED  BY <3>1, <3>2, ComplexClosed
  <2>3. f3[j] \in Complex  BY <1>1, <2>2, ComplexClosed
  <2> QED  BY <2>1, <2>2, <2>3
<1>4. CAdd(CSum(m, z[0]), CSum(m, z[2])) = CSum(m, f0)  BY <1>1, <1>2, CSumAdd
<1>5. CSub(CSum(m, z[0]), CSum(m, z[2])) = CSum(m, f1)  BY <1>1, <1>2, CSumSub
<1>6. CAdd(CSum(m, z[1]), CSum(m, z[3])) = CSum(m, f2)  BY <1>1, <1>2, CSumAdd
<1>7. MinusI(CSub(CSum(m, z[1]), CSum(m, z[3]))) = CSum(m, f3)
  <2>1. CSub(CSum(m, z[1]), CSum(m, z[3])) = CSum(m, g)  BY <1>1, <1>2, CSumSub
  <2>2. CSum(m, g) \in Complex  BY <1>3, CSumComplex
  <2>3. \A j \in 0 .. m - 1 : f3[j] = CMul(g[j], Turn(256))  BY <1>1, <1>3, QuarterTurn
  <2>4. Turn(256) \in Complex
    <3>1. 256 \in Int  OBVIOUS
    <3> QED  BY <3>1, TurnSteps
  <2> DEFINE w == Turn(256)
  <2> HIDE DEF w
  <2>5. w \in Complex /\ \A j \in 0 .. m - 1 : f3[j] = CMul(g[j], w)  BY <2>3, <2>4 DEF w
  <2>6. CMul(CSum(m, g), w) = CSum(m, f3)  BY <1>3, <2>5, CSumMul
  <2>7. MinusI(CSum(m, g)) = CMul(CSum(m, g), w)  BY <2>2, QuarterTurn DEF w
  <2> QED  BY <2>1, <2>6, <2>7
<1>8. Butterfly(CSum(m, z[0]), CSum(m, z[1]), CSum(m, z[2]), CSum(m, z[3]))
      = <<CAdd(CSum(m, f0), CSum(m, f2)), CAdd(CSum(m, f1), CSum(m, f3)),
          CSub(CSum(m, f0), CSum(m, f2)), CSub(CSum(m, f1), CSum(m, f3))>>
  BY <1>4, <1>5, <1>6, <1>7 DEF Butterfly
<1>9. \A j \in 0 .. m - 1 : h[j] = <<CAdd(f0[j], f2[j]), CAdd(f1[j], f3[j]),
                                    CSub(f0[j], f2[j]), CSub(f1[j], f3[j])>>[q]
  BY <1>1 DEF Butterfly
<1>10. CASE q = 1
  <2>1. \A j \in 0 .. m - 1 : h[j] = CAdd(f0[j], f2[j])  BY <1>9, <1>10
  <2> QED  BY <1>3, <1>8, <1>10, <2>1, CSumAdd
<1>11. CASE q = 2
  <2>1. \A j \in 0 .. m - 1 : h[j] = CAdd(f1[j], f3[j])  BY <1>9, <1>11
  <2> QED  BY <1>3, <1>8, <1>11, <2>1, CSumAdd
<1>12. CASE q = 3
  <2>1. \A j \in 0 .. m - 1 : h[j] = CSub(f0[j], f2[j])  BY <1>9, <1>12
  <2> QED  BY <1>3, <1>8, <1>12, <2>1, CSumSub
<1>13. CASE q = 4
  <2>1. \A j \in 0 .. m - 1 : h[j] = CSub(f1[j], f3[j])  BY <1>9, <1>13
  <2> QED  BY <1>3, <1>8, <1>13, <2>1, CSumSub
<1> QED  BY <1>10, <1>11, <1>12, <1>13

-----------------------------------------------------------------------------
(* The radix-4 stages, one source at a time *)

\* The widths of the radix-4 stages, with W = 256 / L and S = 128 / L.
Width(L, W, S) ==
  \/ L = 1 /\ W = 256 /\ S = 128
  \/ L = 4 /\ W = 64 /\ S = 32
  \/ L = 16 /\ W = 16 /\ S = 8
  \/ L = 64 /\ W = 4 /\ S = 2

\* Output e of a stage of width L is output q of the butterfly at g, which reads
\* its four inputs 128 apart, at offset k of the blocks b, b + S, b + 2S, b + 3S.
GridInput(L, S, b, k, g, i) ==
  g + 128 * i \in 0 .. 511 /\ (g + 128 * i) \div L = b + S * i /\ (g + 128 * i) % L = k
GridHead(L, S, e, b, q, k, g) ==
  /\ e \div (4 * L) = b /\ e % L = k /\ (e % (4 * L)) \div L = q
  /\ e % (4 * L) = L * q + k /\ (e \div (4 * L)) * L + (e % L) = g /\ g % L = k /\ b < S /\ k < L
Grid(L, S, e, b, q, k, g) ==
  GridHead(L, S, e, b, q, k, g) /\ \A i \in 0 .. 3 : GridInput(L, S, b, k, g, i)

\* The three numbers of a stage: width, twiddle step and sub-transforms left.
LEMMA WidthProducts ==
  ASSUME NEW L \in Nat, NEW W \in Nat, NEW S \in Nat, Width(L, W, S)
  PROVE  /\ L > 0 /\ W > 0 /\ S > 0 /\ L * W = 256 /\ W = 2 * S /\ L * S = 128
         /\ 1024 \div L = 4 * W /\ 1024 \div (4 * L) = W
         /\ 512 \div L = 4 * S /\ 512 \div (4 * L) = S
BY DEF Width

\* Each place of the output is output q of one butterfly.
LEMMA GridExists ==
  ASSUME NEW L \in Nat, NEW W \in Nat, NEW S \in Nat, Width(L, W, S), NEW e \in 0 .. 511
  PROVE  \E b \in Nat, q \in 0 .. 3, k \in Nat, g \in 0 .. 127 : Grid(L, S, e, b, q, k, g)
<1> DEFINE b == e \div (4 * L)
           q == (e % (4 * L)) \div L
           k == e % L
           g == (e \div (4 * L)) * L + (e % L)
<1>1. \A i \in 0 .. 3 : i = 0 \/ i = 1 \/ i = 2 \/ i = 3  OBVIOUS
<1> SUFFICES b \in Nat /\ q \in 0 .. 3 /\ k \in Nat /\ g \in 0 .. 127 /\ Grid(L, S, e, b, q, k, g)
  OBVIOUS
<1>2. CASE L = 1 /\ S = 128
  <2>1. GridHead(L, S, e, b, q, k, g)  BY <1>2 DEF GridHead
  <2>2. e = 4 * b + 1 * q + k /\ g = 1 * b + k /\ b \in 0 .. 127 /\ q \in 0 .. 3 /\ k \in 0 .. 0
    <3> DEFINE f == e % (4 * L)
    <3>1. e = 4 * b + f /\ f \in 0 .. 3 /\ b \in 0 .. 127  BY <1>2
    <3>5. q = f \div L  OBVIOUS
    <3>6. k = e % L  OBVIOUS
    <3>7. g = b * L + k  OBVIOUS
    <3> HIDE DEF b, q, k, g, f
    <3>3. k = f % 1  BY <1>2, <3>1, <3>5, <3>6, <3>7
    <3>4. f = 1 * q + k /\ q \in 0 .. 3 /\ k \in 0 .. 0  BY <1>2, <3>1, <3>5, <3>6, <3>7, <3>3
    <3> QED  BY <1>2, <3>1, <3>5, <3>6, <3>7, <3>4
  <2> HIDE DEF b, q, k, g
  <2>3. GridInput(L, S, b, k, g, 0) /\ GridInput(L, S, b, k, g, 1)  BY <1>2, <2>2 DEF GridInput
  <2>4. GridInput(L, S, b, k, g, 2) /\ GridInput(L, S, b, k, g, 3)  BY <1>2, <2>2 DEF GridInput
  <2>5. b \in Nat /\ q \in 0 .. 3 /\ k \in Nat /\ g \in 0 .. 127  BY <2>2
  <2> QED  BY <1>1, <2>1, <2>3, <2>4, <2>5 DEF Grid
<1>3. CASE L = 4 /\ S = 32
  <2>1. GridHead(L, S, e, b, q, k, g)  BY <1>3 DEF GridHead
  <2>2. e = 16 * b + 4 * q + k /\ g = 4 * b + k /\ b \in 0 .. 31 /\ q \in 0 .. 3 /\ k \in 0 .. 3
    <3> DEFINE f == e % (4 * L)
    <3>1. e = 16 * b + f /\ f \in 0 .. 15 /\ b \in 0 .. 31  BY <1>3
    <3>5. q = f \div L  OBVIOUS
    <3>6. k = e % L  OBVIOUS
    <3>7. g = b * L + k  OBVIOUS
    <3> HIDE DEF b, q, k, g, f
    <3>3. k = f % 4  BY <1>3, <3>1, <3>5, <3>6, <3>7
    <3>4. f = 4 * q + k /\ q \in 0 .. 3 /\ k \in 0 .. 3  BY <1>3, <3>1, <3>5, <3>6, <3>7, <3>3
    <3> QED  BY <1>3, <3>1, <3>5, <3>6, <3>7, <3>4
  <2> HIDE DEF b, q, k, g
  <2>3. GridInput(L, S, b, k, g, 0) /\ GridInput(L, S, b, k, g, 1)  BY <1>3, <2>2 DEF GridInput
  <2>4. GridInput(L, S, b, k, g, 2) /\ GridInput(L, S, b, k, g, 3)  BY <1>3, <2>2 DEF GridInput
  <2>5. b \in Nat /\ q \in 0 .. 3 /\ k \in Nat /\ g \in 0 .. 127  BY <2>2
  <2> QED  BY <1>1, <2>1, <2>3, <2>4, <2>5 DEF Grid
<1>4. CASE L = 16 /\ S = 8
  <2>1. GridHead(L, S, e, b, q, k, g)  BY <1>4 DEF GridHead
  <2>2. e = 64 * b + 16 * q + k /\ g = 16 * b + k /\ b \in 0 .. 7 /\ q \in 0 .. 3 /\ k \in 0 .. 15
    <3> DEFINE f == e % (4 * L)
    <3>1. e = 64 * b + f /\ f \in 0 .. 63 /\ b \in 0 .. 7  BY <1>4
    <3>5. q = f \div L  OBVIOUS
    <3>6. k = e % L  OBVIOUS
    <3>7. g = b * L + k  OBVIOUS
    <3> HIDE DEF b, q, k, g, f
    <3>3. k = f % 16  BY <1>4, <3>1, <3>5, <3>6, <3>7
    <3>4. f = 16 * q + k /\ q \in 0 .. 3 /\ k \in 0 .. 15  BY <1>4, <3>1, <3>5, <3>6, <3>7, <3>3
    <3> QED  BY <1>4, <3>1, <3>5, <3>6, <3>7, <3>4
  <2> HIDE DEF b, q, k, g
  <2>3. GridInput(L, S, b, k, g, 0) /\ GridInput(L, S, b, k, g, 1)  BY <1>4, <2>2 DEF GridInput
  <2>4. GridInput(L, S, b, k, g, 2) /\ GridInput(L, S, b, k, g, 3)  BY <1>4, <2>2 DEF GridInput
  <2>5. b \in Nat /\ q \in 0 .. 3 /\ k \in Nat /\ g \in 0 .. 127  BY <2>2
  <2> QED  BY <1>1, <2>1, <2>3, <2>4, <2>5 DEF Grid
<1>5. CASE L = 64 /\ S = 2
  <2>1. GridHead(L, S, e, b, q, k, g)  BY <1>5 DEF GridHead
  <2>2. e = 256 * b + 64 * q + k /\ g = 64 * b + k /\ b \in 0 .. 1 /\ q \in 0 .. 3 /\ k \in 0 .. 63
    <3> DEFINE f == e % (4 * L)
    <3>1. e = 256 * b + f /\ f \in 0 .. 255 /\ b \in 0 .. 1  BY <1>5
    <3>5. q = f \div L  OBVIOUS
    <3>6. k = e % L  OBVIOUS
    <3>7. g = b * L + k  OBVIOUS
    <3> HIDE DEF b, q, k, g, f
    <3>3. k = f % 64  BY <1>5, <3>1, <3>5, <3>6, <3>7
    <3>4. f = 64 * q + k /\ q \in 0 .. 3 /\ k \in 0 .. 63  BY <1>5, <3>1, <3>5, <3>6, <3>7, <3>3
    <3> QED  BY <1>5, <3>1, <3>5, <3>6, <3>7, <3>4
  <2> HIDE DEF b, q, k, g
  <2>3. GridInput(L, S, b, k, g, 0) /\ GridInput(L, S, b, k, g, 1)  BY <1>5, <2>2 DEF GridInput
  <2>4. GridInput(L, S, b, k, g, 2) /\ GridInput(L, S, b, k, g, 3)  BY <1>5, <2>2 DEF GridInput
  <2>5. b \in Nat /\ q \in 0 .. 3 /\ k \in Nat /\ g \in 0 .. 127  BY <2>2
  <2> QED  BY <1>1, <2>1, <2>3, <2>4, <2>5 DEF Grid
<1> QED  BY <1>2, <1>3, <1>4, <1>5 DEF Width

\* Where the half-index m falls among the blocks and in the offsets.
\* Place m of the input: in the block 4u + i of S at offset v, in that r of L at t.
Falls(L, S, m, u, i, v, r, t) ==
  /\ m \div (4 * S) = u /\ m % (4 * S) = S * i + v /\ m \div S = 4 * u + i /\ m % S = v /\ v < S
  /\ m \div L = r /\ m % L = t /\ m % (4 * L) = L * (r % 4) + t /\ m = L * r + t /\ t < L

\* Where an impulse stands among the inputs of a stage.
LEMMA FallsExists ==
  ASSUME NEW L \in Nat, NEW W \in Nat, NEW S \in Nat, Width(L, W, S), NEW m \in 0 .. 511
  PROVE  \E u \in Nat, i \in 0 .. 3, v \in Nat, r \in Nat, t \in Nat : Falls(L, S, m, u, i, v, r, t)
<1> DEFINE u == m \div (4 * S)
           i == (m % (4 * S)) \div S
           v == m % S
           r == m \div L
           t == m % L
<1> SUFFICES u \in Nat /\ i \in 0 .. 3 /\ v \in Nat /\ r \in Nat /\ t \in Nat
             /\ Falls(L, S, m, u, i, v, r, t)
  OBVIOUS
<1>2. CASE L = 1 /\ S = 128  BY <1>2 DEF Falls
<1>3. CASE L = 4 /\ S = 32  BY <1>3 DEF Falls
<1>4. CASE L = 16 /\ S = 8  BY <1>4 DEF Falls
<1>5. CASE L = 64 /\ S = 2  BY <1>5 DEF Falls
<1> QED  BY <1>2, <1>3, <1>4, <1>5 DEF Width

\* What the impulse c at position n has become at element e of width L: going
\* forward, one turning value in the block that the half-index n \div 2 falls in;
\* going back, the value of each block at one offset.
Spike(n, c, L, e) ==
  IF (n \div 2) % (512 \div L) = e \div L
  THEN Ray(c, 768 * (n % 2) + (((n \div 2) \div (512 \div L)) * (e % L)) * (1024 \div L))
  ELSE <<0, 0>>
Comb(n, c, L, e) ==
  IF (n \div 2) % L = e % L
  THEN Ray(2 * (c * L), -(768 * (n % 2)) - 2 * ((n \div 2) * (e \div L)))
  ELSE <<0, 0>>

\* An impulse's share of a buffer is complex.
LEMMA PartComplex ==
  ASSUME NEW n \in 0 .. 1023, NEW c \in Int, NEW L \in Nat, L > 0, L <= 512, NEW e \in 0 .. 511
  PROVE  Spike(n, c, L, e) \in Complex /\ Comb(n, c, L, e) \in Complex
<1> DEFINE f == 768 * (n % 2) + (((n \div 2) \div (512 \div L)) * (e % L)) * (1024 \div L)
           h == -(768 * (n % 2)) - 2 * ((n \div 2) * (e \div L))
           d == 2 * (c * L)
<1>0. 512 \div L \in Nat \ {0} /\ 1024 \div L \in Int
  <2>1. L \in Nat \ {0} /\ L * 1 <= 512 /\ 512 < L * 513 /\ 512 \in Int /\ 1 \in Int /\ 513 \in Int
    OBVIOUS
  <2>2. 1 <= 512 \div L  BY <2>1, DivBounds
  <2>3. 512 \div L \in Int /\ 1024 \div L \in Int
    <3>1. 1024 \in Int  OBVIOUS
    <3> QED  BY <2>1, <3>1, DivMod
  <2> QED  BY <2>2, <2>3
<1> DEFINE y == 512 \div L
           x == 1024 \div L
           m == n \div 2
<1>1. y \in Nat \ {0} /\ x \in Int /\ m \in Int /\ n % 2 \in Int  BY <1>0
<1>2. f = 768 * (n % 2) + ((m \div y) * (e % L)) * x  OBVIOUS
<1>3. h = -(768 * (n % 2)) - 2 * (m * (e \div L))  OBVIOUS
<1> HIDE DEF y, x, m
<1>4. m \div y \in Int  BY <1>1, DivMod
<1>5. e % L \in Int /\ e \div L \in Int
  <2>1. L \in Nat \ {0} /\ e \in Int  OBVIOUS
  <2>2. e % L \in 0 .. L - 1 /\ e \div L \in Int  BY <2>1, DivMod
  <2> QED  BY <2>2
<1> HIDE DEF f, h
<1>6. f \in Int
  <2> DEFINE p == m \div y
             r == e % L
             s == n % 2
  <2>1. p \in Int /\ r \in Int /\ s \in Int /\ f = 768 * s + (p * r) * x  BY <1>1, <1>2, <1>4, <1>5
  <2> HIDE DEF p, r, s
  <2> QED  BY <2>1, <1>1
<1>7. h \in Int
  <2> DEFINE r == e \div L
             s == n % 2
  <2>1. r \in Int /\ s \in Int /\ h = -(768 * s) - 2 * (m * r)  BY <1>1, <1>3, <1>5
  <2> HIDE DEF r, s
  <2> QED  BY <2>1, <1>1
<1>8. d \in Int  OBVIOUS
<1> HIDE DEF d
<1>9. Ray(c, f) \in Complex /\ Ray(d, h) \in Complex  BY <1>6, <1>7, <1>8, RayParts
<1> QED  BY <1>9, ZeroComplex DEF Spike, Comb, f, h, d

\* Butterflies of zeros.
LEMMA ButterflyZero ==
  ASSUME NEW z, \A j \in 0 .. 3 : z[j] = <<0, 0>>, NEW q \in 0 .. 3
  PROVE  Output(z, q) = <<0, 0>>
<1>1. PICK o \in Int, i \in 0 .. 3 : o = 0 /\ i = 0  OBVIOUS
<1>2. \A f \in Int : Ray(o, f) = <<0, 0>>  BY <1>1, RayZero
<1>3. OneInput(z, i, o, o)  BY <1>1, <1>2 DEF OneInput
<1>4. QuartersOn(o, o, i, q)  BY <1>1 DEF QuartersOn
<1>5. Output(z, q) = Ray(o, o)  BY <1>3, <1>4, ButterflyOne
<1> QED  BY <1>2, <1>5

\* The four inputs of a butterfly of width L, turned by the twiddles.
Source(n, c) == n \in 0 .. 1023 /\ c \in Int
StepAt(L, W, S, e, b, q, k, g) ==
  /\ L \in Nat /\ W \in Nat /\ S \in Nat /\ Width(L, W, S) /\ e \in 0 .. 511
  /\ b \in Nat /\ q \in 0 .. 3 /\ k \in Nat /\ g \in 0 .. 127 /\ Grid(L, S, e, b, q, k, g)
SpikeStepped(z, q, n, c, L, e) == Output(z, q) = Spike(n, c, 4 * L, e)
CombStepped(z, q, n, c, L, e) == Output(z, q) = Comb(n, c, 4 * L, e)
SpikeInputs(z, n, c, L, W, g, k) ==
  \A i \in 0 .. 3 : z[i] = CMul(Spike(n, c, L, g + 128 * i), Turn((i * k) * W))
CombInputs(z, n, c, L, W, g, k) ==
  \A i \in 0 .. 3 : z[i] = CMul(Comb(n, c, L, g + 128 * i), Turn((i * k) * W))

\* A butterfly takes the share of an impulse in a buffer of width L, of the
\* four inputs of which it is in at most one, to its share in one of width 4L.
LEMMA SpikeStep ==
  ASSUME NEW L, NEW W, NEW S, NEW e, NEW b, NEW q, NEW k, NEW g, StepAt(L, W, S, e, b, q, k, g),
         NEW n, NEW c, Source(n, c), NEW z, SpikeInputs(z, n, c, L, W, g, k)
  PROVE  SpikeStepped(z, q, n, c, L, e)
<1> SUFFICES ASSUME L \in Nat, W \in Nat, S \in Nat, Width(L, W, S), e \in 0 .. 511,
                    b \in Nat, q \in 0 .. 3, k \in Nat, g \in 0 .. 127, Grid(L, S, e, b, q, k, g),
                    n \in 0 .. 1023, c \in Int
             PROVE  Output(z, q) = Spike(n, c, 4 * L, e)
  BY DEF StepAt, Source, SpikeStepped
<1>0. \A i \in 0 .. 3 : z[i] = CMul(Spike(n, c, L, g + 128 * i), Turn((i * k) * W))
  BY DEF SpikeInputs
<1>1. n \div 2 \in 0 .. 511  OBVIOUS
<1> DEFINE m == n \div 2
           x == 768 * (n % 2)
<1>2. m \in 0 .. 511 /\ x \in Int  BY <1>1
<1>3. \A f, l \in Nat : Spike(n, c, l, f) =
        IF m % (512 \div l) = f \div l
        THEN Ray(c, x + ((m \div (512 \div l)) * (f % l)) * (1024 \div l)) ELSE <<0, 0>>
  BY DEF Spike
<1> HIDE DEF m, x
<1>4. PICK u \in Nat, j \in 0 .. 3, v \in Nat, r \in Nat, t \in Nat : Falls(L, S, m, u, j, v, r, t)
  BY <1>2, FallsExists, ZenonT(40)
<1>5. /\ 1024 \div L = 4 * W /\ 1024 \div (4 * L) = W /\ 512 \div L = 4 * S /\ 512 \div (4 * L) = S
      /\ L * W = 256 /\ S > 0
  BY WidthProducts
<1> DEFINE f == x + (u * k) * (4 * W)
           h == x + ((4 * u + j) * (L * q + k)) * W
<1>6. f \in Int /\ h \in Int  BY <1>2
<1>7. Spike(n, c, 4 * L, e) = IF v = b THEN Ray(c, h) ELSE <<0, 0>>
  <2>1. 4 * L \in Nat /\ e \in Nat  OBVIOUS
  <2>2. Spike(n, c, 4 * L, e) =
          IF m % (512 \div (4 * L)) = e \div (4 * L)
          THEN Ray(c, x + ((m \div (512 \div (4 * L))) * (e % (4 * L))) * (1024 \div (4 * L)))
          ELSE <<0, 0>>
    BY <1>3, <2>1, Zenon
  <2>3. /\ m % S = v /\ m \div S = 4 * u + j /\ e \div (4 * L) = b /\ e % (4 * L) = L * q + k
    BY <1>4 DEF Falls, Grid, GridHead
  <2> DEFINE A == 512 \div (4 * L)
             B == 1024 \div (4 * L)
  <2>4. A = S /\ B = W  BY <1>5
  <2>5. Spike(n, c, 4 * L, e) =
          IF m % A = e \div (4 * L)
          THEN Ray(c, x + ((m \div A) * (e % (4 * L))) * B) ELSE <<0, 0>>
    BY <2>2, Zenon
  <2> HIDE DEF A, B
  <2> QED  BY <2>3, <2>4, <2>5, Zenon DEF h
<1>8. ASSUME NEW i \in 0 .. 3
      PROVE  Spike(n, c, L, g + 128 * i) = IF S * j + v = b + S * i THEN Ray(c, f) ELSE <<0, 0>>
  <2> DEFINE a == g + 128 * i
  <2>1. L \in Nat /\ a \in Nat  OBVIOUS
  <2>2. GridInput(L, S, b, k, g, i)  BY DEF Grid
  <2>3. a \div L = b + S * i /\ a % L = k  BY <2>2 DEF GridInput
  <2>4. m % (4 * S) = S * j + v /\ m \div (4 * S) = u  BY <1>4 DEF Falls
  <2> HIDE DEF a
  <2>5. Spike(n, c, L, a) =
          IF m % (512 \div L) = a \div L
          THEN Ray(c, x + ((m \div (512 \div L)) * (a % L)) * (1024 \div L)) ELSE <<0, 0>>
    BY <1>3, <2>1, Zenon
  <2>6. Spike(n, c, L, a) = IF S * j + v = b + S * i THEN Ray(c, f) ELSE <<0, 0>>
    <3> DEFINE A == 512 \div L
               B == 1024 \div L
    <3>1. A = 4 * S /\ B = 4 * W  BY <1>5
    <3>2. Spike(n, c, L, a) =
            IF m % A = a \div L THEN Ray(c, x + ((m \div A) * (a % L)) * B) ELSE <<0, 0>>
      BY <2>5, Zenon
    <3> HIDE DEF A, B
    <3> QED  BY <2>3, <2>4, <3>1, <3>2, Zenon DEF f
  <2> QED  BY <2>6 DEF a
<1>9. ASSUME NEW i \in 0 .. 3 PROVE S * j + v = b + S * i <=> i = j /\ v = b
  <2>1. v < S /\ b < S  BY <1>4 DEF Falls, Grid, GridHead
  <2>2. S \in Nat \ {0} /\ v \in 0 .. S - 1 /\ b \in 0 .. S - 1
        /\ j \in Int /\ i \in Int
    BY <1>5, <2>1
  <2>3. (S * j + v) \div S = j /\ (S * j + v) % S = v  BY <2>2, DivModUnique, ZenonT(40)
  <2>4. (S * i + b) \div S = i /\ (S * i + b) % S = b  BY <2>2, DivModUnique, ZenonT(40)
  <2>5. b + S * i = S * i + b  OBVIOUS
  <2> QED  BY <2>3, <2>4, <2>5
<1>10. ASSUME NEW i \in 0 .. 3 PROVE (i * k) * W \in Int /\ Turn((i * k) * W) \in Complex
  <2>1. (i * k) * W \in Int  OBVIOUS
  <2> QED  BY <2>1, TurnSteps
<1>11. ASSUME NEW i \in 0 .. 3, ~(i = j /\ v = b) PROVE z[i] = <<0, 0>>
  <2>1. Spike(n, c, L, g + 128 * i) = <<0, 0>>  BY <1>8, <1>9, <1>11
  <2> QED  BY <1>0, <1>10, <2>1, ZeroComplex
<1>12. CASE v # b
  <2>1. \A i \in 0 .. 3 : z[i] = <<0, 0>>  BY <1>11, <1>12
  <2> QED  BY <1>7, <1>12, <2>1, ButterflyZero
<1>13. CASE v = b
  <2> DEFINE y == (j * k) * W
             d == f + y
             l == d + 256 * (j * q)
  <2>1. y \in Int /\ d \in Int /\ l \in Int  BY <1>6
  <2>2. z[j] = Ray(c, d)
    <3>1. Spike(n, c, L, g + 128 * j) = Ray(c, f)  BY <1>8, <1>9, <1>13
    <3>2. CMul(Ray(c, f), Turn(y)) = Ray(c, f + y)
      <4> HIDE DEF y, f
      <4> QED  BY <1>6, <2>1, RayTurn
    <3> QED  BY <1>0, <3>1, <3>2
  <2>3. \A i \in 0 .. 3 : i # j => z[i] = <<0, 0>>  BY <1>11
  <2> HIDE DEF d
  <2>4. Output(z, q) = Ray(c, l)
    <3>1. OneInput(z, j, c, d)  BY <2>2, <2>3 DEF OneInput
    <3>2. QuartersOn(l, d, j, q)  BY DEF QuartersOn
    <3> HIDE DEF l
    <3> QED  BY <2>1, <3>1, <3>2, ButterflyOne
  <2>5. l % 1024 = h % 1024
    <3> DEFINE o == u * q
               w == u * k
    <3>1. h = x + 4 * (o * 256) + 4 * (w * W) + j * (q * 256) + (j * k) * W
      <4>1. (4 * u + j) * (L * q + k) = (4 * o) * L + 4 * w + (j * q) * L + j * k  OBVIOUS
      <4>2. ((4 * u + j) * (L * q + k)) * W = (4 * o) * (L * W) + (4 * w) * W + (j * q) * (L * W) + (j * k) * W
        BY <4>1
      <4> QED  BY <1>2, <1>5, <4>2
    <3>2. l = x + 4 * (w * W) + (j * k) * W + 256 * (j * q)  BY <1>2 DEF d
    <3> HIDE DEF h, l
    <3>3. o \in Int /\ h = l + 1024 * o  BY <1>2, <3>1, <3>2
    <3> HIDE DEF o
    <3> QED  BY <2>1, <3>3
  <2> HIDE DEF l, h
  <2>6. Ray(c, l) = Ray(c, h)  BY <1>6, <2>1, <2>5, RayPeriod
  <2> QED  BY <1>7, <1>13, <2>4, <2>6
<1> QED  BY <1>12, <1>13

\* For an inverse transform, where an impulse is in all four inputs and the
\* outputs but one cancel.
LEMMA CombStep ==
  ASSUME NEW L, NEW W, NEW S, NEW e, NEW b, NEW q, NEW k, NEW g, StepAt(L, W, S, e, b, q, k, g),
         NEW n, NEW c, Source(n, c), NEW z, CombInputs(z, n, c, L, W, g, k)
  PROVE  CombStepped(z, q, n, c, L, e)
<1> SUFFICES ASSUME L \in Nat, W \in Nat, S \in Nat, Width(L, W, S), e \in 0 .. 511,
                    b \in Nat, q \in 0 .. 3, k \in Nat, g \in 0 .. 127, Grid(L, S, e, b, q, k, g),
                    n \in 0 .. 1023, c \in Int
             PROVE  Output(z, q) = Comb(n, c, 4 * L, e)
  BY DEF StepAt, Source, CombStepped
<1>0. \A i \in 0 .. 3 : z[i] = CMul(Comb(n, c, L, g + 128 * i), Turn((i * k) * W))
  BY DEF CombInputs
<1>1. n \div 2 \in 0 .. 511  OBVIOUS
<1> DEFINE m == n \div 2
           x == -(768 * (n % 2))
<1>2. m \in 0 .. 511 /\ x \in Int  BY <1>1
<1>3. \A f, l \in Nat : Comb(n, c, l, f) =
        IF m % l = f % l THEN Ray(2 * (c * l), x - 2 * (m * (f \div l))) ELSE <<0, 0>>
  BY DEF Comb
<1> HIDE DEF m, x
<1>4. PICK u \in Nat, j \in 0 .. 3, v \in Nat, r \in Nat, t \in Nat : Falls(L, S, m, u, j, v, r, t)
  BY <1>2, FallsExists, Zenon
<1>5. L * W = 256 /\ W = 2 * S /\ L > 0  BY WidthProducts
<1> DEFINE a == 2 * (c * L)
           y == 2 * (c * (4 * L))
           h == x - 2 * (m * b)
           s == r % 4
           o == [i \in 0 .. 3 |-> x - 2 * (m * (b + S * i))]
<1>6. a \in Int /\ y \in Int /\ h \in Int /\ y = 4 * a  BY <1>2
<1>7. s \in 0 .. 3  OBVIOUS
<1>8. Comb(n, c, 4 * L, e) = IF t = k /\ q = s THEN Ray(y, h) ELSE <<0, 0>>
  <2>1. 4 * L \in Nat /\ e \in Nat  OBVIOUS
  <2>2. Comb(n, c, 4 * L, e) =
          IF m % (4 * L) = e % (4 * L)
          THEN Ray(2 * (c * (4 * L)), x - 2 * (m * (e \div (4 * L)))) ELSE <<0, 0>>
    BY <1>3, <2>1, Zenon
  <2>3. e \div (4 * L) = b /\ e % (4 * L) = L * q + k /\ m % (4 * L) = L * s + t
    BY <1>4 DEF Falls, Grid, GridHead
  <2>4. L * s + t = L * q + k <=> t = k /\ q = s
    <3>1. L \in Nat \ {0} /\ t \in 0 .. L - 1 /\ k \in 0 .. L - 1 /\ s \in Int /\ q \in Int
      BY <1>4, <1>5, <1>7 DEF Falls, Grid, GridHead
    <3>2. (L * s + t) \div L = s /\ (L * s + t) % L = t  BY <3>1, DivModUnique, ZenonT(40)
    <3>3. (L * q + k) \div L = q /\ (L * q + k) % L = k  BY <3>1, DivModUnique, ZenonT(40)
    <3> HIDE DEF s
    <3> QED  BY <3>2, <3>3
  <2> HIDE DEF s
  <2> QED  BY <2>2, <2>3, <2>4, Zenon DEF y, h
<1>9. ASSUME NEW i \in 0 .. 3
      PROVE  Comb(n, c, L, g + 128 * i) = IF t = k THEN Ray(a, o[i]) ELSE <<0, 0>>
  <2> DEFINE f == g + 128 * i
  <2>1. L \in Nat /\ f \in Nat  OBVIOUS
  <2>2. GridInput(L, S, b, k, g, i)  BY DEF Grid
  <2>3. f \div L = b + S * i /\ f % L = k  BY <2>2 DEF GridInput
  <2>4. m % L = t  BY <1>4 DEF Falls
  <2> HIDE DEF f
  <2>5. Comb(n, c, L, f) =
          IF m % L = f % L THEN Ray(2 * (c * L), x - 2 * (m * (f \div L))) ELSE <<0, 0>>
    BY <1>3, <2>1, Zenon
  <2>6. o[i] = x - 2 * (m * (b + S * i))  BY DEF o
  <2> HIDE DEF o
  <2>7. Comb(n, c, L, f) = IF t = k THEN Ray(a, o[i]) ELSE <<0, 0>>
    BY <2>3, <2>4, <2>5, <2>6, Zenon DEF a
  <2> QED  BY <2>7 DEF f
<1>10. ASSUME NEW i \in 0 .. 3
       PROVE  o[i] \in Int /\ (i * k) * W \in Int /\ Turn((i * k) * W) \in Complex
  <2>1. (i * k) * W \in Int /\ o[i] \in Int  BY <1>2
  <2> QED  BY <2>1, TurnSteps
<1>11. CASE t # k
  <2>1. \A i \in 0 .. 3 : z[i] = <<0, 0>>
    <3> SUFFICES ASSUME NEW i \in 0 .. 3 PROVE z[i] = <<0, 0>>  OBVIOUS
    <3>1. Comb(n, c, L, g + 128 * i) = <<0, 0>>  BY <1>9, <1>11
    <3> QED  BY <1>0, <1>10, <3>1, ZeroComplex
  <2> HIDE DEF s, y, h
  <2> QED  BY <1>8, <1>11, <2>1, ButterflyZero
<1>12. CASE t = k
  <2>1. ASSUME NEW i \in 0 .. 3 PROVE z[i] = Ray(a, h - 256 * (r * i))
    <3> DEFINE w == (i * k) * W
               f == o[i]
               d == h - 256 * (r * i)
    <3>1. f \in Int /\ w \in Int /\ d \in Int  BY <1>6, <1>10
    <3>2. f + w = d
      <4>1. f = x - 2 * (m * (b + S * i))  OBVIOUS
      <4>2. m = L * r + k  BY <1>4, <1>12 DEF Falls
      <4>3. m * (b + S * i) = m * b + (m * i) * S  BY <1>2
      <4>4. 2 * ((m * i) * S) = (m * i) * W  BY <1>2, <1>5
      <4>5. (m * i) * W = (r * i) * (L * W) + (i * k) * W  BY <4>2
      <4> DEFINE mb == m * b
                 mis == (m * i) * S
                 miw == (m * i) * W
                 ri == r * i
      <4>6. /\ mb \in Int /\ mis \in Int /\ miw \in Int /\ ri \in Int
            /\ f = x - 2 * (mb + mis) /\ 2 * mis = miw /\ miw = ri * 256 + w
            /\ d = x - 2 * mb - 256 * ri
        BY <1>2, <1>5, <4>1, <4>3, <4>4, <4>5
      <4> HIDE DEF mb, mis, miw, ri, f, w, d
      <4> QED  BY <1>2, <3>1, <4>6
    <3>3. Comb(n, c, L, g + 128 * i) = Ray(a, f)  BY <1>9, <1>12
    <3>4. CMul(Ray(a, f), Turn(w)) = Ray(a, f + w)
      <4> HIDE DEF a, f, w
      <4> QED  BY <1>6, <3>1, RayTurn
    <3>5. z[i] = CMul(Ray(a, f), Turn(w))  BY <1>0, <3>3
    <3> HIDE DEF a, f, w, d
    <3>6. z[i] = Ray(a, d)  BY <3>2, <3>4, <3>5
    <3> QED  BY <3>6 DEF d
  <2>2. QuartersBack(z, a, h, r)  BY <2>1 DEF QuartersBack
  <2>3. Meeting(y, a, s, r)  BY <1>6 DEF Meeting
  <2>4. r \in Int  OBVIOUS
  <2> HIDE DEF a, h, y, s
  <2>5. Output(z, q) = IF q = s THEN Ray(y, h) ELSE <<0, 0>>
    BY <1>6, <2>2, <2>3, <2>4, ButterflyFour
  <2> QED  BY <1>8, <1>12, <2>5
<1> QED  BY <1>11, <1>12

-----------------------------------------------------------------------------
(* The last, radix-2 stage, one source at a time *)

SpikePair(a, w, n, c, k) ==
  a = Spike(n, c, 256, k) /\ w = CMul(Spike(n, c, 256, k + 256), Turn(2 * k))
CombPair(a, w, n, c, k) ==
  a = Comb(n, c, 256, k) /\ w = CMul(Comb(n, c, 256, k + 256), Turn(2 * k))
SpikePaired(a, w, n, c, k) ==
  CAdd(a, w) = Spike(n, c, 512, k) /\ CSub(a, w) = Spike(n, c, 512, k + 256)
CombPaired(a, w, n, c, k) ==
  CAdd(a, w) = Comb(n, c, 512, k) /\ CSub(a, w) = Comb(n, c, 512, k + 256)

\* The radix-2 stage does so from width 256 to width 512,
LEMMA SpikeLast ==
  ASSUME NEW n \in 0 .. 1023, NEW c \in Int, NEW k \in 0 .. 255,
         NEW a, NEW w, SpikePair(a, w, n, c, k)
  PROVE  SpikePaired(a, w, n, c, k)
<1> SUFFICES CAdd(a, w) = Spike(n, c, 512, k) /\ CSub(a, w) = Spike(n, c, 512, k + 256)
  BY DEF SpikePaired
<1>0. a = Spike(n, c, 256, k) /\ w = CMul(Spike(n, c, 256, k + 256), Turn(2 * k))  BY DEF SpikePair
<1> DEFINE m == n \div 2
           u == m \div 2
           x == 768 * (n % 2)
           f == x + (u * k) * 4
           h0 == x + (m * k) * 2
           h1 == x + (m * (k + 256)) * 2
<1>1. m \in 0 .. 511 /\ u \in Int /\ x \in Int /\ f \in Int /\ h0 \in Int /\ h1 \in Int
  <2>1. m \in 0 .. 511  OBVIOUS
  <2>2. u \in Int /\ x \in Int  BY <2>1
  <2> HIDE DEF m, u, x
  <2> QED  BY <2>1, <2>2
<1>2. Spike(n, c, 256, k) = IF m % 2 = 0 THEN Ray(c, f) ELSE <<0, 0>>
  <2>1. 512 \div 256 = 2 /\ 1024 \div 256 = 4 /\ k \div 256 = 0 /\ k % 256 = k  OBVIOUS
  <2> QED  BY <2>1 DEF Spike
<1>3. Spike(n, c, 256, k + 256) = IF m % 2 = 1 THEN Ray(c, f) ELSE <<0, 0>>
  <2>1. 512 \div 256 = 2 /\ 1024 \div 256 = 4 /\ (k + 256) \div 256 = 1 /\ (k + 256) % 256 = k
    OBVIOUS
  <2> QED  BY <2>1 DEF Spike
<1>4. Spike(n, c, 512, k) = Ray(c, h0)
  <2>1. 512 \div 512 = 1 /\ 1024 \div 512 = 2 /\ k \div 512 = 0 /\ k % 512 = k
        /\ m % 1 = 0 /\ m \div 1 = m
    BY <1>1
  <2> QED  BY <2>1 DEF Spike
<1>5. Spike(n, c, 512, k + 256) = Ray(c, h1)
  <2>1. 512 \div 512 = 1 /\ 1024 \div 512 = 2 /\ (k + 256) \div 512 = 0 /\ (k + 256) % 512 = k + 256
        /\ m % 1 = 0 /\ m \div 1 = m
    BY <1>1
  <2> QED  BY <2>1 DEF Spike
<1>6. m = 2 * u + (m % 2) /\ (m % 2 = 0 \/ m % 2 = 1)  BY <1>1
<1>7. Turn(2 * k) \in Complex /\ 2 * k \in Int
  <2>1. 2 * k \in Int  OBVIOUS
  <2> QED  BY <2>1, TurnSteps
<1> DEFINE g == f + 2 * k
<1>8. g \in Int  BY <1>1
<1>9. CMul(Ray(c, f), Turn(2 * k)) = Ray(c, g)
  <2> DEFINE y == 2 * k
  <2>1. y \in Int  OBVIOUS
  <2> HIDE DEF f, y
  <2>2. CMul(Ray(c, f), Turn(y)) = Ray(c, f + y)  BY <1>1, <2>1, RayTurn
  <2> QED  BY <2>2 DEF y
<1>10. CASE m % 2 = 0
  <2>1. a = Ray(c, f) /\ w = <<0, 0>>  BY <1>0, <1>2, <1>3, <1>7, <1>10, ZeroComplex
  <2>2. CAdd(a, w) = Ray(c, f) /\ CSub(a, w) = Ray(c, f)
    <3>1. Ray(c, f) \in Complex
      <4> HIDE DEF f
      <4> QED  BY <1>1, RayParts
    <3> QED  BY <2>1, <3>1, ZeroComplex
  <2>3. h0 % 1024 = f % 1024 /\ h1 % 1024 = f % 1024
    <3> DEFINE p == u * k
    <3>1. m = 2 * u  BY <1>6, <1>10
    <3>2. h0 = x + 4 * p /\ f = x + 4 * p /\ h1 = x + 4 * p + 1024 * u /\ p \in Int
      BY <1>1, <3>1
    <3> HIDE DEF h0, h1, f, p, u, x
    <3> QED  BY <1>1, <3>2
  <2> HIDE DEF h0, h1, f
  <2>4. Ray(c, h0) = Ray(c, f) /\ Ray(c, h1) = Ray(c, f)  BY <1>1, <2>3, RayPeriod
  <2> QED  BY <1>4, <1>5, <2>2, <2>4
<1>11. CASE m % 2 = 1
  <2>1. a = <<0, 0>> /\ w = Ray(c, g)  BY <1>0, <1>2, <1>3, <1>9, <1>11
  <2> DEFINE l == g + 512
  <2>2. l \in Int  BY <1>8
  <2>3. CAdd(a, w) = Ray(c, g) /\ CSub(a, w) = Ray(c, l)
    <3> HIDE DEF g
    <3>1. Ray(c, g) \in Complex  BY <1>8, RayParts
    <3> QED  BY <1>8, <2>1, <3>1, ZeroComplex, RayMinus
  <2>4. h0 % 1024 = g % 1024 /\ h1 % 1024 = l % 1024
    <3> DEFINE p == u * k
    <3>1. m = 2 * u + 1  BY <1>6, <1>11
    <3>2. h0 = x + 4 * p + 2 * k /\ f = x + 4 * p /\ h1 = x + 4 * p + 2 * k + 1024 * u + 512
          /\ p \in Int
      BY <1>1, <3>1
    <3>3. g = f + 2 * k /\ l = f + 2 * k + 512  OBVIOUS
    <3> HIDE DEF h0, h1, f, p, u, x, g, l
    <3> QED  BY <1>1, <3>2, <3>3
  <2> HIDE DEF h0, h1, g, l
  <2>5. Ray(c, h0) = Ray(c, g) /\ Ray(c, h1) = Ray(c, l)  BY <1>1, <1>8, <2>2, <2>4, RayPeriod
  <2> QED  BY <1>4, <1>5, <2>3, <2>5
<1> QED  BY <1>6, <1>10, <1>11

\* for an inverse transform too.
LEMMA CombLast ==
  ASSUME NEW n \in 0 .. 1023, NEW c \in Int, NEW k \in 0 .. 255,
         NEW a, NEW w, CombPair(a, w, n, c, k)
  PROVE  CombPaired(a, w, n, c, k)
<1> SUFFICES CAdd(a, w) = Comb(n, c, 512, k) /\ CSub(a, w) = Comb(n, c, 512, k + 256)
  BY DEF CombPaired
<1>0. a = Comb(n, c, 256, k) /\ w = CMul(Comb(n, c, 256, k + 256), Turn(2 * k))  BY DEF CombPair
<1> DEFINE m == n \div 2
           x == -(768 * (n % 2))
           d == 2 * (c * 256)
           y == 2 * (c * 512)
           f == x - 2 * m
<1>1. m \in 0 .. 511 /\ x \in Int /\ d \in Int /\ y \in Int /\ f \in Int /\ y = d + d
      /\ d - d = 0 /\ d - -d = y /\ d + -d = 0 /\ -d \in Int
  <2>1. m \in 0 .. 511 /\ x \in Int  OBVIOUS
  <2> QED  BY <2>1
<1>2. Comb(n, c, 256, k) = IF m % 256 = k THEN Ray(d, x) ELSE <<0, 0>>
  <2>1. k % 256 = k /\ k \div 256 = 0 /\ x - 2 * (m * 0) = x  BY <1>1
  <2> QED  BY <2>1 DEF Comb
<1>3. Comb(n, c, 256, k + 256) = IF m % 256 = k THEN Ray(d, f) ELSE <<0, 0>>
  <2>1. (k + 256) % 256 = k /\ (k + 256) \div 256 = 1 /\ x - 2 * (m * 1) = f  BY <1>1
  <2> QED  BY <2>1 DEF Comb
<1>4. Comb(n, c, 512, k) = IF m = k THEN Ray(y, x) ELSE <<0, 0>>
  <2>1. k % 512 = k /\ k \div 512 = 0 /\ x - 2 * (m * 0) = x /\ m % 512 = m  BY <1>1
  <2> QED  BY <2>1 DEF Comb
<1>5. Comb(n, c, 512, k + 256) = IF m = k + 256 THEN Ray(y, x) ELSE <<0, 0>>
  <2>1. (k + 256) % 512 = k + 256 /\ (k + 256) \div 512 = 0 /\ x - 2 * (m * 0) = x /\ m % 512 = m
    BY <1>1
  <2> QED  BY <2>1 DEF Comb
<1>6. (m % 256 = k) <=> (m = k \/ m = k + 256)
  <2> HIDE DEF m
  <2>1. CASE m < 256
    <3>1. m % 256 = m  BY <1>1, <2>1
    <3> QED  BY <1>1, <2>1, <3>1
  <2>2. CASE m >= 256
    <3>1. m % 256 = m - 256  BY <1>1, <2>2
    <3> QED  BY <1>1, <2>2, <3>1
  <2> QED  BY <1>1, <2>1, <2>2
<1> DEFINE t == 2 * k
           l == f + t
<1>7. Turn(t) \in Complex /\ t \in Int /\ l \in Int
  <2>1. t \in Int  OBVIOUS
  <2> HIDE DEF t
  <2> QED  BY <1>1, <2>1, TurnSteps
<1>8. CMul(Ray(d, f), Turn(t)) = Ray(d, l)
  <2> HIDE DEF d, f, t
  <2> QED  BY <1>1, <1>7, RayTurn
<1>9. CASE ~(m % 256 = k)
  <2>1. a = <<0, 0>> /\ w = <<0, 0>>  BY <1>0, <1>2, <1>3, <1>7, <1>9, ZeroComplex
  <2>2. CAdd(a, w) = <<0, 0>> /\ CSub(a, w) = <<0, 0>>  BY <2>1, ZeroComplex
  <2>3. m # k /\ m # k + 256  BY <1>6, <1>9
  <2> QED  BY <1>4, <1>5, <2>2, <2>3
<1>10. CASE m = k
  <2>1. a = Ray(d, x) /\ w = Ray(d, l)  BY <1>0, <1>2, <1>3, <1>6, <1>8, <1>10
  <2>2. l = x  BY <1>1, <1>10
  <2>3. CAdd(a, w) = Ray(y, x) /\ CSub(a, w) = <<0, 0>>
    <3> HIDE DEF d, x, y, l
    <3>1. CAdd(Ray(d, x), Ray(d, x)) = Ray(d + d, x) /\ CSub(Ray(d, x), Ray(d, x)) = Ray(d - d, x)
      BY <1>1, RayAdd, ZenonT(40)
    <3> QED  BY <1>1, <2>1, <2>2, <3>1, RayZero
  <2>4. m # k + 256  BY <1>10
  <2> QED  BY <1>4, <1>5, <1>10, <2>3, <2>4
<1>11. CASE m = k + 256
  <2>1. a = Ray(d, x) /\ w = Ray(d, l)  BY <1>0, <1>2, <1>3, <1>6, <1>8, <1>11
  <2> DEFINE g == x + 512
             e == -d
  <2>2. g \in Int /\ e \in Int /\ e = -d /\ l % 1024 = g % 1024
    <3>1. l = x - 512  BY <1>1, <1>11
    <3> HIDE DEF l, x
    <3> QED  BY <1>1, <3>1
  <2>3. w = Ray(e, x)
    <3>1. Ray(d, x + 512) = Ray(-d, x)
      <4> HIDE DEF d, x
      <4> QED  BY <1>1, RayHalf
    <3>2. Ray(d, l) = Ray(d, g)
      <4> HIDE DEF d, l, g
      <4> QED  BY <1>1, <1>7, <2>2, RayPeriod
    <3> QED  BY <2>1, <3>1, <3>2
  <2>4. CAdd(a, w) = <<0, 0>> /\ CSub(a, w) = Ray(y, x)
    <3> HIDE DEF d, x, y, e
    <3>3. d \in Int /\ e \in Int /\ x \in Int  BY <1>1, <2>2
    <3>1. CAdd(Ray(d, x), Ray(e, x)) = Ray(d + e, x) /\ CSub(Ray(d, x), Ray(e, x)) = Ray(d - e, x)
      BY <3>3, RayAdd, Zenon
    <3>2. d + e = 0 /\ d - e = y  BY <1>1, <2>2
    <3> QED  BY <1>1, <2>1, <2>3, <3>1, <3>2, RayZero
  <2>5. m # k  BY <1>11
  <2> QED  BY <1>4, <1>5, <1>11, <2>4, <2>5
<1> QED  BY <1>6, <1>9, <1>10, <1>11

-----------------------------------------------------------------------------
(* A stage's buffer: the sum over a call's impulses *)

Parts(c, L, e) ==
  [j \in Nat |-> IF c.op = "forward" THEN Spike(c.at[j + 1], c.amp[j + 1], L, e)
                 ELSE Comb(c.at[j + 1], c.amp[j + 1], L, e)]
Column(c, L, e) == CSum(Len(c.at), Parts(c, L, e))

\* What the assumption on signals says of one call.
LEMMA CallSources ==
  ASSUME NEW c \in Calls, c.family = "fft"
  PROVE  /\ Len(c.at) \in Nat
         /\ \A j \in 0 .. Len(c.at) - 1 : j \in Nat /\ c.at[j + 1] \in 0 .. 1023 /\ c.amp[j + 1] \in Int
         /\ c.tier \in {"neon", "avx2", "avx512"} /\ c.op \in {"forward", "inverse"}
<1>1. /\ c.at \in Seq(0 .. 1023) /\ c.amp \in Seq(Int) /\ Len(c.amp) = Len(c.at)
      /\ c.tier \in {"neon", "avx2", "avx512"} /\ c.op \in {"forward", "inverse"}
  <2>1. FFT_N - 1 = 1023  BY DEF FFT_N
  <2> QED  BY <2>1, SignalsAssumption
<1>2. Len(c.at) \in Nat  BY <1>1
<1>3. ASSUME NEW j \in 0 .. Len(c.at) - 1
      PROVE  j \in Nat /\ c.at[j + 1] \in 0 .. 1023 /\ c.amp[j + 1] \in Int
  <2>1. j + 1 \in 1 .. Len(c.at) /\ j + 1 \in 1 .. Len(c.amp) /\ j \in Nat  BY <1>1, <1>2
  <2> DEFINE i == j + 1
  <2>2. i \in 1 .. Len(c.at) /\ i \in 1 .. Len(c.amp)  BY <2>1
  <2> HIDE DEF i
  <2>3. c.at[i] \in 0 .. 1023
    <3> DEFINE P == 0 .. 1023
    <3>1. c.at \in Seq(P)  BY <1>1
    <3> HIDE DEF P
    <3>2. c.at[i] \in P  BY <2>2, <3>1
    <3> QED  BY <3>2 DEF P
  <2>4. c.amp[i] \in Int  BY <1>1, <2>2
  <2> QED  BY <2>1, <2>3, <2>4 DEF i
<1> QED  BY <1>1, <1>2, <1>3

\* The shares of a call's impulses and their sum are complex.
LEMMA PartsComplex ==
  ASSUME NEW c \in Calls, c.family = "fft",
         NEW L \in Nat, L > 0, L <= 512, NEW e \in 0 .. 511
  PROVE  /\ \A j \in 0 .. Len(c.at) - 1 : Parts(c, L, e)[j] \in Complex
         /\ Column(c, L, e) \in Complex
<1>1. ASSUME NEW j \in 0 .. Len(c.at) - 1 PROVE Parts(c, L, e)[j] \in Complex
  <2> DEFINE n == c.at[j + 1]
             a == c.amp[j + 1]
  <2>1. j \in Nat /\ n \in 0 .. 1023 /\ a \in Int  BY CallSources
  <2>2. Parts(c, L, e)[j] = IF c.op = "forward" THEN Spike(n, a, L, e) ELSE Comb(n, a, L, e)
    BY <2>1, Zenon DEF Parts
  <2> HIDE DEF n, a
  <2>3. Spike(n, a, L, e) \in Complex /\ Comb(n, a, L, e) \in Complex  BY <2>1, PartComplex, ZenonT(40)
  <2> QED  BY <2>2, <2>3
<1>2. Len(c.at) \in Nat  BY CallSources
<1> QED  BY <1>1, <1>2, CSumComplex DEF Column

StageInputs(x, c, L, W, g, k) ==
  \A i \in 0 .. 3 : x[i] = CMul(Column(c, L, g + 128 * i), Turn((i * k) * W))

StageDone(c, L, x, q, e) == Output(x, q) = Column(c, 4 * L, e)

\* A radix-4 butterfly takes a buffer of width L to one of width 4L.
LEMMA RadixFourSum ==
  ASSUME NEW c \in Calls, c.family = "fft",
         NEW L \in Nat, NEW W \in Nat, NEW S \in Nat, Width(L, W, S), NEW e \in 0 .. 511,
         NEW b \in Nat, NEW q \in 0 .. 3, NEW k \in Nat, NEW g \in 0 .. 127, Grid(L, S, e, b, q, k, g),
         NEW x, StageInputs(x, c, L, W, g, k)
  PROVE  StageDone(c, L, x, q, e)
<1> DEFINE N == Len(c.at)
           z == [i \in 0 .. 3 |-> [j \in Nat |-> CMul(Parts(c, L, g + 128 * i)[j], Turn((i * k) * W))]]
           h == Parts(c, 4 * L, e)
<1>0. N \in Nat /\ \A j \in 0 .. N - 1 : j \in Nat  BY CallSources
<1>1. L > 0 /\ L <= 512  BY DEF Width
<1>2. ASSUME NEW i \in 0 .. 3 PROVE Turn((i * k) * W) \in Complex
  <2>1. (i * k) * W \in Int  OBVIOUS
  <2> QED  BY <2>1, TurnSteps
<1>3. ASSUME NEW i \in 0 .. 3, NEW j \in 0 .. N - 1
      PROVE  /\ Parts(c, L, g + 128 * i)[j] \in Complex
             /\ z[i][j] = CMul(Parts(c, L, g + 128 * i)[j], Turn((i * k) * W)) /\ z[i][j] \in Complex
  <2>1. g + 128 * i \in 0 .. 511  BY SMTT(30) DEF Grid, GridInput
  <2>2. Parts(c, L, g + 128 * i)[j] \in Complex  BY <1>1, <2>1, PartsComplex
  <2>3. z[i][j] = CMul(Parts(c, L, g + 128 * i)[j], Turn((i * k) * W))  BY <1>0
  <2> DEFINE f == Parts(c, L, g + 128 * i)[j]
             w == Turn((i * k) * W)
  <2>4. f \in Complex /\ w \in Complex /\ z[i][j] = CMul(f, w)  BY <1>2, <2>2, <2>3
  <2> HIDE DEF z, f, w
  <2>5. z[i][j] \in Complex  BY <2>4, ComplexClosed
  <2> QED  BY <2>2, <2>3, <2>5
<1>4. ASSUME NEW i \in 0 .. 3 PROVE x[i] = CSum(N, z[i])
  <2> DEFINE f == Parts(c, L, g + 128 * i)
             w == Turn((i * k) * W)
             y == z[i]
  <2>1. \A j \in 0 .. N - 1 : f[j] \in Complex /\ y[j] = CMul(f[j], w)  BY <1>3
  <2>2. w \in Complex  BY <1>2
  <2>3. x[i] = CMul(CSum(N, f), w)  BY DEF Column, StageInputs
  <2> HIDE DEF f, w, y
  <2>4. CMul(CSum(N, f), w) = CSum(N, y)
    <3> HIDE DEF N
    <3> QED  BY <1>0, <2>1, <2>2, CSumMul
  <2> QED  BY <2>3, <2>4 DEF y
<1>10. StepAt(L, W, S, e, b, q, k, g)  BY DEF StepAt
<1>5. ASSUME NEW j \in 0 .. N - 1
      PROVE  h[j] = Butterfly(z[0][j], z[1][j], z[2][j], z[3][j])[q + 1]
  <2>0. j \in Nat /\ c.at[j + 1] \in 0 .. 1023 /\ c.amp[j + 1] \in Int  BY CallSources, ZenonT(40)
  <2>1. PICK n \in 0 .. 1023, a \in Int : j \in Nat /\ n = c.at[j + 1] /\ a = c.amp[j + 1]
    <3> DEFINE p == c.at[j + 1]
               v == c.amp[j + 1]
    <3>1. j \in Nat /\ p \in 0 .. 1023 /\ v \in Int /\ p = c.at[j + 1] /\ v = c.amp[j + 1]
      BY <2>0
    <3> HIDE DEF p, v
    <3> QED  BY <3>1, ZenonT(40)
  <2> DEFINE y == [i \in 0 .. 3 |-> z[i][j]]
  <2>2. h[j] = IF c.op = "forward" THEN Spike(n, a, 4 * L, e) ELSE Comb(n, a, 4 * L, e)
    BY <2>1 DEF Parts
  <2>3. \A f : Parts(c, L, f)[j] = IF c.op = "forward" THEN Spike(n, a, L, f) ELSE Comb(n, a, L, f)
    BY <2>1 DEF Parts
  <2>4. \A i \in 0 .. 3 : y[i] = CMul(Parts(c, L, g + 128 * i)[j], Turn((i * k) * W))
    <3> HIDE DEF z
    <3> QED  BY <1>3, ZenonT(40)
  <2>5. Output(y, q) = Butterfly(z[0][j], z[1][j], z[2][j], z[3][j])[q + 1]
    <3> HIDE DEF z
    <3>1. 0 \in 0 .. 3 /\ 1 \in 0 .. 3 /\ 2 \in 0 .. 3 /\ 3 \in 0 .. 3  OBVIOUS
    <3>2. y[0] = z[0][j] /\ y[1] = z[1][j] /\ y[2] = z[2][j] /\ y[3] = z[3][j]  BY <3>1
    <3> HIDE DEF y
    <3> QED  BY <3>2 DEF Output, ButterflyOf
  <2> HIDE DEF y, h, z
  <2>8. Source(n, a)  BY <2>1 DEF Source
  <2>6. CASE c.op = "forward"
    <3>1. SpikeInputs(y, n, a, L, W, g, k)
      BY <2>3, <2>4, <2>6, ZenonT(40) DEF SpikeInputs
    <3>3. SpikeStepped(y, q, n, a, L, e)  BY <1>10, <2>8, <3>1, SpikeStep
    <3>2. Output(y, q) = Spike(n, a, 4 * L, e)  BY <3>3 DEF SpikeStepped
    <3> QED  BY <2>2, <2>5, <2>6, <3>2
  <2>7. CASE c.op # "forward"
    <3>1. CombInputs(y, n, a, L, W, g, k)
      BY <2>3, <2>4, <2>7, ZenonT(40) DEF CombInputs
    <3>3. CombStepped(y, q, n, a, L, e)  BY <1>10, <2>8, <3>1, CombStep
    <3>2. Output(y, q) = Comb(n, a, 4 * L, e)  BY <3>3 DEF CombStepped
    <3> QED  BY <2>2, <2>5, <2>7, <3>2
  <2> QED  BY <2>6, <2>7
<1> HIDE DEF z, h, N
<1>6. \A i \in 0 .. 3 : \A j \in 0 .. N - 1 : z[i][j] \in Complex  BY <1>3
<1>7. q + 1 \in 1 .. 4  OBVIOUS
<1>8. Butterfly(CSum(N, z[0]), CSum(N, z[1]), CSum(N, z[2]), CSum(N, z[3]))[q + 1] = CSum(N, h)
  <2> DEFINE r == q + 1
  <2>1. r \in 1 .. 4  BY <1>7
  <2>2. \A j \in 0 .. N - 1 : h[j] = Butterfly(z[0][j], z[1][j], z[2][j], z[3][j])[r]  BY <1>5
  <2> HIDE DEF r
  <2>3. Butterfly(CSum(N, z[0]), CSum(N, z[1]), CSum(N, z[2]), CSum(N, z[3]))[r] = CSum(N, h)
    <3>1. Addends(z, N, r, h)  BY <1>6, <2>2 DEF Addends
    <3>2. Added(z, N, r, h)  BY <1>0, <2>1, <3>1, ButterflySum
    <3> QED  BY <3>2 DEF Added
  <2> QED  BY <2>3 DEF r
<1>9. x[0] = CSum(N, z[0]) /\ x[1] = CSum(N, z[1]) /\ x[2] = CSum(N, z[2]) /\ x[3] = CSum(N, z[3])
  BY <1>4
<1> QED  BY <1>8, <1>9 DEF StageDone, Output, ButterflyOf, Column, h, N

LastTurned(c, k, w) == w = CMul(Column(c, 256, k + 256), Turn(2 * k))
LastDone(c, k, w) ==
  /\ CAdd(Column(c, 256, k), w) = Column(c, 512, k)
  /\ CSub(Column(c, 256, k), w) = Column(c, 512, k + 256)

\* The radix-2 butterfly takes a buffer of width 256 to one of width 512.
LEMMA RadixTwoSum ==
  ASSUME NEW c \in Calls, c.family = "fft", NEW k \in 0 .. 255, NEW w, LastTurned(c, k, w)
  PROVE  LastDone(c, k, w)
<1>9. w = CMul(Column(c, 256, k + 256), Turn(2 * k))  BY DEF LastTurned
<1> DEFINE N == Len(c.at)
           f == Parts(c, 256, k)
           g == Parts(c, 256, k + 256)
           t == Turn(2 * k)
           h == [j \in Nat |-> CMul(g[j], t)]
           s == Parts(c, 512, k)
           d == Parts(c, 512, k + 256)
<1>0. N \in Nat /\ \A j \in 0 .. N - 1 : j \in Nat  BY CallSources
<1>1. t \in Complex
  <2>1. 2 * k \in Int  OBVIOUS
  <2> QED  BY <2>1, TurnSteps
<1>2. \A j \in 0 .. N - 1 : f[j] \in Complex /\ g[j] \in Complex
  <2>1. PICK l \in Nat, p \in 0 .. 511 : l = 256 /\ p = k + 256  OBVIOUS
  <2>2. k \in 0 .. 511 /\ l > 0 /\ l <= 512  BY <2>1
  <2>3. \A j \in 0 .. N - 1 : Parts(c, l, k)[j] \in Complex  BY <2>2, PartsComplex
  <2>4. \A j \in 0 .. N - 1 : Parts(c, l, p)[j] \in Complex  BY <2>2, PartsComplex
  <2> QED  BY <2>1, <2>3, <2>4
<1>3. \A j \in 0 .. N - 1 : h[j] = CMul(g[j], t) /\ h[j] \in Complex
  <2> SUFFICES ASSUME NEW j \in 0 .. N - 1 PROVE h[j] = CMul(g[j], t) /\ h[j] \in Complex
    OBVIOUS
  <2>1. h[j] = CMul(g[j], t)  BY <1>0
  <2> DEFINE y == g[j]
  <2>2. y \in Complex /\ h[j] = CMul(y, t)  BY <1>2, <2>1
  <2> HIDE DEF h, y, t
  <2>3. h[j] \in Complex  BY <1>1, <2>2, ComplexClosed
  <2> QED  BY <2>1, <2>3
<1>4. ASSUME NEW j \in 0 .. N - 1
      PROVE  s[j] = CAdd(f[j], h[j]) /\ d[j] = CSub(f[j], h[j])
  <2>0. j \in Nat /\ c.at[j + 1] \in 0 .. 1023 /\ c.amp[j + 1] \in Int  BY CallSources
  <2>1. PICK n \in 0 .. 1023, a \in Int : j \in Nat /\ n = c.at[j + 1] /\ a = c.amp[j + 1]
    <3> DEFINE p == c.at[j + 1]
               v == c.amp[j + 1]
    <3>1. j \in Nat /\ p \in 0 .. 1023 /\ v \in Int /\ p = c.at[j + 1] /\ v = c.amp[j + 1]
      BY <2>0
    <3> HIDE DEF p, v
    <3> QED  BY <3>1, ZenonT(40)
  <2> DEFINE u == f[j]
             v == h[j]
  <2>2. \A l, e : Parts(c, l, e)[j] = IF c.op = "forward" THEN Spike(n, a, l, e) ELSE Comb(n, a, l, e)
    BY <2>1 DEF Parts
  <2>3. v = CMul(g[j], t)  BY <1>3
  <2> HIDE DEF v, h
  <2>4. CASE c.op = "forward"
    <3>1. u = Spike(n, a, 256, k) /\ v = CMul(Spike(n, a, 256, k + 256), Turn(2 * k))
          /\ s[j] = Spike(n, a, 512, k) /\ d[j] = Spike(n, a, 512, k + 256)
      BY <2>2, <2>3, <2>4
    <3> HIDE DEF u, s, d
    <3>3. SpikePair(u, v, n, a, k)  BY <3>1 DEF SpikePair
    <3>4. SpikePaired(u, v, n, a, k)  BY <2>1, <3>3, SpikeLast, ZenonT(40)
    <3>2. CAdd(u, v) = Spike(n, a, 512, k) /\ CSub(u, v) = Spike(n, a, 512, k + 256)
      BY <3>4 DEF SpikePaired
    <3> QED  BY <3>1, <3>2 DEF u, v
  <2>5. CASE c.op # "forward"
    <3>1. u = Comb(n, a, 256, k) /\ v = CMul(Comb(n, a, 256, k + 256), Turn(2 * k))
          /\ s[j] = Comb(n, a, 512, k) /\ d[j] = Comb(n, a, 512, k + 256)
      BY <2>2, <2>3, <2>5
    <3> HIDE DEF u, s, d
    <3>3. CombPair(u, v, n, a, k)  BY <3>1 DEF CombPair
    <3>4. CombPaired(u, v, n, a, k)  BY <2>1, <3>3, CombLast, ZenonT(40)
    <3>2. CAdd(u, v) = Comb(n, a, 512, k) /\ CSub(u, v) = Comb(n, a, 512, k + 256)
      BY <3>4 DEF CombPaired
    <3> QED  BY <3>1, <3>2 DEF u, v
  <2> QED  BY <2>4, <2>5
<1>5. /\ Column(c, 256, k) = CSum(N, f) /\ Column(c, 512, k) = CSum(N, s) /\ Column(c, 512, k + 256) = CSum(N, d)
      /\ w = CMul(CSum(N, g), t)
  BY <1>9 DEF Column
<1> HIDE DEF N, f, g, t, h, s, d
<1>6. CMul(CSum(N, g), t) = CSum(N, h)  BY <1>0, <1>1, <1>2, <1>3, CSumMul
<1>7. CAdd(CSum(N, f), CSum(N, h)) = CSum(N, s)  BY <1>0, <1>2, <1>3, <1>4, CSumAdd
<1>8. CSub(CSum(N, f), CSum(N, h)) = CSum(N, d)  BY <1>0, <1>2, <1>3, <1>4, CSumSub
<1> QED  BY <1>5, <1>6, <1>7, <1>8 DEF LastDone

-----------------------------------------------------------------------------
(* The signal and its transform as sums over a call's impulses *)

\* A sum of residues is the residue of the sum.
LEMMA FldOfSum ==
  ASSUME NEW t, NEW u, NEW s \in Int, NEW m \in Nat,
         \A j \in 0 .. m - 1 : t[j] \in Int /\ u[j] = Fld(s * t[j])
  PROVE  Fld(SumTo(m, u)) = Fld(s * SumTo(m, t))
<1> DEFINE Holds == {n \in Nat : n <= m => Fld(SumTo(n, u)) = Fld(s * SumTo(n, t))}
<1>0. \A n \in 0 .. m : SumTo(n, t) \in Int
  <2>1. \A j \in 0 .. m - 1 : t[j] \in Int  OBVIOUS
  <2> QED  BY <2>1, SumToInt
<1>1. \A n \in 0 .. m : SumTo(n, u) \in Int
  <2>1. ASSUME NEW j \in 0 .. m - 1 PROVE u[j] \in Int
    <3> DEFINE x == s * t[j]
    <3>1. x \in Int /\ u[j] = Fld(x)  OBVIOUS
    <3> HIDE DEF x
    <3> QED  BY <3>1, FldParts
  <2> QED  BY <2>1, SumToInt
<1>2. 0 \in Holds
  <2>1. SumTo(0, t) = 0 /\ SumTo(0, u) = 0 /\ s * 0 = 0  BY SumToStep
  <2> QED  BY <2>1
<1>3. ASSUME NEW n \in Nat, n \in Holds PROVE n + 1 \in Holds
  <2> SUFFICES ASSUME n + 1 <= m PROVE Fld(SumTo(n + 1, u)) = Fld(s * SumTo(n + 1, t))
    OBVIOUS
  <2> DEFINE U == SumTo(n, u)
             S == SumTo(n, t)
             X == s * S
             y == s * t[n]
  <2>1. n \in 0 .. m - 1 /\ n \in 0 .. m /\ n <= m  OBVIOUS
  <2>2. U \in Int /\ S \in Int  BY <1>0, <1>1, <2>1
  <2>3. t[n] \in Int /\ u[n] = Fld(y)  BY <2>1
  <2>4. SumTo(n + 1, u) = U + u[n] /\ SumTo(n + 1, t) = S + t[n]  BY SumToStep
  <2>5. s * (S + t[n]) = X + y /\ X \in Int /\ y \in Int  BY <2>2, <2>3
  <2>6. Fld(U) = Fld(X)  BY <1>3, <2>1
  <2> HIDE DEF U, S, X, y
  <2>7. Fld(y) \in Int /\ Fld(Fld(y)) = Fld(y)
    <3>1. Fld(y) \in Scalars /\ Fld(y) \in Int  BY <2>5, FldParts
    <3> QED  BY <3>1, FldParts
  <2>8. Fld(U + Fld(y)) = Fld(Fld(U) + Fld(Fld(y)))  BY <2>2, <2>7, FldSum
  <2>9. Fld(X + y) = Fld(Fld(X) + Fld(y))  BY <2>5, FldSum
  <2> QED  BY <2>3, <2>4, <2>5, <2>6, <2>7, <2>8, <2>9
<1> HIDE DEF Holds
<1>4. \A n \in Nat : n \in Holds  BY <1>2, <1>3, SetInduction
<1> QED  BY <1>4 DEF Holds

\* Signal and Dft of a call.
SampleOf(c, n) ==
  Fld(SumTo(Len(c.at), [j \in Nat |-> IF c.at[j + 1] = n THEN c.amp[j + 1] ELSE 0]))
BinOf(c, k) ==
  <<Fld(SumTo(Len(c.at), [j \in Nat |-> c.amp[j + 1] * Twiddle(c.at[j + 1] * k, FFT_N)[1]])),
    Fld(SumTo(Len(c.at), [j \in Nat |-> c.amp[j + 1] * Twiddle(c.at[j + 1] * k, FFT_N)[2]]))>>
Bins(c, k) == [j \in Nat |-> Ray(c.amp[j + 1], c.at[j + 1] * k)]

\* A bin of the definition is the sum of one ray per impulse.
LEMMA BinSum ==
  ASSUME NEW c \in Calls, c.family = "fft", NEW k \in Nat
  PROVE  /\ BinOf(c, k) = CSum(Len(c.at), Bins(c, k))
         /\ \A j \in 0 .. Len(c.at) - 1 : Bins(c, k)[j] \in Complex
<1> DEFINE N == Len(c.at)
           f == Bins(c, k)
           t1 == [j \in Nat |-> c.amp[j + 1] * Twiddle(c.at[j + 1] * k, FFT_N)[1]]
           t2 == [j \in Nat |-> c.amp[j + 1] * Twiddle(c.at[j + 1] * k, FFT_N)[2]]
           u1 == [j \in Nat |-> f[j][1]]
           u2 == [j \in Nat |-> f[j][2]]
<1>0. N \in Nat  BY CallSources
<1>1. ASSUME NEW j \in 0 .. N - 1
      PROVE  /\ t1[j] \in Int /\ u1[j] = Fld(1 * t1[j])
             /\ t2[j] \in Int /\ u2[j] = Fld(1 * t2[j])
             /\ f[j] \in Complex
  <2>1. j \in Nat /\ c.at[j + 1] \in 0 .. 1023 /\ c.amp[j + 1] \in Int  BY CallSources, ZenonT(40)
  <2> DEFINE a == c.amp[j + 1]
             e == c.at[j + 1] * k
             w == Turn(e)
  <2>2. a \in Int /\ e \in Int
    <3> DEFINE n == c.at[j + 1]
    <3>5. \A z \in 0 .. 1023 : z \in Int  OBVIOUS
    <3>3. n \in Int  BY <2>1, <3>5, Zenon
    <3>4. e = n * k  OBVIOUS
    <3>1. n \in Int /\ e = n * k  BY <3>3, <3>4
    <3> HIDE DEF n, e
    <3>2. e \in Int  BY <3>1
    <3> QED  BY <2>1, <3>2
  <2>3. Twiddle(e, FFT_N) = w
    <3>1. FFT_N \div FFT_N = 1  BY DEF FFT_N
    <3>2. e * (FFT_N \div FFT_N) = e  BY <2>2, <3>1
    <3> QED  BY <3>2 DEF Twiddle, Turn
  <2>4. t1[j] = a * w[1] /\ t2[j] = a * w[2] /\ f[j] = Ray(a, e) /\ u1[j] = f[j][1] /\ u2[j] = f[j][2]
    BY <2>1, <2>3 DEF Bins
  <2> HIDE DEF a, e, t1, t2, u1, u2, f
  <2>5. Ray(a, e) \in Complex /\ Ray(a, e) = <<Fld(a * w[1]), Fld(a * w[2])>>  BY <2>2, RayParts
  <2>6. w[1] \in Int /\ w[2] \in Int  BY <2>2, TurnSteps, ComplexParts
  <2> HIDE DEF w
  <2> DEFINE p == a * w[1]
             r == a * w[2]
  <2>7. p \in Int /\ r \in Int /\ 1 * p = p /\ 1 * r = r  BY <2>2, <2>6
  <2>8. t1[j] = p /\ t2[j] = r /\ u1[j] = Fld(p) /\ u2[j] = Fld(r) /\ f[j] \in Complex
    BY <2>4, <2>5
  <2> HIDE DEF p, r
  <2> QED  BY <2>7, <2>8
<1>2. BinOf(c, k) = <<Fld(SumTo(N, t1)), Fld(SumTo(N, t2))>>
      /\ CSum(N, f) = <<Fld(SumTo(N, u1)), Fld(SumTo(N, u2))>>
  BY DEF BinOf, CSum
<1> HIDE DEF N, f, t1, t2, u1, u2
<1>3. Fld(SumTo(N, u1)) = Fld(1 * SumTo(N, t1)) /\ Fld(SumTo(N, u2)) = Fld(1 * SumTo(N, t2))
  <2>1. \A j \in 0 .. N - 1 : t1[j] \in Int /\ u1[j] = Fld(1 * t1[j])  BY <1>1
  <2>2. \A j \in 0 .. N - 1 : t2[j] \in Int /\ u2[j] = Fld(1 * t2[j])  BY <1>1
  <2>3. PICK s \in Int : s = 1  OBVIOUS
  <2>4. Fld(SumTo(N, u1)) = Fld(s * SumTo(N, t1))  BY <1>0, <2>1, <2>3, FldOfSum
  <2>5. Fld(SumTo(N, u2)) = Fld(s * SumTo(N, t2))  BY <1>0, <2>2, <2>3, FldOfSum
  <2> QED  BY <2>3, <2>4, <2>5
<1>4. 1 * SumTo(N, t1) = SumTo(N, t1) /\ 1 * SumTo(N, t2) = SumTo(N, t2)
  <2>1. \A j \in 0 .. N - 1 : t1[j] \in Int  BY <1>1
  <2>2. \A j \in 0 .. N - 1 : t2[j] \in Int  BY <1>1
  <2>3. N \in 0 .. N  BY <1>0
  <2>4. SumTo(N, t1) \in Int /\ SumTo(N, t2) \in Int  BY <1>0, <2>1, <2>2, <2>3, SumToInt
  <2> QED  BY <2>4
<1> QED  BY <1>1, <1>2, <1>3, <1>4 DEF N, f

\* A real number turned three quarters is i times it.
LEMMA RayUpright ==
  ASSUME NEW c \in Int
  PROVE  Ray(c, 0) = <<Fld(c), 0>> /\ Ray(c, 768) = <<0, Fld(c)>>
<1>1. ASSUME NEW d \in Int PROVE Ray(d, 0) = <<Fld(d), 0>>
  <2>1. Real(d) \in Complex  BY RealComplex
  <2>2. CMul(Real(d), <<1, 0>>) = Real(d)
    <3>1. <<1, 0>> \in Complex  BY UnitComplex
    <3> QED  BY <2>1, <3>1, ProductCommutes
  <2>3. Turn(0) = <<1, 0>>  BY TurnSteps
  <2> QED  BY <2>2, <2>3 DEF Ray, Real
<1> DEFINE d == -c
           v == Fld(d)
<1>2. d \in Int /\ -d = c /\ 0 + 256 = 256 /\ 256 + 512 = 768 /\ 0 \in Int /\ 256 \in Int  OBVIOUS
<1>3. v \in Int /\ Fld(-v) = Fld(c)
  <2>1. Fld(-Fld(d)) = Fld(-d)
    <3> HIDE DEF d
    <3> QED  BY <1>2, FldSum
  <2> QED  BY <1>2, <2>1, FldParts
<1>4. Ray(c, 768) = MinusI(Ray(d, 0))
  <2>1. Ray(c, 256 + 512) = Ray(-c, 256)  BY <1>2, RayHalf
  <2>2. Ray(d, 0 + 256) = MinusI(Ray(d, 0))
    <3> HIDE DEF d
    <3> QED  BY <1>2, RayQuarter
  <2> QED  BY <1>2, <2>1, <2>2
<1>5. Ray(d, 0) = <<v, 0>>  BY <1>1, <1>2
<1>6. MinusI(<<v, 0>>) = <<0, Fld(-v)>>  BY DEF MinusI
<1>7. Ray(c, 0) = <<Fld(c), 0>>  BY <1>1
<1> QED  BY <1>3, <1>4, <1>5, <1>6, <1>7

\* The impulses of the half-index k, s times over, and the pair of samples they make.
Placed(c, s, k) ==
  [j \in Nat |-> IF c.at[j + 1] \div 2 = k
                 THEN Ray(s * c.amp[j + 1], 768 * (c.at[j + 1] % 2)) ELSE <<0, 0>>]

PlacedAs(p, n, a, s, k) == p = IF n \div 2 = k THEN Ray(s * a, 768 * (n % 2)) ELSE <<0, 0>>
PlacedValues(p, n, a, s, k) ==
  /\ p \in Complex
  /\ p[1] = Fld(s * (IF n = 2 * k THEN a ELSE 0))
  /\ p[2] = Fld(s * (IF n = 2 * k + 1 THEN a ELSE 0))

\* The share of an impulse in a packed place: real if its position is even,
\* imaginary if it is odd.
LEMMA PlacedParts ==
  ASSUME NEW n \in 0 .. 1023, NEW a \in Int, NEW s \in Int, NEW k \in Nat, NEW p,
         PlacedAs(p, n, a, s, k)
  PROVE  PlacedValues(p, n, a, s, k)
<1> SUFFICES ASSUME p = IF n \div 2 = k THEN Ray(s * a, 768 * (n % 2)) ELSE <<0, 0>>
             PROVE  /\ p \in Complex
                    /\ p[1] = Fld(s * (IF n = 2 * k THEN a ELSE 0))
                    /\ p[2] = Fld(s * (IF n = 2 * k + 1 THEN a ELSE 0))
  BY DEF PlacedAs, PlacedValues
<1> DEFINE b == s * a
<1>1. b \in Int /\ b = s * a /\ s * 0 = 0 /\ Fld(0) = 0  BY DEF Fld, FieldP
<1>2. CASE n = 2 * k
  <2>1. n \div 2 = k /\ n % 2 = 0 /\ 768 * 0 = 0 /\ n # 2 * k + 1  BY <1>2
  <2> HIDE DEF b
  <2>2. p = Ray(b, 0)  BY <1>1, <2>1
  <2>3. Ray(b, 0) \in Complex  BY <1>1, RayParts
  <2> QED  BY <1>1, <1>2, <2>1, <2>2, <2>3, RayUpright
<1>3. CASE n = 2 * k + 1
  <2>1. n \div 2 = k /\ n % 2 = 1 /\ 768 * 1 = 768 /\ n # 2 * k  BY <1>3
  <2> HIDE DEF b
  <2>2. p = Ray(b, 768)  BY <1>1, <2>1
  <2>3. Ray(b, 768) \in Complex  BY <1>1, RayParts
  <2> QED  BY <1>1, <1>3, <2>1, <2>2, <2>3, RayUpright
<1>4. CASE n # 2 * k /\ n # 2 * k + 1
  <2>1. n \div 2 # k  BY <1>4
  <2>2. p = <<0, 0>>  BY <2>1
  <2>3. p \in Complex  BY <2>2, ZeroComplex
  <2> QED  BY <1>1, <1>4, <2>2, <2>3
<1> QED  BY <1>2, <1>3, <1>4

\* The shares add up to the two samples of that place.
LEMMA PlacedSum ==
  ASSUME NEW c \in Calls, c.family = "fft", NEW s \in Int, NEW k \in Nat
  PROVE  /\ CSum(Len(c.at), Placed(c, s, k))
              = <<Fld(s * SampleOf(c, 2 * k)), Fld(s * SampleOf(c, 2 * k + 1))>>
         /\ \A j \in 0 .. Len(c.at) - 1 : Placed(c, s, k)[j] \in Complex
<1> DEFINE N == Len(c.at)
           f == Placed(c, s, k)
           t1 == [j \in Nat |-> IF c.at[j + 1] = 2 * k THEN c.amp[j + 1] ELSE 0]
           t2 == [j \in Nat |-> IF c.at[j + 1] = 2 * k + 1 THEN c.amp[j + 1] ELSE 0]
           u1 == [j \in Nat |-> f[j][1]]
           u2 == [j \in Nat |-> f[j][2]]
<1>0. N \in Nat /\ N \in 0 .. N
  <2>1. N \in Nat  BY CallSources
  <2> HIDE DEF N
  <2> QED  BY <2>1
<1>1. ASSUME NEW j \in 0 .. N - 1
      PROVE  /\ t1[j] \in Int /\ u1[j] = Fld(s * t1[j])
             /\ t2[j] \in Int /\ u2[j] = Fld(s * t2[j])
             /\ f[j] \in Complex
  <2> DEFINE n == c.at[j + 1]
             a == c.amp[j + 1]
             p == f[j]
  <2>1. j \in Nat /\ n \in 0 .. 1023 /\ a \in Int  BY CallSources
  <2>2. p = IF n \div 2 = k THEN Ray(s * a, 768 * (n % 2)) ELSE <<0, 0>>  BY <2>1 DEF Placed
  <2>3. t1[j] = (IF n = 2 * k THEN a ELSE 0) /\ t2[j] = (IF n = 2 * k + 1 THEN a ELSE 0)
        /\ u1[j] = p[1] /\ u2[j] = p[2]
    BY <2>1
  <2> HIDE DEF n, a, p, f, t1, t2, u1, u2
  <2>4. /\ p \in Complex
        /\ p[1] = Fld(s * (IF n = 2 * k THEN a ELSE 0))
        /\ p[2] = Fld(s * (IF n = 2 * k + 1 THEN a ELSE 0))
    <3>1. PlacedAs(p, n, a, s, k)  BY <2>2 DEF PlacedAs
    <3>2. PlacedValues(p, n, a, s, k)  BY <2>1, <3>1, PlacedParts, ZenonT(40)
    <3> QED  BY <3>2 DEF PlacedValues
  <2>5. t1[j] \in Int /\ t2[j] \in Int  BY <2>1, <2>3
  <2> QED  BY <2>3, <2>4, <2>5 DEF p
<1>2. CSum(N, f) = <<Fld(SumTo(N, u1)), Fld(SumTo(N, u2))>>
      /\ SampleOf(c, 2 * k) = Fld(SumTo(N, t1)) /\ SampleOf(c, 2 * k + 1) = Fld(SumTo(N, t2))
  BY DEF CSum, SampleOf
<1> HIDE DEF N, f, t1, t2, u1, u2
<1>3. Fld(SumTo(N, u1)) = Fld(s * SumTo(N, t1))
  <2>1. \A j \in 0 .. N - 1 : t1[j] \in Int /\ u1[j] = Fld(s * t1[j])  BY <1>1
  <2> QED  BY <1>0, <2>1, FldOfSum
<1>4. Fld(SumTo(N, u2)) = Fld(s * SumTo(N, t2))
  <2>1. \A j \in 0 .. N - 1 : t2[j] \in Int /\ u2[j] = Fld(s * t2[j])  BY <1>1
  <2> QED  BY <1>0, <2>1, FldOfSum
<1> DEFINE x == SumTo(N, t1)
           y == SumTo(N, t2)
<1>5. x \in Int /\ y \in Int
  <2>1. \A j \in 0 .. N - 1 : t1[j] \in Int  BY <1>1
  <2>2. \A j \in 0 .. N - 1 : t2[j] \in Int  BY <1>1
  <2> QED  BY <1>0, <2>1, <2>2, SumToInt
<1> HIDE DEF x, y
<1>6. Fld(s * Fld(x)) = Fld(s * x) /\ Fld(s * Fld(y)) = Fld(s * y)
  <2>1. Fld(s * Fld(x) + 0 * Fld(y)) = Fld(s * x + 0 * y)
        /\ Fld(s * Fld(y) + 0 * Fld(x)) = Fld(s * y + 0 * x)
    BY <1>5, FldCombined
  <2>2. Fld(x) \in Int /\ Fld(y) \in Int  BY <1>5, FldParts
  <2>3. s * Fld(x) + 0 * Fld(y) = s * Fld(x) /\ s * x + 0 * y = s * x
        /\ s * Fld(y) + 0 * Fld(x) = s * Fld(y) /\ s * y + 0 * x = s * y
    BY <1>5, <2>2
  <2> QED  BY <2>1, <2>3
<1> QED  BY <1>1, <1>2, <1>3, <1>4, <1>6 DEF N, f, x, y

-----------------------------------------------------------------------------
(* The passes over the packed halves: real_pre_inverse and real_post_forward *)

\* With v the conjugate of the mirrored element.
Before(a, v, w) == CConj(CSub(CAdd(a, v), MinusI(CMul(CSub(a, v), w))))
After(a, v, w) ==
  CAdd(CMul(CAdd(a, v), <<HalfOf, 0>>), MinusI(CMul(CMul(CSub(a, v), <<HalfOf, 0>>), w)))

\* The factor 0.5 of the post pass.
LEMMA HalfComplex == <<HalfOf, 0>> \in Complex
<1>1. 4096 \in Scalars /\ 0 \in Scalars  BY DEF Scalars, FieldP
<1> QED  BY <1>1 DEF Complex, HalfOf

\* The pre pass and the post pass yield complex numbers.
LEMMA PassComplex ==
  ASSUME NEW a \in Complex, NEW v \in Complex, NEW w \in Complex
  PROVE  Before(a, v, w) \in Complex /\ After(a, v, w) \in Complex
<1> DEFINE d == CSub(a, v)
           s == CAdd(a, v)
           h == <<HalfOf, 0>>
<1>1. d \in Complex /\ s \in Complex /\ h \in Complex  BY ComplexClosed, HalfComplex
<1>2. Before(a, v, w) = CConj(CSub(s, MinusI(CMul(d, w))))
      /\ After(a, v, w) = CAdd(CMul(s, h), MinusI(CMul(CMul(d, h), w)))
  BY DEF Before, After
<1> HIDE DEF d, s, h
<1>3. CMul(d, w) \in Complex /\ CMul(s, h) \in Complex /\ CMul(d, h) \in Complex  BY <1>1, ComplexClosed
<1>4. CMul(CMul(d, h), w) \in Complex  BY <1>3, ComplexClosed
<1>5. MinusI(CMul(d, w)) \in Complex /\ MinusI(CMul(CMul(d, h), w)) \in Complex
  BY <1>3, <1>4, ComplexClosed
<1>6. CSub(s, MinusI(CMul(d, w))) \in Complex  BY <1>1, <1>5, ComplexClosed
<1>7. CConj(CSub(s, MinusI(CMul(d, w)))) \in Complex  BY <1>6, ComplexClosed
<1>8. CAdd(CMul(s, h), MinusI(CMul(CMul(d, h), w))) \in Complex  BY <1>3, <1>5, ComplexClosed
<1> QED  BY <1>2, <1>7, <1>8

\* What the passes make of two equal rays, and of two opposite ones.
BeforeOn(c, e, t, d, l) ==
  /\ Before(Ray(c, e), Ray(c, e), Turn(t)) = Ray(d, -e)
  /\ Before(Ray(c, e), Ray(-c, e), Turn(t)) = Ray(d, -(l + 768))

\* The pre pass of two rays that are equal, or opposite.
LEMMA BeforeRays ==
  ASSUME NEW c \in Int, NEW e \in Int, NEW t \in Int, NEW d \in Int, d = c + c,
         NEW l \in Int, l = e + t
  PROVE  BeforeOn(c, e, t, d, l)
<1> DEFINE b == -c
           z == Ray(d, l + 256)
<1>1. b \in Int /\ c + b = 0 /\ c - b = d /\ c - c = 0 /\ b = -c /\ 0 \in Int /\ e + t = l
      /\ l + 256 \in Int /\ l + 768 \in Int /\ (l + 256) + 512 = l + 768
  OBVIOUS
<1> HIDE DEF b
<1>2. Turn(t) \in Complex /\ Ray(d, e) \in Complex
  <2>1. Turn(t) \in Complex  BY TurnSteps
  <2>2. Ray(d, e) \in Complex  BY RayParts
  <2> QED  BY <2>1, <2>2
<1>3. CAdd(Ray(c, e), Ray(c, e)) = Ray(d, e) /\ CSub(Ray(c, e), Ray(c, e)) = <<0, 0>>
  <2>1. CAdd(Ray(c, e), Ray(c, e)) = Ray(c + c, e) /\ CSub(Ray(c, e), Ray(c, e)) = Ray(c - c, e)
    BY RayAdd
  <2> QED  BY <1>1, <2>1, RayZero
<1>4. CAdd(Ray(c, e), Ray(b, e)) = <<0, 0>> /\ CSub(Ray(c, e), Ray(b, e)) = Ray(d, e)
  <2>1. CAdd(Ray(c, e), Ray(b, e)) = Ray(c + b, e) /\ CSub(Ray(c, e), Ray(b, e)) = Ray(c - b, e)
    BY <1>1, RayAdd
  <2> QED  BY <1>1, <2>1, RayZero
<1>5. MinusI(CMul(<<0, 0>>, Turn(t))) = <<0, 0>>
  <2>1. CMul(<<0, 0>>, Turn(t)) = <<0, 0>>  BY <1>2, ZeroComplex
  <2>2. MinusI(<<0, 0>>) = <<0, Fld(-0)>>  BY DEF MinusI
  <2>3. Fld(-0) = 0  BY DEF Fld, FieldP
  <2> QED  BY <2>1, <2>2, <2>3
<1>6. MinusI(CMul(Ray(d, e), Turn(t))) = z
  <2>1. CMul(Ray(d, e), Turn(t)) = Ray(d, l)
    <3>1. CMul(Ray(d, e), Turn(t)) = Ray(d, e + t)  BY RayTurn
    <3> QED  BY <1>1, <3>1
  <2>2. MinusI(Ray(d, l)) = Ray(d, l + 256)  BY RayQuarter
  <2> QED  BY <2>1, <2>2
<1>7. Before(Ray(c, e), Ray(c, e), Turn(t)) = Ray(d, -e)
  <2>1. CSub(Ray(d, e), <<0, 0>>) = Ray(d, e)  BY <1>2, ZeroComplex
  <2>2. CConj(Ray(d, e)) = Ray(d, -e)  BY RayConj
  <2> QED  BY <1>3, <1>5, <2>1, <2>2 DEF Before
<1>8. Before(Ray(c, e), Ray(b, e), Turn(t)) = Ray(d, -(l + 768))
  <2> DEFINE p == l + 256
             q == l + 768
  <2>1. p \in Int /\ q \in Int /\ p + 512 = q /\ z = Ray(d, p)  BY <1>1
  <2> HIDE DEF p, q, z
  <2>2. CSub(<<0, 0>>, Ray(d, p)) = Ray(d, q)
    <3>1. CSub(<<0, 0>>, Ray(d, p)) = Ray(d, p + 512)  BY <2>1, RayMinus
    <3> QED  BY <2>1, <3>1
  <2>3. CConj(Ray(d, q)) = Ray(d, -q)  BY <2>1, RayConj
  <2>4. Before(Ray(c, e), Ray(b, e), Turn(t)) = Ray(d, -q)
    BY <1>4, <1>6, <2>1, <2>2, <2>3 DEF Before
  <2> QED  BY <2>4 DEF q
<1> QED  BY <1>1, <1>7, <1>8 DEF BeforeOn

\* The post pass of two rays that are equal, or opposite.
LEMMA AfterRays ==
  ASSUME NEW c \in Int, NEW e \in Int, NEW t \in Int, NEW l \in Int, l = e + t
  PROVE  /\ After(Ray(c, e), Ray(c, e), Turn(t)) = Ray(c, e)
         /\ After(Ray(c, e), Ray(-c, e), Turn(t)) = Ray(c, l + 256)
<1> DEFINE b == -c
           d == 2 * c
           h == <<HalfOf, 0>>
<1>1. b \in Int /\ c + b = 0 /\ c - b = d /\ c + c = d /\ c - c = 0 /\ b = -c /\ 0 \in Int /\ e + t = l
      /\ l + 256 \in Int /\ d \in Int
  OBVIOUS
<1>2. Turn(t) \in Complex /\ Ray(c, e) \in Complex /\ h \in Complex /\ Ray(c, l + 256) \in Complex
  <2>1. Ray(c, l + 256) \in Complex
    <3> DEFINE p == l + 256
    <3>1. p \in Int  BY <1>1
    <3> HIDE DEF p
    <3>2. Ray(c, p) \in Complex  BY <3>1, RayParts
    <3> QED  BY <3>2 DEF p
  <2>2. Turn(t) \in Complex  BY TurnSteps
  <2>3. Ray(c, e) \in Complex  BY RayParts
  <2> QED  BY <2>1, <2>2, <2>3, HalfComplex
<1>3. CMul(Ray(d, e), h) = Ray(c, e)  BY RayHalved
<1> HIDE DEF b, d
<1>4. CAdd(Ray(c, e), Ray(c, e)) = Ray(d, e) /\ CSub(Ray(c, e), Ray(c, e)) = <<0, 0>>
  <2>1. CAdd(Ray(c, e), Ray(c, e)) = Ray(c + c, e) /\ CSub(Ray(c, e), Ray(c, e)) = Ray(c - c, e)
    BY RayAdd
  <2> QED  BY <1>1, <2>1, RayZero
<1>5. CAdd(Ray(c, e), Ray(b, e)) = <<0, 0>> /\ CSub(Ray(c, e), Ray(b, e)) = Ray(d, e)
  <2>1. CAdd(Ray(c, e), Ray(b, e)) = Ray(c + b, e) /\ CSub(Ray(c, e), Ray(b, e)) = Ray(c - b, e)
    BY <1>1, RayAdd
  <2> QED  BY <1>1, <2>1, RayZero
<1> HIDE DEF h
<1>6. CMul(<<0, 0>>, h) = <<0, 0>> /\ MinusI(CMul(<<0, 0>>, Turn(t))) = <<0, 0>>
  <2>1. CMul(<<0, 0>>, Turn(t)) = <<0, 0>> /\ CMul(<<0, 0>>, h) = <<0, 0>>  BY <1>2, ZeroComplex
  <2>2. MinusI(<<0, 0>>) = <<0, Fld(-0)>>  BY DEF MinusI
  <2>3. Fld(-0) = 0  BY DEF Fld, FieldP
  <2> QED  BY <2>1, <2>2, <2>3
<1>7. MinusI(CMul(Ray(c, e), Turn(t))) = Ray(c, l + 256)
  <2>1. CMul(Ray(c, e), Turn(t)) = Ray(c, l)
    <3>1. CMul(Ray(c, e), Turn(t)) = Ray(c, e + t)  BY RayTurn
    <3> QED  BY <1>1, <3>1
  <2>2. MinusI(Ray(c, l)) = Ray(c, l + 256)  BY RayQuarter
  <2> QED  BY <2>1, <2>2
<1>8. \A a, v : After(a, v, Turn(t)) = CAdd(CMul(CAdd(a, v), h), MinusI(CMul(CMul(CSub(a, v), h), Turn(t))))
  BY DEF After, h
<1>9. After(Ray(c, e), Ray(c, e), Turn(t)) = Ray(c, e)
  <2>1. CAdd(Ray(c, e), <<0, 0>>) = Ray(c, e)  BY <1>2, ZeroComplex
  <2> QED  BY <1>3, <1>4, <1>6, <1>8, <2>1
<1>10. After(Ray(c, e), Ray(b, e), Turn(t)) = Ray(c, l + 256)
  <2>1. CAdd(<<0, 0>>, Ray(c, l + 256)) = Ray(c, l + 256)  BY <1>2, ZeroComplex
  <2> QED  BY <1>3, <1>5, <1>6, <1>7, <1>8, <2>1
<1> QED  BY <1>1, <1>9, <1>10

\* The passes are additive.
PassParts(f, g, b, a, w, m) ==
  \A j \in 0 .. m - 1 : f[j] \in Complex /\ g[j] \in Complex
                        /\ b[j] = Before(f[j], g[j], w) /\ a[j] = After(f[j], g[j], w)

\* Both passes of sums are the sums of the passes.
LEMMA PassSum ==
  ASSUME NEW f, NEW g, NEW b, NEW a, NEW w \in Complex, NEW m \in Nat, PassParts(f, g, b, a, w, m)
  PROVE  /\ Before(CSum(m, f), CSum(m, g), w) = CSum(m, b)
         /\ After(CSum(m, f), CSum(m, g), w) = CSum(m, a)
<1> DEFINE h == <<HalfOf, 0>>
           q == Turn(256)
           s == [j \in Nat |-> CAdd(f[j], g[j])]
           d == [j \in Nat |-> CSub(f[j], g[j])]
           dw == [j \in Nat |-> CMul(d[j], w)]
           ti == [j \in Nat |-> CMul(dw[j], q)]
           z == [j \in Nat |-> CSub(s[j], ti[j])]
           sh == [j \in Nat |-> CMul(s[j], h)]
           dh == [j \in Nat |-> CMul(d[j], h)]
           hw == [j \in Nat |-> CMul(dh[j], w)]
           hi == [j \in Nat |-> CMul(hw[j], q)]
<1>1. h \in Complex /\ q \in Complex
  <2>1. 256 \in Int  OBVIOUS
  <2>2. Turn(256) \in Complex  BY <2>1, TurnSteps
  <2> QED  BY <2>2, HalfComplex
<1>2. \A j \in 0 .. m - 1 :
        /\ s[j] = CAdd(f[j], g[j]) /\ d[j] = CSub(f[j], g[j]) /\ dw[j] = CMul(d[j], w)
        /\ ti[j] = CMul(dw[j], q) /\ z[j] = CSub(s[j], ti[j])
        /\ sh[j] = CMul(s[j], h) /\ dh[j] = CMul(d[j], h) /\ hw[j] = CMul(dh[j], w)
        /\ hi[j] = CMul(hw[j], q)
  <2>1. \A j \in 0 .. m - 1 : j \in Nat  OBVIOUS
  <2> QED  BY <2>1
<1>3. \A p \in Complex : MinusI(p) = CMul(p, q)  BY QuarterTurn
<1>4. \A u, v : /\ Before(u, v, w) = CConj(CSub(CAdd(u, v), MinusI(CMul(CSub(u, v), w))))
                /\ After(u, v, w) = CAdd(CMul(CAdd(u, v), h), MinusI(CMul(CMul(CSub(u, v), h), w)))
  BY DEF Before, After
<1> HIDE DEF h, q, s, d, dw, ti, z, sh, dh, hw, hi
<1>5. \A j \in 0 .. m - 1 : /\ f[j] \in Complex /\ g[j] \in Complex
                            /\ b[j] = Before(f[j], g[j], w) /\ a[j] = After(f[j], g[j], w)
  BY DEF PassParts
<1>6. \A j \in 0 .. m - 1 : s[j] \in Complex /\ d[j] \in Complex  BY <1>2, <1>5, ComplexClosed
<1>7. \A j \in 0 .. m - 1 : dw[j] \in Complex /\ sh[j] \in Complex /\ dh[j] \in Complex
  BY <1>1, <1>2, <1>6, ComplexClosed
<1>8. \A j \in 0 .. m - 1 : ti[j] \in Complex /\ hw[j] \in Complex
  BY <1>1, <1>2, <1>7, ComplexClosed
<1>9. \A j \in 0 .. m - 1 : z[j] \in Complex /\ hi[j] \in Complex
  BY <1>1, <1>2, <1>6, <1>8, ComplexClosed
<1>10. \A j \in 0 .. m - 1 : b[j] = CConj(z[j]) /\ a[j] = CAdd(sh[j], hi[j])
  <2> SUFFICES ASSUME NEW j \in 0 .. m - 1 PROVE b[j] = CConj(z[j]) /\ a[j] = CAdd(sh[j], hi[j])
    OBVIOUS
  <2>1. MinusI(dw[j]) = ti[j] /\ MinusI(hw[j]) = hi[j]  BY <1>2, <1>3, <1>7, <1>8
  <2>2. b[j] = CConj(CSub(s[j], MinusI(dw[j])))  BY <1>2, <1>4, <1>5
  <2>3. a[j] = CAdd(sh[j], MinusI(hw[j]))  BY <1>2, <1>4, <1>5
  <2> QED  BY <1>2, <2>1, <2>2, <2>3
<1>11. CAdd(CSum(m, f), CSum(m, g)) = CSum(m, s)  BY <1>2, <1>5, <1>6, CSumAdd
<1>12. CSub(CSum(m, f), CSum(m, g)) = CSum(m, d)  BY <1>2, <1>5, <1>6, CSumSub
<1>13. CMul(CSum(m, d), w) = CSum(m, dw)  BY <1>2, <1>6, CSumMul
<1>14. CMul(CSum(m, dw), q) = CSum(m, ti)  BY <1>1, <1>2, <1>7, CSumMul, ZenonT(40)
<1>15. CSub(CSum(m, s), CSum(m, ti)) = CSum(m, z)  BY <1>2, <1>6, <1>8, <1>9, CSumSub
<1>16. CConj(CSum(m, z)) = CSum(m, b)  BY <1>9, <1>10, CSumConj
<1>17. CMul(CSum(m, s), h) = CSum(m, sh) /\ CMul(CSum(m, d), h) = CSum(m, dh)
  BY <1>1, <1>2, <1>6, CSumMul, ZenonT(40)
<1>18. CMul(CSum(m, dh), w) = CSum(m, hw)  BY <1>2, <1>7, CSumMul
<1>19. CMul(CSum(m, hw), q) = CSum(m, hi)  BY <1>1, <1>2, <1>8, CSumMul
<1>20. CAdd(CSum(m, sh), CSum(m, hi)) = CSum(m, a)
  <2>1. \A j \in 0 .. m - 1 : sh[j] \in Complex /\ hi[j] \in Complex /\ a[j] = CAdd(sh[j], hi[j])
    BY <1>7, <1>9, <1>10
  <2> QED  BY <2>1, CSumAdd
<1>21. CSum(m, dw) \in Complex /\ CSum(m, hw) \in Complex  BY <1>7, <1>8, CSumComplex
<1>22. MinusI(CSum(m, dw)) = CSum(m, ti) /\ MinusI(CSum(m, hw)) = CSum(m, hi)
  BY <1>3, <1>14, <1>19, <1>21
<1> QED  BY <1>4, <1>11, <1>12, <1>13, <1>15, <1>16, <1>17, <1>18, <1>20, <1>22

-----------------------------------------------------------------------------
(* What the passes make of one impulse, then of all of them *)

BeforeIs(n, a, k) ==
  Before(Ray(a, n * k), CConj(Ray(a, n * (512 - k))), Turn(-k)) = Comb(n, a, 1, k)

\* The pre pass takes an impulse's rays in two mirrored bins to its share in the
\* first buffer of the inverse transform.
LEMMA BeforeSource ==
  ASSUME NEW n \in 0 .. 1023, NEW a \in Int, NEW k \in 0 .. 511
  PROVE  BeforeIs(n, a, k)
<1> DEFINE m == n \div 2
           r == n % 2
           p == m * k
           e == n * k
           f == n * (512 - k)
           t == -k
           l == e + t
           d == a + a
           g == -(768 * r) - 2 * p
<1>1. m \in Int /\ n = 2 * m + r /\ r \in 0 .. 1  OBVIOUS
<1>2. p \in Int /\ e = 2 * p + r * k /\ f = 512 * n - e /\ e \in Int
  <2> HIDE DEF m, r
  <2>1. m * k \in Int /\ n * k = (2 * m + r) * k /\ n \in Int /\ k \in Int  BY <1>1
  <2>2. (2 * m + r) * k = 2 * (m * k) + r * k  BY <1>1
  <2>3. n * (512 - k) = 512 * n - n * k /\ n * k \in Int  BY <2>1
  <2> QED  BY <2>1, <2>2, <2>3
<1>3. f \in Int /\ t \in Int /\ l \in Int /\ d \in Int /\ g \in Int
  <2> HIDE DEF m, r, p, e
  <2>1. f \in Int  BY <1>2
  <2> QED  BY <1>1, <1>2, <2>1
<1>4. Comb(n, a, 1, k) = Ray(d, g)
  <2>1. m % 1 = k % 1 /\ k \div 1 = k /\ 2 * (a * 1) = d  BY <1>1
  <2> QED  BY <2>1 DEF Comb
<1>5. CConj(Ray(a, f)) = Ray(a, -f)
  <2> HIDE DEF f
  <2> QED  BY <1>3, RayConj
<1>6. r = 0 \/ r = 1  BY <1>1
<1>7. d = a + a /\ l = e + t  OBVIOUS
<1>8. CASE r = 0
  <2>1. e = 2 * p /\ g = -e /\ f = 1024 * m - e
    <3> HIDE DEF m, r, p, e, f, g
    <3>1. e = 2 * p /\ f = 1024 * m - e  BY <1>1, <1>2, <1>8
    <3>2. g = -(768 * 0) - 2 * p  BY <1>8 DEF g
    <3> QED  BY <1>2, <3>1, <3>2
  <2> HIDE DEF m, r, p, e, f, g, t, l, d
  <2>2. -f \in Int /\ (-f) % 1024 = e % 1024
    <3>1. -f = e - 1024 * m  BY <1>1, <1>2, <2>1
    <3> QED  BY <1>1, <1>2, <3>1
  <2>3. Ray(a, -f) = Ray(a, e)
    <3> DEFINE u == -f
    <3>1. u \in Int /\ u % 1024 = e % 1024  BY <2>2
    <3> HIDE DEF u
    <3>2. Ray(a, u) = Ray(a, e)  BY <1>2, <3>1, RayPeriod
    <3> QED  BY <3>2 DEF u
  <2>5. BeforeOn(a, e, t, d, l)  BY <1>2, <1>3, <1>7, BeforeRays
  <2>4. Before(Ray(a, e), Ray(a, e), Turn(t)) = Ray(d, -e)  BY <2>5 DEF BeforeOn
  <2> QED  BY <1>4, <1>5, <2>1, <2>3, <2>4 DEF BeforeIs, e, f, t
<1>9. CASE r = 1
  <2>1. g = -(l + 768) /\ f = 1024 * m + 512 - e
    <3> HIDE DEF m, r, p, e, f, g
    <3>1. e = 2 * p + k /\ f = 1024 * m + 512 - e  BY <1>1, <1>2, <1>9
    <3>2. g = -768 - 2 * p  BY <1>2, <1>9 DEF g
    <3>3. l = 2 * p  BY <1>2, <3>1
    <3> QED  BY <1>2, <3>1, <3>2, <3>3
  <2> HIDE DEF m, r, p, e, f, g, t, l, d
  <2>2. -f \in Int /\ (-f) % 1024 = (e + 512) % 1024
    <3>1. PICK q \in Int : q = m + 1  BY <1>1
    <3>2. PICK z \in Int : z = e + 512  BY <1>2
    <3>3. -f = z - 1024 * q  BY <1>1, <1>2, <2>1, <3>1, <3>2
    <3>4. (-f) % 1024 = z % 1024  BY <3>3
    <3>5. -f \in Int  BY <1>3
    <3> QED  BY <3>2, <3>4, <3>5
  <2>3. Ray(a, -f) = Ray(-a, e)
    <3> DEFINE u == -f
               v == e + 512
    <3>1. u \in Int /\ v \in Int /\ u % 1024 = v % 1024  BY <1>2, <2>2
    <3>3. Ray(a, e + 512) = Ray(-a, e)  BY <1>2, RayHalf
    <3> HIDE DEF u, v
    <3>2. Ray(a, u) = Ray(a, v)  BY <3>1, RayPeriod
    <3> QED  BY <3>2, <3>3 DEF u, v
  <2>4. Before(Ray(a, e), Ray(-a, e), Turn(t)) = Ray(d, -(l + 768))
    <3>1. a \in Int /\ e \in Int /\ t \in Int /\ d \in Int /\ d = a + a /\ l \in Int /\ l = e + t
      BY <1>2, <1>3, <1>7
    <3>2. BeforeOn(a, e, t, d, l)  BY <3>1, BeforeRays
    <3> QED  BY <3>2 DEF BeforeOn
  <2> QED  BY <1>4, <1>5, <2>1, <2>3, <2>4 DEF BeforeIs, e, f, t
<1> QED  BY <1>6, <1>8, <1>9

\* Element e of the packed half belongs to bin k, and f is its mirror image.
Mirror(k, e, f) ==
  \/ (k = 0 \/ k = 512) /\ e = 0 /\ f = 0
  \/ k \in 1 .. 511 /\ e = k /\ f = 512 - k
AfterIs(n, a, k, e, f) ==
  After(Spike(n, a, 512, e), CConj(Spike(n, a, 512, f)), Turn(k)) = Ray(a, n * k)
\* x is y but for whole turns.
WholeTurns(x, y, i) == x = y + 1024 * i

\* The post pass takes its shares in two mirrored places of the last buffer to
\* its ray in the bin.
LEMMA AfterSource ==
  ASSUME NEW n \in 0 .. 1023, NEW a \in Int, NEW k \in 0 .. 512, NEW e \in 0 .. 511, NEW f \in 0 .. 511,
         Mirror(k, e, f)
  PROVE  AfterIs(n, a, k, e, f)
<1> DEFINE m == n \div 2
           r == n % 2
           x == 768 * r
           p == m * k
           y == x + 2 * p
           u == x + (m * e) * 2
           v == x + (m * f) * 2
           l == y + k
           g == n * k
<1>1. m \in 0 .. 511 /\ n = 2 * m + r /\ r \in 0 .. 1 /\ x \in Int  OBVIOUS
<1>2. p \in Int /\ g = 2 * p + r * k /\ g \in Int /\ y \in Int /\ l \in Int /\ u \in Int /\ v \in Int
  <2> HIDE DEF m, r, x
  <2>1. m * k \in Int /\ n * k = (2 * m + r) * k /\ n \in Int /\ k \in Int
        /\ m * e \in Int /\ m * f \in Int
    BY <1>1
  <2>2. (2 * m + r) * k = 2 * (m * k) + r * k  BY <1>1
  <2>3. n * k \in Int  BY <2>1
  <2> QED  BY <1>1, <2>1, <2>2, <2>3
<1>3. Spike(n, a, 512, e) = Ray(a, u) /\ Spike(n, a, 512, f) = Ray(a, v)
  <2>1. 512 \div 512 = 1 /\ 1024 \div 512 = 2 /\ e \div 512 = 0 /\ e % 512 = e
        /\ f \div 512 = 0 /\ f % 512 = f /\ m % 1 = 0 /\ m \div 1 = m
    BY <1>1
  <2> QED  BY <2>1 DEF Spike
<1> DEFINE w0 == x - 2 * p
<1>4. \E i, j \in Int : WholeTurns(u, y, i) /\ WholeTurns(v, w0, j)
  <2> HIDE DEF m, r, x, p
  <2>1. CASE k = 0 /\ e = 0 /\ f = 0
    <3>1. p = 0 /\ m * e = 0 /\ m * f = 0  BY <1>1, <2>1 DEF p
    <3>2. u = y + 1024 * 0 /\ v = x - 2 * p + 1024 * 0  BY <1>1, <3>1
    <3>3. 0 \in Int /\ 0 \in Int  BY <1>1
    <3>4. WholeTurns(u, y, 0) /\ WholeTurns(v, w0, 0)  BY <3>2 DEF WholeTurns
    <3> HIDE DEF u, v, y, w0
    <3> QED  BY <3>3, <3>4, Zenon
  <2>2. CASE k = 512 /\ e = 0 /\ f = 0
    <3>1. p = 512 * m /\ m * e = 0 /\ m * f = 0  BY <1>1, <2>2 DEF p
    <3>2. u = y + 1024 * (-m) /\ v = x - 2 * p + 1024 * m /\ -m \in Int /\ m \in Int  BY <1>1, <3>1
    <3>3. -m \in Int /\ m \in Int  BY <1>1
    <3>4. WholeTurns(u, y, -m) /\ WholeTurns(v, w0, m)  BY <3>2 DEF WholeTurns
    <3> HIDE DEF u, v, y, w0
    <3> QED  BY <3>3, <3>4, Zenon
  <2>3. CASE k \in 1 .. 511 /\ e = k /\ f = 512 - k
    <3>1. m * e = p /\ m * f = 512 * m - p  BY <1>1, <2>3 DEF p
    <3>2. u = y + 1024 * 0 /\ v = x - 2 * p + 1024 * m /\ m \in Int  BY <1>1, <1>2, <3>1
    <3>3. 0 \in Int /\ m \in Int  BY <1>1
    <3>4. WholeTurns(u, y, 0) /\ WholeTurns(v, w0, m)  BY <3>2 DEF WholeTurns
    <3> HIDE DEF u, v, y, w0
    <3> QED  BY <3>3, <3>4, Zenon
  <2> QED  BY <2>1, <2>2, <2>3 DEF Mirror
<1>11. PICK i \in Int, j \in Int : WholeTurns(u, y, i) /\ WholeTurns(v, w0, j)
  <2> HIDE DEF u, v, y, w0
  <2> QED  BY <1>4
<1>5. u = y + 1024 * i /\ v = x - 2 * p + 1024 * j  BY <1>11 DEF WholeTurns
<1> DEFINE w == -v
           z == y + 512
<1>6. w \in Int /\ z \in Int  BY <1>2
<1>7. CConj(Ray(a, v)) = Ray(a, w)
  <2> HIDE DEF v
  <2> QED  BY <1>2, RayConj
<1> HIDE DEF g
<1>8. Ray(a, u) = Ray(a, y)
  <2> HIDE DEF u, y
  <2>1. u % 1024 = y % 1024  BY <1>2, <1>5
  <2> QED  BY <1>2, <2>1, RayPeriod
<1>9. CASE r = 0
  <2>1. w % 1024 = y % 1024 /\ g = y
    <3>1. x = 0 /\ y = 2 * p /\ g = 2 * p
      <4>1. x = 0  BY <1>9
      <4> HIDE DEF x, r, p
      <4> QED  BY <1>2, <1>9, <4>1
    <3>2. w = 2 * p - 1024 * j
      <4> HIDE DEF x, p, v
      <4> QED  BY <1>2, <1>5, <3>1
    <3> HIDE DEF w, y, x, p
    <3> QED  BY <1>2, <3>1, <3>2
  <2> HIDE DEF w, y
  <2>2. Ray(a, w) = Ray(a, y)  BY <1>2, <1>6, <2>1, RayPeriod
  <2>3. PICK q \in Int : q = y + k  BY <1>2
  <2>4. After(Ray(a, y), Ray(a, y), Turn(k)) = Ray(a, y)
    <3>1. k \in Int  OBVIOUS
    <3> QED  BY <1>2, <2>3, <3>1, AfterRays
  <2> QED  BY <1>3, <1>7, <1>8, <2>1, <2>2, <2>4 DEF AfterIs, g
<1>10. CASE r = 1
  <2>1. w % 1024 = z % 1024 /\ (l + 256) % 1024 = g % 1024 /\ l + 256 \in Int
    <3>1. x = 768 /\ y = 768 + 2 * p /\ g = 2 * p + k
      <4>1. x = 768  BY <1>10
      <4> HIDE DEF x, r, p
      <4> QED  BY <1>2, <1>10, <4>1
    <3>2. w = 2 * p - 768 - 1024 * j /\ z = 2 * p + 1280 /\ l + 256 = 2 * p + k + 1024
      <4> HIDE DEF x, p, v
      <4> QED  BY <1>2, <1>5, <3>1
    <3> HIDE DEF w, y, x, p, z, l
    <3>3. l + 256 = g + 1024  BY <1>2, <3>1, <3>2
    <3>4. w = z - 2048 - 1024 * j  BY <1>2, <3>2
    <3> QED  BY <1>2, <1>6, <3>3, <3>4
  <2>2. Ray(a, w) = Ray(-a, y)
    <3>1. Ray(a, y + 512) = Ray(-a, y)
      <4> HIDE DEF y
      <4> QED  BY <1>2, RayHalf
    <3>2. Ray(a, w) = Ray(a, z)
      <4> HIDE DEF w, z
      <4> QED  BY <1>6, <2>1, RayPeriod
    <3> QED  BY <3>1, <3>2
  <2> HIDE DEF y, l
  <2>4. After(Ray(a, y), Ray(-a, y), Turn(k)) = Ray(a, l + 256)
    <3>1. k \in Int /\ l = y + k  BY DEF l
    <3> QED  BY <1>2, <3>1, AfterRays
  <2>5. Ray(a, l + 256) = Ray(a, g)
    <3> DEFINE q == l + 256
    <3>1. q \in Int /\ q % 1024 = g % 1024  BY <2>1
    <3> HIDE DEF q
    <3>2. Ray(a, q) = Ray(a, g)  BY <1>2, <3>1, RayPeriod
    <3> QED  BY <3>2 DEF q
  <2> QED  BY <1>3, <1>7, <1>8, <2>2, <2>4, <2>5 DEF AfterIs, g
<1> QED  BY <1>1, <1>9, <1>10

-----------------------------------------------------------------------------
(* The passes on a call's sums *)

\* The impulse j, of amplitude a at n, in each of the sums.
PartsAre(c, j, n, a) ==
  /\ \A L, e : Parts(c, L, e)[j] = IF c.op = "forward" THEN Spike(n, a, L, e) ELSE Comb(n, a, L, e)
  /\ \A k : Bins(c, k)[j] = Ray(a, n * k)
  /\ \A s, k : Placed(c, s, k)[j] = IF n \div 2 = k THEN Ray(s * a, 768 * (n % 2)) ELSE <<0, 0>>

\* The impulse behind term j of every sum.
LEMMA PartsOf ==
  ASSUME NEW c \in Calls, c.family = "fft", NEW j \in 0 .. Len(c.at) - 1
  PROVE  \E n \in 0 .. 1023, a \in Int : PartsAre(c, j, n, a)
<1> DEFINE n == c.at[j + 1]
           a == c.amp[j + 1]
<1>1. j \in Nat /\ n \in 0 .. 1023 /\ a \in Int  BY CallSources
<1>2. \A L, e : Parts(c, L, e)[j] = IF c.op = "forward" THEN Spike(n, a, L, e) ELSE Comb(n, a, L, e)
  BY <1>1 DEF Parts
<1>3. \A k : Bins(c, k)[j] = Ray(a, n * k)  BY <1>1 DEF Bins
<1>4. \A s, k : Placed(c, s, k)[j] = IF n \div 2 = k THEN Ray(s * a, 768 * (n % 2)) ELSE <<0, 0>>
  BY <1>1 DEF Placed
<1>5. PartsAre(c, j, n, a)  BY <1>2, <1>3, <1>4 DEF PartsAre
<1> HIDE DEF n, a
<1> QED  BY <1>1, <1>5, ZenonT(40)

\* The pre pass takes the bins of the signal to a buffer of width 1.
LEMMA BeforeSum ==
  ASSUME NEW c \in Calls, c.family = "fft", c.op = "inverse", NEW k \in 0 .. 511, NEW p \in Nat, p = 512 - k
  PROVE  Before(BinOf(c, k), CConj(BinOf(c, p)), Turn(-k)) = Column(c, 1, k)
<1> DEFINE N == Len(c.at)
           f == Bins(c, k)
           o == Bins(c, p)
           g == [j \in Nat |-> CConj(o[j])]
           w == Turn(-k)
           b == Parts(c, 1, k)
           a == [j \in Nat |-> After(f[j], g[j], w)]
<1>1. N \in Nat /\ k \in Nat  BY CallSources
<1>2. BinOf(c, k) = CSum(N, f) /\ \A j \in 0 .. N - 1 : f[j] \in Complex  BY <1>1, BinSum
<1>3. BinOf(c, p) = CSum(N, o) /\ \A j \in 0 .. N - 1 : o[j] \in Complex  BY BinSum
<1>4. \A j \in 0 .. N - 1 : j \in Nat  OBVIOUS
<1>5. \A j \in 0 .. N - 1 : g[j] = CConj(o[j]) /\ a[j] = After(f[j], g[j], w)  BY <1>4
<1>6. w \in Complex
  <2>1. -k \in Int  OBVIOUS
  <2> QED  BY <2>1, TurnSteps
<1>7. ASSUME NEW j \in 0 .. N - 1 PROVE b[j] = Before(f[j], g[j], w)
  <2>1. PICK n \in 0 .. 1023, v \in Int : PartsAre(c, j, n, v)  BY PartsOf, ZenonT(40)
  <2>2. b[j] = Comb(n, v, 1, k) /\ f[j] = Ray(v, n * k) /\ o[j] = Ray(v, n * (512 - k))
    BY <2>1 DEF PartsAre
  <2>3. BeforeIs(n, v, k)  BY BeforeSource, ZenonT(40)
  <2>4. g[j] = CConj(o[j])  BY <1>5
  <2> HIDE DEF f, o, g, b
  <2> QED  BY <2>2, <2>3, <2>4 DEF BeforeIs
<1>8. Column(c, 1, k) = CSum(N, b)  BY DEF Column
<1> HIDE DEF N, f, o, g, w, b, a
<1>9. CConj(CSum(N, o)) = CSum(N, g)  BY <1>1, <1>3, <1>5, CSumConj
<1>10. \A j \in 0 .. N - 1 : g[j] \in Complex  BY <1>3, <1>5, ComplexClosed
<1>11. PassParts(f, g, b, a, w, N)  BY <1>2, <1>5, <1>7, <1>10 DEF PassParts
<1>12. Before(CSum(N, f), CSum(N, g), w) = CSum(N, b)  BY <1>1, <1>6, <1>11, PassSum
<1> QED  BY <1>2, <1>3, <1>8, <1>9, <1>12 DEF w

AfterIsBin(c, k, e, p) == After(Column(c, 512, e), CConj(Column(c, 512, p)), Turn(k)) = BinOf(c, k)

\* The post pass takes the buffer of width 512 to the bins.
LEMMA AfterSum ==
  ASSUME NEW c \in Calls, c.family = "fft", c.op = "forward",
         NEW k \in 0 .. 512, NEW e \in 0 .. 511, NEW p \in 0 .. 511, Mirror(k, e, p)
  PROVE  AfterIsBin(c, k, e, p)
<1> SUFFICES After(Column(c, 512, e), CConj(Column(c, 512, p)), Turn(k)) = BinOf(c, k)
  BY DEF AfterIsBin
<1> DEFINE N == Len(c.at)
           f == Parts(c, 512, e)
           o == Parts(c, 512, p)
           g == [j \in Nat |-> CConj(o[j])]
           w == Turn(k)
           a == Bins(c, k)
           b == [j \in Nat |-> Before(f[j], g[j], w)]
<1>1. N \in Nat /\ k \in Nat  BY CallSources
<1>2. \A j \in 0 .. N - 1 : f[j] \in Complex /\ o[j] \in Complex
  <2>1. PICK l \in Nat : l = 512  OBVIOUS
  <2>2. l > 0 /\ l <= 512  BY <2>1
  <2>3. \A j \in 0 .. N - 1 : Parts(c, l, e)[j] \in Complex  BY <2>2, PartsComplex
  <2>4. \A j \in 0 .. N - 1 : Parts(c, l, p)[j] \in Complex  BY <2>2, PartsComplex
  <2> QED  BY <2>1, <2>3, <2>4
<1>3. BinOf(c, k) = CSum(N, a)  BY <1>1, BinSum
<1>4. \A j \in 0 .. N - 1 : j \in Nat  OBVIOUS
<1>5. \A j \in 0 .. N - 1 : g[j] = CConj(o[j]) /\ b[j] = Before(f[j], g[j], w)  BY <1>4
<1>6. w \in Complex
  <2>1. k \in Int  OBVIOUS
  <2> QED  BY <2>1, TurnSteps
<1>7. ASSUME NEW j \in 0 .. N - 1 PROVE a[j] = After(f[j], g[j], w)
  <2>1. PICK n \in 0 .. 1023, v \in Int : PartsAre(c, j, n, v)  BY PartsOf, ZenonT(40)
  <2>2. a[j] = Ray(v, n * k) /\ f[j] = Spike(n, v, 512, e) /\ o[j] = Spike(n, v, 512, p)
    BY <2>1 DEF PartsAre
  <2>3. AfterIs(n, v, k, e, p)  BY AfterSource, ZenonT(40)
  <2>4. g[j] = CConj(o[j])  BY <1>5
  <2> HIDE DEF f, o, g, a
  <2> QED  BY <2>2, <2>3, <2>4 DEF AfterIs
<1>8. Column(c, 512, e) = CSum(N, f) /\ Column(c, 512, p) = CSum(N, o)  BY DEF Column
<1> HIDE DEF N, f, o, g, w, b, a
<1>9. CConj(CSum(N, o)) = CSum(N, g)  BY <1>1, <1>2, <1>5, CSumConj
<1>10. \A j \in 0 .. N - 1 : g[j] \in Complex  BY <1>2, <1>5, ComplexClosed
<1>11. PassParts(f, g, b, a, w, N)  BY <1>2, <1>5, <1>7, <1>10 DEF PassParts
<1>12. After(CSum(N, f), CSum(N, g), w) = CSum(N, a)  BY <1>1, <1>6, <1>11, PassSum
<1> QED  BY <1>3, <1>8, <1>9, <1>12 DEF w

\* The packed signal is a buffer of width 1, the conjugate of an inverse's last
\* buffer the signal FFT_N times over.
LEMMA PackedStart ==
  ASSUME NEW c \in Calls, c.family = "fft", c.op = "forward", NEW k \in 0 .. 511
  PROVE  Column(c, 1, k) = <<SampleOf(c, 2 * k), SampleOf(c, 2 * k + 1)>>
<1> DEFINE N == Len(c.at)
           f == Parts(c, 1, k)
           h == Placed(c, 1, k)
<1>1. N \in Nat /\ k \in Nat /\ 1 \in Int  BY CallSources
<1>2. ASSUME NEW j \in 0 .. N - 1 PROVE f[j] = h[j]
  <2>1. PICK n \in 0 .. 1023, v \in Int : PartsAre(c, j, n, v)  BY PartsOf, ZenonT(40)
  <2>2. f[j] = Spike(n, v, 1, k) /\ h[j] = IF n \div 2 = k THEN Ray(1 * v, 768 * (n % 2)) ELSE <<0, 0>>
    BY <2>1 DEF PartsAre
  <2> HIDE DEF f, h
  <2> DEFINE m == n \div 2
             x == 768 * (n % 2)
  <2>3. m \in 0 .. 511 /\ x \in Int  OBVIOUS
  <2>4. Spike(n, v, 1, k) = IF m = k THEN Ray(v, x) ELSE <<0, 0>>
    <3>1. 512 \div 1 = 512 /\ k \div 1 = k /\ k % 1 = 0 /\ 1024 \div 1 = 1024 /\ m % 512 = m
          /\ m \div 512 = 0
      BY <2>3
    <3>2. x + ((m \div 512) * (k % 1)) * 1024 = x  BY <2>3, <3>1
    <3> QED  BY <3>1, <3>2 DEF Spike
  <2> QED  BY <2>2, <2>4
<1>3. CSum(N, f) = CSum(N, h)
  <2> HIDE DEF N, f, h
  <2> QED  BY <1>1, <1>2, CSumSame
<1>4. CSum(N, h) = <<Fld(1 * SampleOf(c, 2 * k)), Fld(1 * SampleOf(c, 2 * k + 1))>>
  <2>1. PICK s \in Int : s = 1  OBVIOUS
  <2>2. CSum(N, Placed(c, s, k)) = <<Fld(s * SampleOf(c, 2 * k)), Fld(s * SampleOf(c, 2 * k + 1))>>
    BY <1>1, PlacedSum
  <2> QED  BY <2>1, <2>2
<1>5. ASSUME NEW n \in Nat PROVE Fld(1 * SampleOf(c, n)) = SampleOf(c, n)
  <2> DEFINE t == [j \in Nat |-> IF c.at[j + 1] = n THEN c.amp[j + 1] ELSE 0]
             y == SumTo(N, t)
  <2>1. \A j \in 0 .. N - 1 : t[j] \in Int
    <3> SUFFICES ASSUME NEW j \in 0 .. N - 1 PROVE t[j] \in Int  OBVIOUS
    <3>1. j \in Nat /\ c.amp[j + 1] \in Int  BY CallSources
    <3> QED  BY <3>1
  <2>2. y \in Int
    <3> HIDE DEF t, N
    <3>1. N \in 0 .. N  BY <1>1
    <3> QED  BY <1>1, <2>1, <3>1, SumToInt
  <2>3. SampleOf(c, n) = Fld(y)  BY DEF SampleOf
  <2> HIDE DEF y
  <2>4. Fld(y) \in Int /\ Fld(y) \in Scalars  BY <2>2, FldParts
  <2>5. Fld(Fld(y)) = Fld(y)  BY <2>4, FldParts
  <2>6. 1 * Fld(y) = Fld(y)  BY <2>4
  <2> QED  BY <2>3, <2>5, <2>6
<1>6. 2 * k \in Nat /\ 2 * k + 1 \in Nat  OBVIOUS
<1>7. Fld(1 * SampleOf(c, 2 * k)) = SampleOf(c, 2 * k) /\ Fld(1 * SampleOf(c, 2 * k + 1)) = SampleOf(c, 2 * k + 1)
  BY <1>5, <1>6
<1> QED  BY <1>3, <1>4, <1>7 DEF Column

UnpackedIs(c, k) ==
  CConj(Column(c, 512, k)) = <<Fld(1024 * SampleOf(c, 2 * k)), Fld(1024 * SampleOf(c, 2 * k + 1))>>

\* An inverse transform's last buffer is the conjugate of its signal, 1024 times over.
LEMMA UnpackedEnd ==
  ASSUME NEW c \in Calls, c.family = "fft", c.op = "inverse", NEW k \in 0 .. 511
  PROVE  UnpackedIs(c, k)
<1> SUFFICES CConj(Column(c, 512, k)) = <<Fld(1024 * SampleOf(c, 2 * k)), Fld(1024 * SampleOf(c, 2 * k + 1))>>
  BY DEF UnpackedIs
<1> DEFINE N == Len(c.at)
           f == Parts(c, 512, k)
           h == Placed(c, 1024, k)
<1>1. N \in Nat /\ k \in Nat  BY CallSources
<1>2. ASSUME NEW j \in 0 .. N - 1 PROVE h[j] = CConj(f[j])
  <2>1. PICK n \in 0 .. 1023, v \in Int : PartsAre(c, j, n, v)  BY PartsOf, ZenonT(40)
  <2>2. f[j] = Comb(n, v, 512, k) /\ h[j] = IF n \div 2 = k THEN Ray(1024 * v, 768 * (n % 2)) ELSE <<0, 0>>
    BY <2>1 DEF PartsAre
  <2> HIDE DEF f, h
  <2> DEFINE m == n \div 2
             x == 768 * (n % 2)
             y == -x
             d == 1024 * v
  <2>3. m \in 0 .. 511 /\ x \in Int /\ y \in Int /\ -y = x /\ d \in Int  OBVIOUS
  <2>4. Comb(n, v, 512, k) = IF m = k THEN Ray(d, y) ELSE <<0, 0>>
    <3>1. k \div 512 = 0 /\ k % 512 = k /\ m % 512 = m  BY <2>3
    <3>2. y - 2 * (m * (k \div 512)) = y  BY <2>3, <3>1
    <3>3. 2 * (v * 512) = d  OBVIOUS
    <3> QED  BY <3>1, <3>2, <3>3 DEF Comb
  <2>5. CConj(Ray(d, y)) = Ray(d, x)
    <3> HIDE DEF d, x, y
    <3>1. CConj(Ray(d, y)) = Ray(d, -y)  BY <2>3, RayConj
    <3> QED  BY <2>3, <3>1
  <2> QED  BY <2>2, <2>4, <2>5, ZeroComplex
<1>3. \A j \in 0 .. N - 1 : f[j] \in Complex
  <2>1. PICK l \in Nat : l = 512  OBVIOUS
  <2>2. l > 0 /\ l <= 512  BY <2>1
  <2>3. \A j \in 0 .. N - 1 : Parts(c, l, k)[j] \in Complex  BY <2>2, PartsComplex
  <2> QED  BY <2>1, <2>3
<1>4. CConj(CSum(N, f)) = CSum(N, h)
  <2> HIDE DEF N, f, h
  <2> QED  BY <1>1, <1>2, <1>3, CSumConj
<1>5. CSum(N, h) = <<Fld(1024 * SampleOf(c, 2 * k)), Fld(1024 * SampleOf(c, 2 * k + 1))>>
  <2>1. PICK s \in Int : s = 1024  OBVIOUS
  <2>2. CSum(N, Placed(c, s, k)) = <<Fld(s * SampleOf(c, 2 * k)), Fld(s * SampleOf(c, 2 * k + 1))>>
    BY <1>1, PlacedSum
  <2> QED  BY <2>1, <2>2
<1> QED  BY <1>4, <1>5 DEF Column

-----------------------------------------------------------------------------
(* What the shuffles of registers do, element by element *)

FftTiers == {"neon", "avx2", "avx512"}

\* The lanes of a register.
LEMMA LaneCounts ==
  ASSUME NEW tier \in FftTiers
  PROVE  \/ tier = "neon" /\ Lanes(tier) = 4
         \/ tier = "avx2" /\ Lanes(tier) = 8
         \/ tier = "avx512" /\ Lanes(tier) = 16
BY DEF FftTiers, Lanes

PairsOf(V, a, b, o, i, f) == f[i] = IF 2 * i + o < V THEN a[2 * i + o] ELSE b[2 * i + o - V]

\* The even or the odd elements of two registers in a row, on every tier.
LEMMA DeinterleavedIs ==
  ASSUME NEW tier \in FftTiers, NEW V, V = Lanes(tier), NEW a, NEW b,
         DOMAIN a = 0 .. V - 1, NEW o \in 0 .. 1, NEW i \in 0 .. V - 1
  PROVE  PairsOf(V, a, b, o, i, Deinterleaved(tier, a, b, o))
<1>1. CASE tier = "avx2"
  <2>1. V = 8  BY <1>1, LaneCounts
  <2> DEFINE s == Shuffle(a, b, o, 2)
             q == <<0, 2, 1, 3>>
  <2>2. \A l \in 0 .. 7 : s[l] = (IF (l % 4) < 2 THEN a ELSE b)[4 * (l \div 4) + o + 2 * (l % 2)]
    BY <2>1 DEF Shuffle
  <2>3. s[0] = a[o] /\ s[1] = a[o + 2] /\ s[2] = b[o] /\ s[3] = b[o + 2]
        /\ s[4] = a[4 + o] /\ s[5] = a[4 + o + 2] /\ s[6] = b[4 + o] /\ s[7] = b[4 + o + 2]
    <3>1. 4 * (0 \div 4) + o + 2 * (0 % 2) = o /\ 4 * (1 \div 4) + o + 2 * (1 % 2) = o + 2
          /\ 4 * (2 \div 4) + o + 2 * (2 % 2) = o /\ 4 * (3 \div 4) + o + 2 * (3 % 2) = o + 2
          /\ 4 * (4 \div 4) + o + 2 * (4 % 2) = 4 + o /\ 4 * (5 \div 4) + o + 2 * (5 % 2) = 4 + o + 2
          /\ 4 * (6 \div 4) + o + 2 * (6 % 2) = 4 + o /\ 4 * (7 \div 4) + o + 2 * (7 % 2) = 4 + o + 2
      OBVIOUS
    <3>2. 0 % 4 = 0 /\ 1 % 4 = 1 /\ 2 % 4 = 2 /\ 3 % 4 = 3 /\ 4 % 4 = 0 /\ 5 % 4 = 1 /\ 6 % 4 = 2 /\ 7 % 4 = 3
      OBVIOUS
    <3> HIDE DEF s
    <3> QED  BY <2>2, <3>1, <3>2
  <2>4. Deinterleaved(tier, a, b, o) = [l \in DOMAIN s |-> s[2 * q[(l \div 2) + 1] + (l % 2)]]
    BY <1>1 DEF Deinterleaved, Quarters
  <2>5. DOMAIN s = 0 .. 7  BY <2>1 DEF Shuffle
  <2>6. q[1] = 0 /\ q[2] = 2 /\ q[3] = 1 /\ q[4] = 3  OBVIOUS
  <2> HIDE DEF s, q
  <2>7. Deinterleaved(tier, a, b, o)[i] = s[2 * q[(i \div 2) + 1] + (i % 2)]  BY <2>1, <2>4, <2>5
  <2>8. \/ i = 0 /\ 2 * q[(i \div 2) + 1] + (i % 2) = 0
        \/ i = 1 /\ 2 * q[(i \div 2) + 1] + (i % 2) = 1
        \/ i = 2 /\ 2 * q[(i \div 2) + 1] + (i % 2) = 4
        \/ i = 3 /\ 2 * q[(i \div 2) + 1] + (i % 2) = 5
        \/ i = 4 /\ 2 * q[(i \div 2) + 1] + (i % 2) = 2
        \/ i = 5 /\ 2 * q[(i \div 2) + 1] + (i % 2) = 3
        \/ i = 6 /\ 2 * q[(i \div 2) + 1] + (i % 2) = 6
        \/ i = 7 /\ 2 * q[(i \div 2) + 1] + (i % 2) = 7
    BY <2>1, <2>6
  <2>9. o = 0 \/ o = 1  OBVIOUS
  <2>10. Deinterleaved(tier, a, b, o)[i] = IF 2 * i + o < V THEN a[2 * i + o] ELSE b[2 * i + o - V]
    BY <2>1, <2>3, <2>7, <2>8, <2>9
  <2> QED  BY <2>10 DEF PairsOf
<1>2. CASE tier # "avx2"
  <2>1. V = 4 \/ V = 16  BY <1>2, LaneCounts
  <2>2. Deinterleaved(tier, a, b, o)[i] = IF 2 * i < V THEN a[2 * i + o] ELSE b[2 * i + o - V]
    BY <1>2 DEF Deinterleaved
  <2>3. (2 * i < V) <=> (2 * i + o < V)  BY <2>1
  <2> QED  BY <2>2, <2>3 DEF PairsOf
<1> QED  BY <1>1, <1>2

\* Block t of register f holds element p of the registers o[1] to o[4].
BlockIs(f, t, o, p) == \A j \in 0 .. 3 : f[4 * t + j] = o[j + 1][p]
Register(f, n) == DOMAIN f = 0 .. 4 * n - 1

\* A block that is picked out of two registers keeps its contents,
LEMMA BlocksAt ==
  ASSUME NEW n \in Nat, NEW a, Register(a, n), NEW b, NEW sel, Len(sel) = n, NEW t \in 0 .. n - 1,
         NEW s, s = sel[t + 1], s \in Nat, NEW o, NEW p,
         \/ s < n /\ BlockIs(a, s, o, p)
         \/ s >= n /\ BlockIs(b, s - n, o, p)
  PROVE  BlockIs(Blocks(a, b, sel), t, o, p)
<1> SUFFICES ASSUME NEW j \in 0 .. 3 PROVE Blocks(a, b, sel)[4 * t + j] = o[j + 1][p]
  BY DEF BlockIs
<1>1. 4 * t + j \in DOMAIN a /\ (4 * t + j) \div 4 = t /\ (4 * t + j) % 4 = j  BY DEF Register
<1>2. Blocks(a, b, sel)[4 * t + j] = IF s < n THEN a[4 * s + j] ELSE b[4 * (s - n) + j]
  BY <1>1 DEF Blocks
<1>3. CASE s < n
  <2>1. BlockIs(a, s, o, p)  BY <1>3
  <2>2. a[4 * s + j] = o[j + 1][p]  BY <2>1 DEF BlockIs
  <2> QED  BY <1>2, <1>3, <2>2
<1>4. CASE s >= n
  <2>1. BlockIs(b, s - n, o, p)  BY <1>4
  <2>2. b[4 * (s - n) + j] = o[j + 1][p]  BY <2>1 DEF BlockIs
  <2>3. ~(s < n)  BY <1>4
  <2> QED  BY <1>2, <2>2, <2>3
<1> QED  BY <1>3, <1>4

\* and so many blocks make a register.
LEMMA BlocksRegister ==
  ASSUME NEW n, NEW a, Register(a, n), NEW b, NEW sel
  PROVE  Register(Blocks(a, b, sel), n)
BY DEF Register, Blocks

\* The four shuffles of unpacked pairs gather one column each.
Gathered(o, h, z) == Shuffle(Unpack(o[1], o[2], h), Unpack(o[3], o[4], h), z, 1)

\* Two levels of unpacking bring one row of each 4 by 4 block together.
LEMMA GatheredIs ==
  ASSUME NEW n \in Nat, NEW o, \A r \in 1 .. 4 : Register(o[r], n), NEW h \in {0, 2}, NEW z \in {0, 2}
  PROVE  /\ Register(Gathered(o, h, z), n)
         /\ \A t \in 0 .. n - 1 : BlockIs(Gathered(o, h, z), t, o, 4 * t + h + z \div 2)
<1> DEFINE x == Unpack(o[1], o[2], h)
           y == Unpack(o[3], o[4], h)
           Dom == 0 .. 4 * n - 1
           f == Gathered(o, h, z)
<1>1. DOMAIN o[1] = Dom /\ DOMAIN o[3] = Dom  BY DEF Register
<1>2. /\ x = [i \in Dom |-> (IF (i % 2) = 0 THEN o[1] ELSE o[2])[4 * (i \div 4) + h + (i % 4) \div 2]]
      /\ y = [i \in Dom |-> (IF (i % 2) = 0 THEN o[3] ELSE o[4])[4 * (i \div 4) + h + (i % 4) \div 2]]
  BY <1>1 DEF Unpack
<1>3. f = [i \in Dom |-> (IF (i % 4) < 2 THEN x ELSE y)[4 * (i \div 4) + z + 1 * (i % 2)]]
  <2>1. DOMAIN x = Dom  BY <1>2
  <2> HIDE DEF x, y
  <2>2. f = Shuffle(x, y, z, 1)  BY DEF Gathered, x, y
  <2> QED  BY <2>1, <2>2 DEF Shuffle
<1>4. Register(f, n)  BY <1>3 DEF Register
<1>5. ASSUME NEW t \in 0 .. n - 1, NEW j \in 0 .. 3
      PROVE  f[4 * t + j] = o[j + 1][4 * t + h + z \div 2]
  <2>1. 4 * t + j \in Dom /\ (4 * t + j) \div 4 = t /\ (4 * t + j) % 4 = j /\ (4 * t + j) % 2 = j % 2
    OBVIOUS
  <2> DEFINE k == 4 * t + z + (j % 2)
             e == 4 * t + h + z \div 2
  <2>2. f[4 * t + j] = (IF j < 2 THEN x ELSE y)[k]
    <3>1. 4 * ((4 * t + j) \div 4) + z + 1 * ((4 * t + j) % 2) = k  BY <2>1
    <3> HIDE DEF x, y, f, k, Dom
    <3> QED  BY <1>3, <2>1, <3>1
  <2>3. k \in Dom /\ k % 2 = j % 2 /\ 4 * (k \div 4) + h + (k % 4) \div 2 = e
    <3>1. k \div 4 = t /\ k % 4 = z + (j % 2) /\ k % 2 = j % 2 /\ k \in Dom
      <4>1. j % 2 \in 0 .. 1 /\ z \in 0 .. 2  OBVIOUS
      <4>2. CASE z = 0  BY <4>1, <4>2
      <4>3. CASE z = 2  BY <4>1, <4>3
      <4> QED  BY <4>2, <4>3
    <3>2. (z + (j % 2)) \div 2 = z \div 2
      <4>1. j % 2 \in 0 .. 1  OBVIOUS
      <4>2. CASE z = 0  BY <4>1, <4>2
      <4>3. CASE z = 2  BY <4>1, <4>3
      <4> QED  BY <4>2, <4>3
    <3> QED  BY <3>1, <3>2
  <2>4. x[k] = (IF j % 2 = 0 THEN o[1] ELSE o[2])[e] /\ y[k] = (IF j % 2 = 0 THEN o[3] ELSE o[4])[e]
    <3> HIDE DEF x, y, k, e, Dom
    <3> QED  BY <1>2, <2>3
  <2>5. j = 0 \/ j = 1 \/ j = 2 \/ j = 3  OBVIOUS
  <2>7. 0 % 2 = 0 /\ 1 % 2 = 1 /\ 2 % 2 = 0 /\ 3 % 2 = 1  OBVIOUS
  <2> HIDE DEF x, y, k, e, f
  <2>6. f[4 * t + j] = o[j + 1][e]
    <3>1. CASE j = 0  BY <2>2, <2>4, <2>7, <3>1
    <3>2. CASE j = 1  BY <2>2, <2>4, <2>7, <3>2
    <3>3. CASE j = 2  BY <2>2, <2>4, <2>7, <3>3
    <3>4. CASE j = 3  BY <2>2, <2>4, <2>7, <3>4
    <3> QED  BY <2>5, <3>1, <3>2, <3>3, <3>4
  <2> QED  BY <2>6 DEF e
<1> QED  BY <1>4, <1>5 DEF BlockIs

-----------------------------------------------------------------------------
(* The transposition of stage 0's four registers, on every tier *)

Transposes(f, n, r, o) == \A t \in 0 .. n - 1 : BlockIs(f, t, o, (r - 1) * n + t)

\* All four rows.
LEMMA GatheredRows ==
  ASSUME NEW n \in Nat, NEW o, \A r \in 1 .. 4 : Register(o[r], n)
  PROVE  /\ Register(Gathered(o, 0, 0), n) /\ Register(Gathered(o, 0, 2), n)
         /\ Register(Gathered(o, 2, 0), n) /\ Register(Gathered(o, 2, 2), n)
         /\ \A t \in 0 .. n - 1 :
              /\ BlockIs(Gathered(o, 0, 0), t, o, 4 * t) /\ BlockIs(Gathered(o, 0, 2), t, o, 4 * t + 1)
              /\ BlockIs(Gathered(o, 2, 0), t, o, 4 * t + 2) /\ BlockIs(Gathered(o, 2, 2), t, o, 4 * t + 3)
<1>1. 0 \in {0, 2} /\ 2 \in {0, 2}  OBVIOUS
<1>2. /\ \A t \in 0 .. n - 1 : BlockIs(Gathered(o, 0, 0), t, o, 4 * t + 0 + 0 \div 2)
      /\ Register(Gathered(o, 0, 0), n)
  BY <1>1, GatheredIs
<1>3. /\ \A t \in 0 .. n - 1 : BlockIs(Gathered(o, 0, 2), t, o, 4 * t + 0 + 2 \div 2)
      /\ Register(Gathered(o, 0, 2), n)
  BY <1>1, GatheredIs
<1>4. /\ \A t \in 0 .. n - 1 : BlockIs(Gathered(o, 2, 0), t, o, 4 * t + 2 + 0 \div 2)
      /\ Register(Gathered(o, 2, 0), n)
  BY <1>1, GatheredIs
<1>5. /\ \A t \in 0 .. n - 1 : BlockIs(Gathered(o, 2, 2), t, o, 4 * t + 2 + 2 \div 2)
      /\ Register(Gathered(o, 2, 2), n)
  BY <1>1, GatheredIs
<1>6. \A t \in 0 .. n - 1 : 4 * t + 0 + 0 \div 2 = 4 * t /\ 4 * t + 0 + 2 \div 2 = 4 * t + 1
                            /\ 4 * t + 2 + 0 \div 2 = 4 * t + 2 /\ 4 * t + 2 + 2 \div 2 = 4 * t + 3
  OBVIOUS
<1> QED  BY <1>2, <1>3, <1>4, <1>5, <1>6

\* Picking one block of each of two registers.
LEMMA PairOfBlocks ==
  ASSUME NEW a, NEW b, Register(a, 2), Register(b, 2), NEW o, NEW u \in 0 .. 1, NEW p, NEW q,
         BlockIs(a, u, o, p), BlockIs(b, u, o, q)
  PROVE  /\ BlockIs(Blocks(a, b, <<u, u + 2>>), 0, o, p)
         /\ BlockIs(Blocks(a, b, <<u, u + 2>>), 1, o, q)
<1> DEFINE sel == <<u, u + 2>>
<1>1. Len(sel) = 2 /\ sel[1] = u /\ sel[2] = u + 2  OBVIOUS
<1> HIDE DEF sel
<1>2. BlockIs(Blocks(a, b, sel), 0, o, p)
  <2>1. 0 \in 0 .. 2 - 1 /\ u = sel[0 + 1] /\ u \in Nat /\ u < 2 /\ 2 \in Nat  BY <1>1
  <2> QED  BY <1>1, <2>1, BlocksAt
<1>3. BlockIs(Blocks(a, b, sel), 1, o, q)
  <2> DEFINE v == u + 2
  <2>1. 1 \in 0 .. 2 - 1 /\ v = sel[1 + 1] /\ v \in Nat /\ v >= 2 /\ v - 2 = u /\ 2 \in Nat  BY <1>1
  <2> HIDE DEF v
  <2> QED  BY <1>1, <2>1, BlocksAt
<1> QED  BY <1>2, <1>3 DEF sel

\* The 8-lane transposition puts each row of blocks in order.
LEMMA TransposedPairs ==
  ASSUME NEW o, \A r \in 1 .. 4 : Register(o[r], 2)
  PROVE  \A r \in 1 .. 4 : Transposes(Transposed("avx2", o)[r], 2, r, o)
<1> DEFINE r0 == Gathered(o, 0, 0)
           r1 == Gathered(o, 0, 2)
           r2 == Gathered(o, 2, 0)
           r3 == Gathered(o, 2, 2)
<1>1. Transposed("avx2", o) = <<Blocks(r0, r1, <<0, 2>>), Blocks(r2, r3, <<0, 2>>),
                                Blocks(r0, r1, <<1, 3>>), Blocks(r2, r3, <<1, 3>>)>>
  BY DEF Transposed, Gathered
<1>2. /\ Register(r0, 2) /\ Register(r1, 2) /\ Register(r2, 2) /\ Register(r3, 2)
      /\ \A t \in 0 .. 1 : /\ BlockIs(r0, t, o, 4 * t) /\ BlockIs(r1, t, o, 4 * t + 1)
                           /\ BlockIs(r2, t, o, 4 * t + 2) /\ BlockIs(r3, t, o, 4 * t + 3)
  <2>1. 2 \in Nat /\ 2 - 1 = 1  OBVIOUS
  <2> QED  BY <2>1, GatheredRows
<1> HIDE DEF r0, r1, r2, r3
<1>3. /\ BlockIs(r0, 0, o, 0) /\ BlockIs(r1, 0, o, 1) /\ BlockIs(r2, 0, o, 2) /\ BlockIs(r3, 0, o, 3)
      /\ BlockIs(r0, 1, o, 4) /\ BlockIs(r1, 1, o, 5) /\ BlockIs(r2, 1, o, 6) /\ BlockIs(r3, 1, o, 7)
  <2>1. 0 \in 0 .. 1 /\ 1 \in 0 .. 1 /\ 4 * 0 = 0 /\ 4 * 0 + 1 = 1 /\ 4 * 0 + 2 = 2 /\ 4 * 0 + 3 = 3
        /\ 4 * 1 = 4 /\ 4 * 1 + 1 = 5 /\ 4 * 1 + 2 = 6 /\ 4 * 1 + 3 = 7
    OBVIOUS
  <2> QED  BY <1>2, <2>1
<1> DEFINE b1 == Blocks(r0, r1, <<0, 2>>)
           b2 == Blocks(r2, r3, <<0, 2>>)
           b3 == Blocks(r0, r1, <<1, 3>>)
           b4 == Blocks(r2, r3, <<1, 3>>)
<1>4. /\ BlockIs(b1, 0, o, 0) /\ BlockIs(b1, 1, o, 1) /\ BlockIs(b2, 0, o, 2) /\ BlockIs(b2, 1, o, 3)
      /\ BlockIs(b3, 0, o, 4) /\ BlockIs(b3, 1, o, 5) /\ BlockIs(b4, 0, o, 6) /\ BlockIs(b4, 1, o, 7)
  <2>1. PICK u \in 0 .. 1 : u = 0  OBVIOUS
  <2>2. PICK v \in 0 .. 1 : v = 1  OBVIOUS
  <2>3. u + 2 = 2 /\ v + 2 = 3  BY <2>1, <2>2
  <2>4. b1 = Blocks(r0, r1, <<u, u + 2>>) /\ b2 = Blocks(r2, r3, <<u, u + 2>>)
        /\ b3 = Blocks(r0, r1, <<v, v + 2>>) /\ b4 = Blocks(r2, r3, <<v, v + 2>>)
    BY <2>1, <2>2, <2>3
  <2>5. BlockIs(r0, u, o, 0) /\ BlockIs(r1, u, o, 1) /\ BlockIs(r2, u, o, 2) /\ BlockIs(r3, u, o, 3)
        /\ BlockIs(r0, v, o, 4) /\ BlockIs(r1, v, o, 5) /\ BlockIs(r2, v, o, 6) /\ BlockIs(r3, v, o, 7)
    BY <1>3, <2>1, <2>2
  <2> HIDE DEF b1, b2, b3, b4
  <2>6. BlockIs(b1, 0, o, 0) /\ BlockIs(b1, 1, o, 1)  BY <1>2, <2>4, <2>5, PairOfBlocks
  <2>7. BlockIs(b2, 0, o, 2) /\ BlockIs(b2, 1, o, 3)  BY <1>2, <2>4, <2>5, PairOfBlocks
  <2>8. BlockIs(b3, 0, o, 4) /\ BlockIs(b3, 1, o, 5)  BY <1>2, <2>4, <2>5, PairOfBlocks
  <2>9. BlockIs(b4, 0, o, 6) /\ BlockIs(b4, 1, o, 7)  BY <1>2, <2>4, <2>5, PairOfBlocks
  <2> QED  BY <2>6, <2>7, <2>8, <2>9
<1> DEFINE f == Transposed("avx2", o)
<1>5. f[1] = b1 /\ f[2] = b2 /\ f[3] = b3 /\ f[4] = b4  BY <1>1
<1> HIDE DEF f, b1, b2, b3, b4
<1> SUFFICES ASSUME NEW r \in 1 .. 4, NEW t \in 0 .. 1 PROVE BlockIs(f[r], t, o, (r - 1) * 2 + t)
  BY DEF Transposes, f
<1>6. (r = 1 \/ r = 2 \/ r = 3 \/ r = 4) /\ (t = 0 \/ t = 1)  OBVIOUS
<1>7. (1 - 1) * 2 + 0 = 0 /\ (1 - 1) * 2 + 1 = 1 /\ (2 - 1) * 2 + 0 = 2 /\ (2 - 1) * 2 + 1 = 3
      /\ (3 - 1) * 2 + 0 = 4 /\ (3 - 1) * 2 + 1 = 5 /\ (4 - 1) * 2 + 0 = 6 /\ (4 - 1) * 2 + 1 = 7
  OBVIOUS
<1>8. CASE t = 0  BY <1>4, <1>5, <1>6, <1>7, <1>8
<1>9. CASE t = 1  BY <1>4, <1>5, <1>6, <1>7, <1>9
<1> QED  BY <1>6, <1>8, <1>9

\* Picking two blocks of each of two registers in turn,
LEMMA AlternateBlocks ==
  ASSUME NEW a, NEW b, Register(a, 4), Register(b, 4), NEW o, NEW u \in 0 .. 3, NEW v \in 0 .. 3,
         NEW p, NEW q, NEW r, NEW s,
         BlockIs(a, u, o, p), BlockIs(b, u, o, q), BlockIs(a, v, o, r), BlockIs(b, v, o, s)
  PROVE  /\ BlockIs(Blocks(a, b, <<u, u + 4, v, v + 4>>), 0, o, p) /\ BlockIs(Blocks(a, b, <<u, u + 4, v, v + 4>>), 1, o, q)
         /\ BlockIs(Blocks(a, b, <<u, u + 4, v, v + 4>>), 2, o, r) /\ BlockIs(Blocks(a, b, <<u, u + 4, v, v + 4>>), 3, o, s)
<1> DEFINE sel == <<u, u + 4, v, v + 4>>
           w == u + 4
           x == v + 4
<1>1. Len(sel) = 4 /\ sel[1] = u /\ sel[2] = w /\ sel[3] = v /\ sel[4] = x  OBVIOUS
<1>2. w \in Nat /\ w >= 4 /\ w - 4 = u /\ x \in Nat /\ x >= 4 /\ x - 4 = v /\ u \in Nat /\ v \in Nat
      /\ u < 4 /\ v < 4 /\ 4 \in Nat /\ 0 + 1 = 1 /\ 1 + 1 = 2 /\ 2 + 1 = 3 /\ 3 + 1 = 4
      /\ 0 \in 0 .. 4 - 1 /\ 1 \in 0 .. 4 - 1 /\ 2 \in 0 .. 4 - 1 /\ 3 \in 0 .. 4 - 1
  OBVIOUS
<1> HIDE DEF sel, w, x
<1>3. BlockIs(Blocks(a, b, sel), 0, o, p)
  <2>1. u = sel[0 + 1]  BY <1>1, <1>2
  <2> QED  BY <1>1, <1>2, <2>1, BlocksAt
<1>4. BlockIs(Blocks(a, b, sel), 1, o, q)
  <2>1. w = sel[1 + 1]  BY <1>1, <1>2
  <2> QED  BY <1>1, <1>2, <2>1, BlocksAt
<1>5. BlockIs(Blocks(a, b, sel), 2, o, r)
  <2>1. v = sel[2 + 1]  BY <1>1, <1>2
  <2> QED  BY <1>1, <1>2, <2>1, BlocksAt
<1>6. BlockIs(Blocks(a, b, sel), 3, o, s)
  <2>1. x = sel[3 + 1]  BY <1>1, <1>2
  <2> QED  BY <1>1, <1>2, <2>1, BlocksAt
<1> QED  BY <1>3, <1>4, <1>5, <1>6 DEF sel

\* or in pairs.
LEMMA HalvesOfBlocks ==
  ASSUME NEW a, NEW b, Register(a, 4), Register(b, 4), NEW o, NEW u \in 0 .. 3, NEW v \in 0 .. 3,
         NEW p, NEW q, NEW r, NEW s,
         BlockIs(a, u, o, p), BlockIs(a, v, o, q), BlockIs(b, u, o, r), BlockIs(b, v, o, s)
  PROVE  /\ BlockIs(Blocks(a, b, <<u, v, u + 4, v + 4>>), 0, o, p) /\ BlockIs(Blocks(a, b, <<u, v, u + 4, v + 4>>), 1, o, q)
         /\ BlockIs(Blocks(a, b, <<u, v, u + 4, v + 4>>), 2, o, r) /\ BlockIs(Blocks(a, b, <<u, v, u + 4, v + 4>>), 3, o, s)
<1> DEFINE sel == <<u, v, u + 4, v + 4>>
           w == u + 4
           x == v + 4
<1>1. Len(sel) = 4 /\ sel[1] = u /\ sel[2] = v /\ sel[3] = w /\ sel[4] = x  OBVIOUS
<1>2. w \in Nat /\ w >= 4 /\ w - 4 = u /\ x \in Nat /\ x >= 4 /\ x - 4 = v /\ u \in Nat /\ v \in Nat
      /\ u < 4 /\ v < 4 /\ 4 \in Nat /\ 0 + 1 = 1 /\ 1 + 1 = 2 /\ 2 + 1 = 3 /\ 3 + 1 = 4
      /\ 0 \in 0 .. 4 - 1 /\ 1 \in 0 .. 4 - 1 /\ 2 \in 0 .. 4 - 1 /\ 3 \in 0 .. 4 - 1
  OBVIOUS
<1> HIDE DEF sel, w, x
<1>3. BlockIs(Blocks(a, b, sel), 0, o, p)
  <2>1. u = sel[0 + 1]  BY <1>1, <1>2
  <2> QED  BY <1>1, <1>2, <2>1, BlocksAt
<1>4. BlockIs(Blocks(a, b, sel), 1, o, q)
  <2>1. v = sel[1 + 1]  BY <1>1, <1>2
  <2> QED  BY <1>1, <1>2, <2>1, BlocksAt
<1>5. BlockIs(Blocks(a, b, sel), 2, o, r)
  <2>1. w = sel[2 + 1]  BY <1>1, <1>2
  <2> QED  BY <1>1, <1>2, <2>1, BlocksAt
<1>6. BlockIs(Blocks(a, b, sel), 3, o, s)
  <2>1. x = sel[3 + 1]  BY <1>1, <1>2
  <2> QED  BY <1>1, <1>2, <2>1, BlocksAt
<1> QED  BY <1>3, <1>4, <1>5, <1>6 DEF sel

\* The 16-lane transposition puts each row of blocks in order, in two rounds.
LEMMA TransposedQuads ==
  ASSUME NEW o, \A r \in 1 .. 4 : Register(o[r], 4)
  PROVE  \A r \in 1 .. 4 : Transposes(Transposed("avx512", o)[r], 4, r, o)
<1> DEFINE r0 == Gathered(o, 0, 0)
           r1 == Gathered(o, 0, 2)
           r2 == Gathered(o, 2, 0)
           r3 == Gathered(o, 2, 2)
           l1 == Blocks(r0, r1, <<0, 4, 1, 5>>)
           l3 == Blocks(r2, r3, <<0, 4, 1, 5>>)
           h1 == Blocks(r0, r1, <<2, 6, 3, 7>>)
           h3 == Blocks(r2, r3, <<2, 6, 3, 7>>)
           b1 == Blocks(l1, l3, <<0, 1, 4, 5>>)
           b2 == Blocks(l1, l3, <<2, 3, 6, 7>>)
           b3 == Blocks(h1, h3, <<0, 1, 4, 5>>)
           b4 == Blocks(h1, h3, <<2, 3, 6, 7>>)
           f == Transposed("avx512", o)
<1>1. f = <<b1, b2, b3, b4>>
  BY DEF Transposed, Gathered
<1>2. /\ Register(r0, 4) /\ Register(r1, 4) /\ Register(r2, 4) /\ Register(r3, 4)
      /\ \A t \in 0 .. 3 : /\ BlockIs(r0, t, o, 4 * t) /\ BlockIs(r1, t, o, 4 * t + 1)
                           /\ BlockIs(r2, t, o, 4 * t + 2) /\ BlockIs(r3, t, o, 4 * t + 3)
  <2>1. 4 \in Nat /\ 4 - 1 = 3  OBVIOUS
  <2> QED  BY <2>1, GatheredRows
<1> HIDE DEF r0, r1, r2, r3
<1>3. /\ BlockIs(r0, 0, o, 0) /\ BlockIs(r1, 0, o, 1) /\ BlockIs(r2, 0, o, 2) /\ BlockIs(r3, 0, o, 3)
      /\ BlockIs(r0, 1, o, 4) /\ BlockIs(r1, 1, o, 5) /\ BlockIs(r2, 1, o, 6) /\ BlockIs(r3, 1, o, 7)
      /\ BlockIs(r0, 2, o, 8) /\ BlockIs(r1, 2, o, 9) /\ BlockIs(r2, 2, o, 10) /\ BlockIs(r3, 2, o, 11)
      /\ BlockIs(r0, 3, o, 12) /\ BlockIs(r1, 3, o, 13) /\ BlockIs(r2, 3, o, 14) /\ BlockIs(r3, 3, o, 15)
  <2>1. 0 \in 0 .. 3 /\ 1 \in 0 .. 3 /\ 2 \in 0 .. 3 /\ 3 \in 0 .. 3
        /\ 4 * 0 = 0 /\ 4 * 0 + 1 = 1 /\ 4 * 0 + 2 = 2 /\ 4 * 0 + 3 = 3
        /\ 4 * 1 = 4 /\ 4 * 1 + 1 = 5 /\ 4 * 1 + 2 = 6 /\ 4 * 1 + 3 = 7
        /\ 4 * 2 = 8 /\ 4 * 2 + 1 = 9 /\ 4 * 2 + 2 = 10 /\ 4 * 2 + 3 = 11
        /\ 4 * 3 = 12 /\ 4 * 3 + 1 = 13 /\ 4 * 3 + 2 = 14 /\ 4 * 3 + 3 = 15
    OBVIOUS
  <2> QED  BY <1>2, <2>1
<1>4. PICK u \in 0 .. 3, v \in 0 .. 3, y \in 0 .. 3, z \in 0 .. 3 : u = 0 /\ v = 1 /\ y = 2 /\ z = 3
  OBVIOUS
<1>5. u + 4 = 4 /\ v + 4 = 5 /\ y + 4 = 6 /\ z + 4 = 7  BY <1>4
<1>6. /\ l1 = Blocks(r0, r1, <<u, u + 4, v, v + 4>>) /\ l3 = Blocks(r2, r3, <<u, u + 4, v, v + 4>>)
      /\ h1 = Blocks(r0, r1, <<y, y + 4, z, z + 4>>) /\ h3 = Blocks(r2, r3, <<y, y + 4, z, z + 4>>)
      /\ b1 = Blocks(l1, l3, <<u, v, u + 4, v + 4>>) /\ b2 = Blocks(l1, l3, <<y, z, y + 4, z + 4>>)
      /\ b3 = Blocks(h1, h3, <<u, v, u + 4, v + 4>>) /\ b4 = Blocks(h1, h3, <<y, z, y + 4, z + 4>>)
  BY <1>4, <1>5
<1>7. Register(l1, 4) /\ Register(l3, 4) /\ Register(h1, 4) /\ Register(h3, 4)
  BY <1>2, BlocksRegister
<1>8. /\ BlockIs(r0, u, o, 0) /\ BlockIs(r1, u, o, 1) /\ BlockIs(r2, u, o, 2) /\ BlockIs(r3, u, o, 3)
      /\ BlockIs(r0, v, o, 4) /\ BlockIs(r1, v, o, 5) /\ BlockIs(r2, v, o, 6) /\ BlockIs(r3, v, o, 7)
      /\ BlockIs(r0, y, o, 8) /\ BlockIs(r1, y, o, 9) /\ BlockIs(r2, y, o, 10) /\ BlockIs(r3, y, o, 11)
      /\ BlockIs(r0, z, o, 12) /\ BlockIs(r1, z, o, 13) /\ BlockIs(r2, z, o, 14) /\ BlockIs(r3, z, o, 15)
  BY <1>3, <1>4
<1> HIDE DEF b1, b2, b3, b4, l1, l3, h1, h3
<1>9. BlockIs(l1, 0, o, 0) /\ BlockIs(l1, 1, o, 1) /\ BlockIs(l1, 2, o, 4) /\ BlockIs(l1, 3, o, 5)
  BY <1>2, <1>6, <1>8, AlternateBlocks
<1>10. BlockIs(l3, 0, o, 2) /\ BlockIs(l3, 1, o, 3) /\ BlockIs(l3, 2, o, 6) /\ BlockIs(l3, 3, o, 7)
  BY <1>2, <1>6, <1>8, AlternateBlocks
<1>11. BlockIs(h1, 0, o, 8) /\ BlockIs(h1, 1, o, 9) /\ BlockIs(h1, 2, o, 12) /\ BlockIs(h1, 3, o, 13)
  BY <1>2, <1>6, <1>8, AlternateBlocks
<1>12. BlockIs(h3, 0, o, 10) /\ BlockIs(h3, 1, o, 11) /\ BlockIs(h3, 2, o, 14) /\ BlockIs(h3, 3, o, 15)
  BY <1>2, <1>6, <1>8, AlternateBlocks
<1>13. BlockIs(b1, 0, o, 0) /\ BlockIs(b1, 1, o, 1) /\ BlockIs(b1, 2, o, 2) /\ BlockIs(b1, 3, o, 3)
  <2>1. BlockIs(l1, u, o, 0) /\ BlockIs(l1, v, o, 1) /\ BlockIs(l3, u, o, 2) /\ BlockIs(l3, v, o, 3)
    BY <1>4, <1>9, <1>10
  <2> QED  BY <1>6, <1>7, <2>1, HalvesOfBlocks
<1>14. BlockIs(b2, 0, o, 4) /\ BlockIs(b2, 1, o, 5) /\ BlockIs(b2, 2, o, 6) /\ BlockIs(b2, 3, o, 7)
  <2>1. BlockIs(l1, y, o, 4) /\ BlockIs(l1, z, o, 5) /\ BlockIs(l3, y, o, 6) /\ BlockIs(l3, z, o, 7)
    BY <1>4, <1>9, <1>10
  <2> QED  BY <1>6, <1>7, <2>1, HalvesOfBlocks
<1>15. BlockIs(b3, 0, o, 8) /\ BlockIs(b3, 1, o, 9) /\ BlockIs(b3, 2, o, 10) /\ BlockIs(b3, 3, o, 11)
  <2>1. BlockIs(h1, u, o, 8) /\ BlockIs(h1, v, o, 9) /\ BlockIs(h3, u, o, 10) /\ BlockIs(h3, v, o, 11)
    BY <1>4, <1>11, <1>12
  <2> QED  BY <1>6, <1>7, <2>1, HalvesOfBlocks
<1>16. BlockIs(b4, 0, o, 12) /\ BlockIs(b4, 1, o, 13) /\ BlockIs(b4, 2, o, 14) /\ BlockIs(b4, 3, o, 15)
  <2>1. BlockIs(h1, y, o, 12) /\ BlockIs(h1, z, o, 13) /\ BlockIs(h3, y, o, 14) /\ BlockIs(h3, z, o, 15)
    BY <1>4, <1>11, <1>12
  <2> QED  BY <1>6, <1>7, <2>1, HalvesOfBlocks
<1>17. f[1] = b1 /\ f[2] = b2 /\ f[3] = b3 /\ f[4] = b4  BY <1>1
<1> HIDE DEF f
<1> SUFFICES ASSUME NEW r \in 1 .. 4, NEW t \in 0 .. 3 PROVE BlockIs(f[r], t, o, (r - 1) * 4 + t)
  BY DEF Transposes, f
<1>19. BlockIs(b1, t, o, t) /\ BlockIs(b2, t, o, 4 + t) /\ BlockIs(b3, t, o, 8 + t) /\ BlockIs(b4, t, o, 12 + t)
  <2>1. CASE t = 0
    <3>1. 4 + t = 4 /\ 8 + t = 8 /\ 12 + t = 12  BY <2>1
    <3> QED  BY <1>13, <1>14, <1>15, <1>16, <2>1, <3>1
  <2>2. CASE t = 1
    <3>1. 4 + t = 5 /\ 8 + t = 9 /\ 12 + t = 13  BY <2>2
    <3> QED  BY <1>13, <1>14, <1>15, <1>16, <2>2, <3>1
  <2>3. CASE t = 2
    <3>1. 4 + t = 6 /\ 8 + t = 10 /\ 12 + t = 14  BY <2>3
    <3> QED  BY <1>13, <1>14, <1>15, <1>16, <2>3, <3>1
  <2>4. CASE t = 3
    <3>1. 4 + t = 7 /\ 8 + t = 11 /\ 12 + t = 15  BY <2>4
    <3> QED  BY <1>13, <1>14, <1>15, <1>16, <2>4, <3>1
  <2> QED  BY <2>1, <2>2, <2>3, <2>4
<1>20. CASE r = 1
  <2>1. (r - 1) * 4 + t = t  BY <1>20
  <2> QED  BY <1>17, <1>19, <1>20, <2>1
<1>21. CASE r = 2
  <2>1. (r - 1) * 4 + t = 4 + t  BY <1>21
  <2> QED  BY <1>17, <1>19, <1>21, <2>1
<1>22. CASE r = 3
  <2>1. (r - 1) * 4 + t = 8 + t  BY <1>22
  <2> QED  BY <1>17, <1>19, <1>22, <2>1
<1>23. CASE r = 4
  <2>1. (r - 1) * 4 + t = 12 + t  BY <1>23
  <2> QED  BY <1>17, <1>19, <1>23, <2>1
<1> QED  BY <1>20, <1>21, <1>22, <1>23

\* Element i of register r of a transposition, among all its elements in turn.
LEMMA TransposedIs ==
  ASSUME NEW tier \in FftTiers, NEW V, V = Lanes(tier), NEW o,
         \A r \in 1 .. 4 : DOMAIN o[r] = 0 .. V - 1,
         NEW r \in 1 .. 4, NEW i \in 0 .. V - 1, NEW p, p = (r - 1) * V + i
  PROVE  Transposed(tier, o)[r][i] = o[(p % 4) + 1][p \div 4]
<1>1. CASE tier = "neon"
  <2>1. V = 4  BY <1>1, LaneCounts
  <2>2. Transposed(tier, o) = [s \in 1 .. 4 |-> [l \in 0 .. 3 |-> o[l + 1][s - 1]]]
    BY <1>1 DEF Transposed
  <2>3. Transposed(tier, o)[r][i] = o[i + 1][r - 1]  BY <2>1, <2>2
  <2>4. p % 4 = i /\ p \div 4 = r - 1  BY <2>1
  <2> QED  BY <2>3, <2>4
<1>2. ASSUME NEW n \in {2, 4}, V = 4 * n, \A s \in 1 .. 4 : Transposes(Transposed(tier, o)[s], n, s, o)
      PROVE  Transposed(tier, o)[r][i] = o[(p % 4) + 1][p \div 4]
  <2> DEFINE f == Transposed(tier, o)[r]
             t == i \div 4
             j == i % 4
             q == (r - 1) * n + t
  <2>1. t \in 0 .. n - 1 /\ j \in 0 .. 3 /\ i = 4 * t + j
    <3>1. CASE n = 2  BY <1>2, <3>1
    <3>2. CASE n = 4  BY <1>2, <3>2
    <3> QED  BY <3>1, <3>2
  <2>2. Transposes(f, n, r, o)  BY <1>2
  <2>3. p = 4 * q + j /\ q \in Int
    <3> HIDE DEF t, j
    <3>1. (r - 1) * (4 * n) = 4 * ((r - 1) * n)  OBVIOUS
    <3>2. (r - 1) * n \in Int  OBVIOUS
    <3> QED  BY <1>2, <2>1, <3>1, <3>2
  <2> HIDE DEF f, t, j, q
  <2>4. p % 4 = j /\ p \div 4 = q  BY <2>1, <2>3
  <2>5. BlockIs(f, t, o, q)  BY <2>1, <2>2 DEF Transposes, q
  <2>6. f[4 * t + j] = o[j + 1][q]  BY <2>1, <2>5 DEF BlockIs
  <2> QED  BY <2>1, <2>4, <2>6 DEF f
<1>3. CASE tier = "avx2"
  <2>1. V = 8  BY <1>3, LaneCounts
  <2>2. \A s \in 1 .. 4 : Register(o[s], 2)  BY <2>1 DEF Register
  <2> QED  BY <1>2, <1>3, <2>1, <2>2, TransposedPairs
<1>4. CASE tier = "avx512"
  <2>1. V = 16  BY <1>4, LaneCounts
  <2>2. \A s \in 1 .. 4 : Register(o[s], 4)  BY <2>1 DEF Register
  <2> QED  BY <1>2, <1>4, <2>1, <2>2, TransposedQuads
<1> QED  BY <1>1, <1>3, <1>4, LaneCounts

\* Two registers of output take the parts of V neighbours in turn.
LaneOf(V, a, b, h, i, f) == f[h + 1][i] = IF i % 2 = 0 THEN a[(h * V + i) \div 2] ELSE b[(h * V + i) \div 2]

\* The elements of two registers in turn, on every tier.
LEMMA InterleavedIs ==
  ASSUME NEW tier \in FftTiers, NEW V, V = Lanes(tier), NEW a, NEW b, DOMAIN a = 0 .. V - 1,
         NEW h \in 0 .. 1, NEW i \in 0 .. V - 1
  PROVE  LaneOf(V, a, b, h, i, Interleaved(tier, a, b))
<1> SUFFICES Interleaved(tier, a, b)[h + 1][i] = IF i % 2 = 0 THEN a[(h * V + i) \div 2] ELSE b[(h * V + i) \div 2]
  BY DEF LaneOf
<1> DEFINE Dom == 0 .. V - 1
<1>1. CASE tier = "avx2"
  <2>1. V = 8 /\ Dom = 0 .. 7  BY <1>1, LaneCounts
  <2> DEFINE x == Unpack(a, b, 0)
             y == Unpack(a, b, 2)
             at(f, t) == f[t]
  <2>2. /\ x = [l \in Dom |-> (IF (l % 2) = 0 THEN a ELSE b)[4 * (l \div 4) + 0 + (l % 4) \div 2]]
        /\ y = [l \in Dom |-> (IF (l % 2) = 0 THEN a ELSE b)[4 * (l \div 4) + 2 + (l % 4) \div 2]]
    BY DEF Unpack
  <2>3. ASSUME NEW u \in 0 .. 1, NEW sel, sel = <<u, u + 2>>
        PROVE  Blocks(x, y, sel) = [l \in Dom |-> IF l < 4 THEN x[4 * u + l] ELSE y[4 * u + (l - 4)]]
    <3>1. DOMAIN x = Dom  BY <2>2
    <3>2. Len(sel) = 2 /\ sel[1] = u /\ sel[2] = u + 2  BY <2>3
    <3> HIDE DEF x, y
    <3>3. Blocks(x, y, sel) = [l \in Dom |-> LET s == sel[(l \div 4) + 1]
                                           IN  IF s < 2 THEN x[4 * s + (l % 4)] ELSE y[4 * (s - 2) + (l % 4)]]
      BY <3>1, <3>2 DEF Blocks
    <3>4. ASSUME NEW l \in Dom
          PROVE  (LET s == sel[(l \div 4) + 1]
                  IN  IF s < 2 THEN x[4 * s + (l % 4)] ELSE y[4 * (s - 2) + (l % 4)])
                 = IF l < 4 THEN x[4 * u + l] ELSE y[4 * u + (l - 4)]
      <4>1. CASE l < 4
        <5>1. l \div 4 = 0 /\ l % 4 = l  BY <2>1, <4>1
        <5> QED  BY <3>2, <4>1, <5>1
      <4>2. CASE ~(l < 4)
        <5>1. l \div 4 = 1 /\ l % 4 = l - 4  BY <2>1, <4>2
        <5>2. ~(u + 2 < 2) /\ u + 2 - 2 = u  OBVIOUS
        <5> QED  BY <3>2, <4>2, <5>1, <5>2
      <4> QED  BY <4>1, <4>2
    <3> HIDE DEF Dom
    <3> QED  BY <3>3, <3>4
  <2>4. Interleaved(tier, a, b) = <<Blocks(x, y, <<0, 2>>), Blocks(x, y, <<1, 3>>)>>
    BY <1>1 DEF Interleaved
  <2>5. Interleaved(tier, a, b)[h + 1] = Blocks(x, y, <<h, h + 2>>)
    <3> HIDE DEF x, y
    <3>1. h = 0 \/ h = 1  OBVIOUS
    <3> QED  BY <2>4, <3>1
  <2>6. Interleaved(tier, a, b)[h + 1][i] = IF i < 4 THEN x[4 * h + i] ELSE y[4 * h + (i - 4)]
    <3> HIDE DEF x, y, Dom
    <3>1. Blocks(x, y, <<h, h + 2>>) = [l \in Dom |-> IF l < 4 THEN x[4 * h + l] ELSE y[4 * h + (l - 4)]]
      BY <2>3
    <3>2. i \in Dom  BY DEF Dom
    <3> QED  BY <2>5, <3>1, <3>2
  <2>7. CASE i < 4
    <3> DEFINE l == 4 * h + i
    <3>1. l \in Dom /\ l % 2 = i % 2 /\ 4 * (l \div 4) + 0 + (l % 4) \div 2 = (h * 8 + i) \div 2
      <4>1. h = 0 \/ h = 1  OBVIOUS
      <4>2. i = 0 \/ i = 1 \/ i = 2 \/ i = 3  BY <2>1, <2>7
      <4> QED  BY <2>1, <4>1, <4>2
    <3> HIDE DEF x, y, Dom, l
    <3>2. x[l] = (IF (i % 2) = 0 THEN a ELSE b)[(h * 8 + i) \div 2]  BY <2>2, <3>1
    <3> QED  BY <2>1, <2>6, <2>7, <3>2 DEF l
  <2>8. CASE ~(i < 4)
    <3> DEFINE l == 4 * h + (i - 4)
    <3>1. l \in Dom /\ l % 2 = i % 2 /\ 4 * (l \div 4) + 2 + (l % 4) \div 2 = (h * 8 + i) \div 2
      <4>1. h = 0 \/ h = 1  OBVIOUS
      <4>2. i = 4 \/ i = 5 \/ i = 6 \/ i = 7  BY <2>1, <2>8
      <4> QED  BY <2>1, <4>1, <4>2
    <3> HIDE DEF x, y, Dom, l
    <3>2. y[l] = (IF (i % 2) = 0 THEN a ELSE b)[(h * 8 + i) \div 2]  BY <2>2, <3>1
    <3> QED  BY <2>1, <2>6, <2>8, <3>2 DEF l
  <2> QED  BY <2>7, <2>8
<1>2. CASE tier # "avx2"
  <2>1. V = 4 \/ V = 16  BY <1>2, LaneCounts
  <2> DEFINE half(z) == [l \in Dom |-> (IF (l % 2) = 0 THEN a ELSE b)[(l + z) \div 2]]
  <2>2. Interleaved(tier, a, b) = <<half(0), half(V)>>  BY <1>2 DEF Interleaved
  <2>3. Interleaved(tier, a, b)[h + 1] = half(h * V)
    <3>1. \/ h = 0 /\ h * V = 0
          \/ h = 1 /\ h * V = V
      BY <2>1
    <3> HIDE DEF half
    <3> QED  BY <2>2, <3>1
  <2>4. i + h * V = h * V + i  BY <2>1
  <2>5. Interleaved(tier, a, b)[h + 1][i] = (IF (i % 2) = 0 THEN a ELSE b)[(i + h * V) \div 2]  BY <2>3
  <2> QED  BY <2>4, <2>5
<1> QED  BY <1>1, <1>2

-----------------------------------------------------------------------------
(* The plan: its tables are turns *)

\* Stage s has width L.
StageWidth(s, L, W, S) ==
  \/ s = 0 /\ L = 1 /\ W = 256 /\ S = 128
  \/ s = 1 /\ L = 4 /\ W = 64 /\ S = 32
  \/ s = 2 /\ L = 16 /\ W = 16 /\ S = 8
  \/ s = 3 /\ L = 64 /\ W = 4 /\ S = 2

RowStart(s) == IF s = 0 THEN 0 ELSE IF s = 1 THEN 3 ELSE IF s = 2 THEN 15 ELSE 63

\* Entry n of the plan is twiddle k of row i of stage s.
StageRow(s, i, L, W, S, k, n) ==
  StageWidth(s, L, W, S) /\ k < L /\ n = R4Off[s] + (i - 1) * L + k
RowTurned(r4, i, W, k, n) == r4[n] = Turn((i * k) * W)

PlanTables(r4, r2, real) ==
  /\ \A s \in 1 .. 3, i \in 1 .. 3, L \in Nat, W \in Nat, S \in Nat, k \in Nat : \A n :
       StageRow(s, i, L, W, S, k, n) => RowTurned(r4, i, W, k, n)
  /\ \A k \in 0 .. 255 : r2[k] = Turn(2 * k)
  /\ \A k \in 0 .. 511 : real[k] = Turn(k)

\* The stages 0 to 3 have the widths 1, 4, 16 and 64.
LEMMA StageWidths ==
  ASSUME NEW s \in 0 .. 3
  PROVE  \E L \in Nat, W \in Nat, S \in Nat : StageWidth(s, L, W, S) /\ Width(L, W, S) /\ 4 ^ s = L
<1>1. 4 ^ 0 = 1 /\ 4 ^ 1 = 4 /\ 4 ^ 2 = 16 /\ 4 ^ 3 = 64  OBVIOUS
<1>2. s = 0 \/ s = 1 \/ s = 2 \/ s = 3  OBVIOUS
<1>3. CASE s = 0
  <2>1. StageWidth(0, 1, 256, 128) /\ Width(1, 256, 128)  BY DEF StageWidth, Width
  <2> QED  BY <1>1, <1>3, <2>1
<1>4. CASE s = 1
  <2>1. StageWidth(1, 4, 64, 32) /\ Width(4, 64, 32)  BY DEF StageWidth, Width
  <2> QED  BY <1>1, <1>4, <2>1
<1>5. CASE s = 2
  <2>1. StageWidth(2, 16, 16, 8) /\ Width(16, 16, 8)  BY DEF StageWidth, Width
  <2> QED  BY <1>1, <1>5, <2>1
<1>6. CASE s = 3
  <2>1. StageWidth(3, 64, 4, 2) /\ Width(64, 4, 2)  BY DEF StageWidth, Width
  <2> QED  BY <1>1, <1>6, <2>1
<1> QED  BY <1>2, <1>3, <1>4, <1>5, <1>6

\* Where the plan's table has each stage's rows: after those of all stages before.
LEMMA RowStarts == \A s \in 0 .. 3 : R4Off[s] = RowStart(s)
<1> DEFINE t == [r \in Nat |-> 3 * 4 ^ r]
<1>1. 4 ^ 0 = 1 /\ 4 ^ 1 = 4 /\ 4 ^ 2 = 16  OBVIOUS
<1>2. t[0] = 3 /\ t[1] = 12 /\ t[2] = 48
  <2>1. 0 \in Nat /\ 1 \in Nat /\ 2 \in Nat  OBVIOUS
  <2>2. t[0] = 3 * 4 ^ 0 /\ t[1] = 3 * 4 ^ 1 /\ t[2] = 3 * 4 ^ 2  BY <2>1
  <2> HIDE DEF t
  <2> QED  BY <1>1, <2>2
<1>3. \A s \in 0 .. 3 : R4Off[s] = SumTo(s, t)  BY DEF R4Off
<1> HIDE DEF t
<1>4. SumTo(0, t) = 0  BY SumToStep
<1>5. SumTo(0 + 1, t) = SumTo(0, t) + t[0]  BY SumToStep
<1>6. SumTo(1 + 1, t) = SumTo(1, t) + t[1]  BY SumToStep
<1>7. SumTo(2 + 1, t) = SumTo(2, t) + t[2]  BY SumToStep
<1>8. SumTo(1, t) = 3  BY <1>2, <1>4, <1>5
<1>9. SumTo(2, t) = 15  BY <1>2, <1>6, <1>8
<1>10. SumTo(3, t) = 63  BY <1>2, <1>7, <1>9
<1>11. \A s \in 0 .. 3 : s = 0 \/ s = 1 \/ s = 2 \/ s = 3  OBVIOUS
<1> QED  BY <1>3, <1>4, <1>8, <1>9, <1>10, <1>11 DEF RowStart

\* Every row of stage s lies within the stage's span.
LEMMA RowSpan ==
  ASSUME NEW s \in 0 .. 3, NEW i \in Nat, RowStart(s) <= i, i < RowStart(s) + 3 * 4 ^ s
  PROVE  R4Stage(i) = s
<1>1. 4 ^ 0 = 1 /\ 4 ^ 1 = 4 /\ 4 ^ 2 = 16 /\ 4 ^ 3 = 64  OBVIOUS
<1> DEFINE In(u) == R4Off[u] <= i /\ i < R4Off[u] + 3 * 4 ^ u
<1>2. \A u \in 0 .. 3 : In(u) <=> RowStart(u) <= i /\ i < RowStart(u) + 3 * 4 ^ u  BY RowStarts
<1>3. In(s)  BY <1>2
<1>4. ASSUME NEW u \in 0 .. 3, In(u) PROVE u = s
  <2> DEFINE Ends(v) == RowStart(v) + 3 * 4 ^ v
  <2>1. RowStart(u) <= i /\ i < RowStart(u) + 3 * 4 ^ u  BY <1>2, <1>4
  <2>2. u = 0 \/ u = 1 \/ u = 2 \/ u = 3  OBVIOUS
  <2>3. s = 0 \/ s = 1 \/ s = 2 \/ s = 3  OBVIOUS
  <2>4. RowStart(0) = 0 /\ RowStart(1) = 3 /\ RowStart(2) = 15 /\ RowStart(3) = 63  BY DEF RowStart
  <2>5. Ends(0) = 3 /\ Ends(1) = 15 /\ Ends(2) = 63 /\ Ends(3) = 255  BY <1>1, <2>4
  <2>6. RowStart(s) <= i /\ i < Ends(s) /\ RowStart(u) <= i /\ i < Ends(u)  BY <2>1
  <2> HIDE DEF Ends
  <2>7. CASE s = 0  BY <2>2, <2>4, <2>5, <2>6, <2>7
  <2>8. CASE s = 1  BY <2>2, <2>4, <2>5, <2>6, <2>8
  <2>9. CASE s = 2  BY <2>2, <2>4, <2>5, <2>6, <2>9
  <2>10. CASE s = 3  BY <2>2, <2>4, <2>5, <2>6, <2>10
  <2> QED  BY <2>3, <2>7, <2>8, <2>9, <2>10
<1>5. R4Stage(i) = CHOOSE u \in 0 .. 3 : In(u)  BY DEF R4Stage
<1> HIDE DEF In
<1> QED  BY <1>3, <1>4, <1>5

RowIs(s, i, L, W, k, n) ==
  /\ n \in 0 .. 254 /\ R4Stage(n) = s /\ 4 ^ s = L
  /\ (n - R4Off[s]) \div L + 1 = i /\ (n - R4Off[s]) % L = k
  /\ FFT_N \div (4 * L) = W

\* Entry n of the plan's radix-4 table belongs to the stage, row and column that
\* the kernels take it for.
LEMMA PlanRow ==
  ASSUME NEW s \in 1 .. 3, NEW i \in 1 .. 3, NEW L \in Nat, NEW W \in Nat, NEW S \in Nat, NEW k \in Nat,
         NEW n, StageRow(s, i, L, W, S, k, n)
  PROVE  RowIs(s, i, L, W, k, n)
<1>0. StageWidth(s, L, W, S) /\ k < L /\ n = R4Off[s] + (i - 1) * L + k  BY DEF StageRow
<1> DEFINE f == (i - 1) * L + k
<1>1. 4 ^ s = L
  <2>1. 4 ^ 0 = 1 /\ 4 ^ 1 = 4 /\ 4 ^ 2 = 16 /\ 4 ^ 3 = 64  OBVIOUS
  <2>2. \/ s = 1 /\ L = 4
        \/ s = 2 /\ L = 16
        \/ s = 3 /\ L = 64
    BY <1>0 DEF StageWidth
  <2> QED  BY <2>1, <2>2
<1>2. R4Off[s] = RowStart(s) /\ s \in 0 .. 3  BY RowStarts
<1>3. f \in 0 .. 3 * L - 1 /\ f \div L + 1 = i /\ f % L = k /\ FFT_N \div (4 * L) = W
  <2>1. i = 1 \/ i = 2 \/ i = 3  OBVIOUS
  <2>2. f = IF i = 1 THEN k ELSE IF i = 2 THEN L + k ELSE 2 * L + k  BY <2>1
  <2> HIDE DEF f
  <2>3. CASE L = 4 /\ W = 64  BY <1>0, <2>1, <2>2, <2>3 DEF FFT_N
  <2>4. CASE L = 16 /\ W = 16  BY <1>0, <2>1, <2>2, <2>4 DEF FFT_N
  <2>5. CASE L = 64 /\ W = 4  BY <1>0, <2>1, <2>2, <2>5 DEF FFT_N
  <2> QED  BY <1>0, <2>3, <2>4, <2>5 DEF StageWidth
<1>4. n = RowStart(s) + f /\ n - R4Off[s] = f
  <2>1. RowStart(s) \in Int  BY DEF RowStart
  <2> QED  BY <1>0, <1>2, <2>1
<1> HIDE DEF f
<1>5. RowStart(s) <= n /\ n < RowStart(s) + 3 * L /\ n \in 0 .. 254
  <2>1. \/ s = 1 /\ L = 4 /\ RowStart(s) = 3
        \/ s = 2 /\ L = 16 /\ RowStart(s) = 15
        \/ s = 3 /\ L = 64 /\ RowStart(s) = 63
    BY <1>0 DEF StageWidth, RowStart
  <2> QED  BY <1>3, <1>4, <2>1
<1>6. R4Stage(n) = s
  <2>1. n \in Nat /\ RowStart(s) <= n /\ n < RowStart(s) + 3 * 4 ^ s  BY <1>1, <1>5
  <2> QED  BY <1>2, <2>1, RowSpan, Zenon
<1> QED  BY <1>1, <1>3, <1>4, <1>5, <1>6 DEF RowIs

\* A twiddle is a turn.
LEMMA TwiddleTurn ==
  ASSUME NEW num \in Int, NEW den, NEW w, w = FFT_N \div den
  PROVE  Twiddle(num, den) = Turn(num * w)
BY DEF Twiddle, Turn

\* What the plan computes are the turns that the kernels mean.
LEMMA PlanMade ==
  ASSUME NEW r4, NEW r2, NEW real,
         r4 = [i \in 0 .. 254 |-> LET L == 4 ^ R4Stage(i)
                                      e == i - R4Off[R4Stage(i)]
                                  IN  Twiddle((e \div L + 1) * (e % L), 4 * L)],
         r2 = [k \in 0 .. FFT_HALF \div 2 - 1 |-> Twiddle(k, FFT_HALF)],
         real = [k \in 0 .. FFT_HALF - 1 |-> Twiddle(k, FFT_N)]
  PROVE  PlanTables(r4, r2, real)
<1>1. ASSUME NEW s \in 1 .. 3, NEW i \in 1 .. 3, NEW L \in Nat, NEW W \in Nat, NEW S \in Nat, NEW k \in Nat,
             NEW n, StageRow(s, i, L, W, S, k, n)
      PROVE  r4[n] = Turn((i * k) * W)
  <2>1. RowIs(s, i, L, W, k, n)  BY <1>1, PlanRow
  <2>2. /\ n \in 0 .. 254 /\ R4Stage(n) = s /\ 4 ^ s = L
        /\ (n - R4Off[s]) \div L + 1 = i /\ (n - R4Off[s]) % L = k
        /\ FFT_N \div (4 * L) = W
    BY <2>1 DEF RowIs
  <2>3. r4[n] = Twiddle(((n - R4Off[R4Stage(n)]) \div 4 ^ R4Stage(n) + 1) * ((n - R4Off[R4Stage(n)]) % 4 ^ R4Stage(n)),
                        4 * 4 ^ R4Stage(n))
    BY <2>2, Zenon
  <2>4. r4[n] = Twiddle(i * k, 4 * L)  BY <2>2, <2>3, Zenon
  <2> DEFINE u == i * k
  <2>5. u \in Int  OBVIOUS
  <2> HIDE DEF u
  <2>6. Twiddle(u, 4 * L) = Turn(u * W)  BY <2>2, <2>5, TwiddleTurn
  <2> QED  BY <2>4, <2>6, Zenon DEF u
<1>2. ASSUME NEW k \in 0 .. 255 PROVE r2[k] = Turn(2 * k)
  <2>1. r2[k] = Twiddle(k, FFT_HALF)  BY DEF FFT_HALF
  <2>2. FFT_N \div FFT_HALF = 2 /\ k \in Int  BY DEF FFT_N, FFT_HALF
  <2>3. Twiddle(k, FFT_HALF) = Turn(k * 2)  BY <2>2, TwiddleTurn
  <2>4. k * 2 = 2 * k  OBVIOUS
  <2> QED  BY <2>1, <2>3, <2>4
<1>3. ASSUME NEW k \in 0 .. 511 PROVE real[k] = Turn(k)
  <2>1. real[k] = Twiddle(k, FFT_N)  BY DEF FFT_HALF
  <2>2. FFT_N \div FFT_N = 1 /\ k \in Int  BY DEF FFT_N
  <2>3. Twiddle(k, FFT_N) = Turn(k * 1)  BY <2>2, TwiddleTurn
  <2>4. k * 1 = k  OBVIOUS
  <2> QED  BY <2>1, <2>3, <2>4, SMTT(30)
<1> QED  BY <1>1, <1>2, <1>3, Zenon DEF PlanTables, RowTurned

-----------------------------------------------------------------------------
(* The radix-4 stages on a buffer *)

BufferAt(c, L, b) == \A e \in 0 .. 511 : b[e] = Column(c, L, e)

\* Input i of the butterfly at g, turned; the first is not.
Turned(in, g, i, W, k) == CMul(in[g + 128 * i], Turn((i * k) * W))
StageQuads(in, quad, L, W) ==
  \A g \in 0 .. 127 :
    quad[g] = Butterfly(in[g], Turned(in, g, 1, W, g % L), Turned(in, g, 2, W, g % L), Turned(in, g, 3, W, g % L))

QuadOut(quad, L, e) == quad[(e \div (4 * L)) * L + (e % L)][(e % (4 * L)) \div L + 1]

QuadDone(c, quad, L, e) == QuadOut(quad, L, e) = Column(c, 4 * L, e)

\* A radix-4 stage as a whole: if its butterflies take their inputs from a buffer
\* of width L, with the twiddles of L, they leave one of width 4L.
LEMMA StageOutput ==
  ASSUME NEW c \in Calls, c.family = "fft",
         NEW L \in Nat, NEW W \in Nat, NEW S \in Nat, Width(L, W, S),
         NEW in, BufferAt(c, L, in), NEW quad, StageQuads(in, quad, L, W), NEW e \in 0 .. 511
  PROVE  QuadDone(c, quad, L, e)
<1>1. PICK b \in Nat, q \in 0 .. 3, k \in Nat, g \in 0 .. 127 : Grid(L, S, e, b, q, k, g)  BY GridExists, Zenon
<1>2. (e \div (4 * L)) * L + (e % L) = g /\ (e % (4 * L)) \div L = q /\ g % L = k
  BY <1>1 DEF Grid, GridHead
<1>3. QuadOut(quad, L, e) = quad[g][q + 1]  BY <1>2, Zenon DEF QuadOut
<1> DEFINE x == [i \in 0 .. 3 |-> Turned(in, g, i, W, k)]
<1>4. \A i \in 0 .. 3 : g + 128 * i \in 0 .. 511  BY <1>1 DEF Grid, GridInput
<1>5. \A i \in 0 .. 3 : in[g + 128 * i] = Column(c, L, g + 128 * i)  BY <1>4 DEF BufferAt
<1>6. StageInputs(x, c, L, W, g, k)
  <2>1. \A i \in 0 .. 3 : x[i] = CMul(in[g + 128 * i], Turn((i * k) * W))  BY DEF Turned
  <2> HIDE DEF x
  <2> QED  BY <1>5, <2>1 DEF StageInputs
<1>7. x[0] = in[g]
  <2>1. x[0] = Turned(in, g, 0, W, k)  OBVIOUS
  <2>2. g + 128 * 0 = g /\ (0 * k) * W = 0  OBVIOUS
  <2>3. x[0] = CMul(in[g], Turn(0))  BY <2>1, <2>2, Zenon DEF Turned
  <2>4. in[g] \in Complex
    <3>1. L > 0 /\ L <= 512  BY DEF Width
    <3>2. g \in 0 .. 511  OBVIOUS
    <3>3. in[g] = Column(c, L, g)  BY <3>2 DEF BufferAt
    <3> QED  BY <3>1, <3>2, <3>3, PartsComplex, ZenonT(40)
  <2>5. <<1, 0>> \in Complex /\ Turn(0) = <<1, 0>>  BY UnitComplex, TurnSteps
  <2> HIDE DEF x
  <2> QED  BY <2>3, <2>4, <2>5, ProductCommutes
<1>8. quad[g] = Butterfly(in[g], Turned(in, g, 1, W, k), Turned(in, g, 2, W, k), Turned(in, g, 3, W, k))
  BY <1>2 DEF StageQuads
<1>9. quad[g][q + 1] = Output(x, q)
  <2>1. x[1] = Turned(in, g, 1, W, k) /\ x[2] = Turned(in, g, 2, W, k) /\ x[3] = Turned(in, g, 3, W, k)
    OBVIOUS
  <2> HIDE DEF x
  <2> QED  BY <1>7, <1>8, <2>1, Zenon DEF Output, ButterflyOf
<1> HIDE DEF x
<1>10. Output(x, q) = Column(c, 4 * L, e)
  <2>1. StageDone(c, L, x, q, e)  BY <1>1, <1>6, RadixFourSum, ZenonT(40)
  <2> QED  BY <2>1, Zenon DEF StageDone
<1> QED  BY <1>3, <1>9, <1>10, Zenon DEF QuadDone

CellIs(V, r, i, p) == p = (r - 1) * V + i
CellOf(tier, o, r, i, p) == Transposed(tier, o)[r][i] = o[(p % 4) + 1][p \div 4]
Registers(o, V) == \A r \in 1 .. 4 : DOMAIN o[r] = 0 .. V - 1

\* TransposedIs, for a place that is given by an equation.
LEMMA TransposedCell ==
  ASSUME NEW tier \in FftTiers, NEW V, V = Lanes(tier), NEW o, Registers(o, V),
         NEW r \in 1 .. 4, NEW i \in 0 .. V - 1, NEW p, CellIs(V, r, i, p)
  PROVE  CellOf(tier, o, r, i, p)
BY TransposedIs DEF Registers, CellIs, CellOf

StoredRows(tier, V, quad, rows) ==
  rows = [g \in 0 .. 128 \div V - 1 |->
            Transposed(tier, [q \in 1 .. 4 |-> [i \in 0 .. V - 1 |-> quad[g * V + i][q]]])]
QuadStored(V, quad, rows, e) ==
  rows[e \div (4 * V)][(e % (4 * V)) \div V + 1][e % V] = quad[e \div 4][(e % 4) + 1]

\* Where the transposed registers of stage 0 put output e.
LEMMA StoredAt ==
  ASSUME NEW tier \in FftTiers, NEW V, V = Lanes(tier), NEW quad, NEW e \in 0 .. 511,
         NEW rows, StoredRows(tier, V, quad, rows)
  PROVE  QuadStored(V, quad, rows, e)
<1> DEFINE m == e \div (4 * V)
           f == e % (4 * V)
           r == f \div V + 1
           i == e % V
           o == [q \in 1 .. 4 |-> [l \in 0 .. V - 1 |-> quad[m * V + l][q]]]
<1>1. /\ m \in 0 .. 128 \div V - 1 /\ f \in 0 .. 4 * V - 1 /\ r \in 1 .. 4 /\ i \in 0 .. V - 1
      /\ f = (r - 1) * V + i /\ f \div 4 \in 0 .. V - 1 /\ m * V + f \div 4 = e \div 4 /\ f % 4 = e % 4
  <2>1. CASE V = 4
    <3>1. e = 16 * m + f /\ f \in 0 .. 15 /\ m \in 0 .. 31  BY <2>1
    <3>2. i = e % 4  BY <2>1
    <3>3. r = f \div 4 + 1  BY <2>1
    <3> HIDE DEF m, f, r, i
    <3> QED  BY <2>1, <3>1, <3>2, <3>3
  <2>2. CASE V = 8
    <3>1. e = 32 * m + f /\ f \in 0 .. 31 /\ m \in 0 .. 15  BY <2>2
    <3>2. i = e % 8  BY <2>2
    <3>3. r = f \div 8 + 1  BY <2>2
    <3> HIDE DEF m, f, r, i
    <3> QED  BY <2>2, <3>1, <3>2, <3>3
  <2>3. CASE V = 16
    <3>1. e = 64 * m + f /\ f \in 0 .. 63 /\ m \in 0 .. 7  BY <2>3
    <3>2. i = e % 16  BY <2>3
    <3>3. r = f \div 16 + 1  BY <2>3
    <3> HIDE DEF m, f, r, i
    <3> QED  BY <2>3, <3>1, <3>2, <3>3
  <2> HIDE DEF m, f, r, i
  <2> QED  BY <2>1, <2>2, <2>3, LaneCounts
<1> HIDE DEF m, f, r, i
<1>2. rows[m] = Transposed(tier, o)  BY <1>1 DEF StoredRows
<1>3. Registers(o, V)  BY DEF Registers
<1>4. \A q \in 1 .. 4, l \in 0 .. V - 1 : o[q][l] = quad[m * V + l][q]  OBVIOUS
<1> HIDE DEF o
<1>5. Transposed(tier, o)[r][i] = o[(f % 4) + 1][f \div 4]
  <2>1. CellIs(V, r, i, f)  BY <1>1 DEF CellIs
  <2>2. CellOf(tier, o, r, i, f)  BY <1>1, <1>3, <2>1, TransposedCell
  <2> QED  BY <2>2 DEF CellOf
<1>6. (f % 4) + 1 \in 1 .. 4  BY <1>1
<1>7. o[(f % 4) + 1][f \div 4] = quad[m * V + f \div 4][(f % 4) + 1]  BY <1>1, <1>4, <1>6
<1>8. rows[m][r][i] = quad[e \div 4][(e % 4) + 1]  BY <1>1, <1>2, <1>5, <1>7
<1> QED  BY <1>8 DEF QuadStored, m, f, r, i

-----------------------------------------------------------------------------
(* How far a transform has come *)

\* What a transform is given, and what it must leave.
InputOf(c, x) ==
  IF c.op = "forward" THEN \A n \in 0 .. 1023 : x[n] = <<SampleOf(c, n), 0>>
  ELSE \A k \in 0 .. 512 : x[k] = BinOf(c, k)
Completed(c, b) ==
  IF c.op = "forward" THEN \A k \in 0 .. 512 : b[k] = BinOf(c, k)
  ELSE \A n \in 0 .. 1023 : b[n] = Fld(1024 * SampleOf(c, n))
WidthOf(p) ==
  CASE p = 0 -> 1 [] p = 1 -> 4 [] p = 2 -> 16 [] p = 3 -> 64 [] p = 4 -> 256 [] OTHER -> 512

\* What the memory holds at each stage: before pass p of the loop, a buffer of
\* width WidthOf(p).
FftAt(c, st, p, m) ==
  \/ st = "packed"
  \/ st = "loaded" /\ PlanTables(m.r4, m.r2, m.real) /\ InputOf(c, m.x)
  \/ st = "loop" /\ p \in 0 .. 5 /\ PlanTables(m.r4, m.r2, m.real) /\ BufferAt(c, WidthOf(p), m.buf)
  \/ st = "done" /\ Completed(c, m.buf)

FftCall == call \in Calls /\ call.family = "fft"

\* The rest of the buffers stays while buf is b.
LEMMA LoopStep ==
  ASSUME NEW b, FftContinues("loop", pos', b), pos' \in 0 .. 5,
         stage = "loaded" \/ stage = "loop", FftAt(call, stage, pos, mem), BufferAt(call, WidthOf(pos'), b)
  PROVE  FftAt(call', stage', pos', mem')
<1>1. PlanTables(mem.r4, mem.r2, mem.real)  BY DEF FftAt
<1>2. /\ stage' = "loop" /\ call' = call
      /\ mem' = [r4 |-> mem.r4, r2 |-> mem.r2, real |-> mem.real, x |-> mem.x, buf |-> b]
  BY DEF FftContinues, Continues
<1>3. mem'.r4 = mem.r4 /\ mem'.r2 = mem.r2 /\ mem'.real = mem.real /\ mem'.buf = b  BY <1>2
<1>4. PlanTables(mem'.r4, mem'.r2, mem'.real)  BY <1>1, <1>3
<1>5. BufferAt(call', WidthOf(pos'), mem'.buf)  BY <1>2, <1>3
<1> QED  BY <1>2, <1>4, <1>5 DEF FftAt

\* fe_fft_create: the plan has the twiddles and the call its signal or its bins.
LEMMA FftPlans ==
  ASSUME FftInit, FftCall
  PROVE  FftAt(call', stage', pos', mem')
<1> DEFINE r4 == [i \in 0 .. 254 |-> LET L == 4 ^ R4Stage(i)
                                         e == i - R4Off[R4Stage(i)]
                                     IN  Twiddle((e \div L + 1) * (e % L), 4 * L)]
           r2 == [k \in 0 .. FFT_HALF \div 2 - 1 |-> Twiddle(k, FFT_HALF)]
           real == [k \in 0 .. FFT_HALF - 1 |-> Twiddle(k, FFT_N)]
           x == IF call.op = "forward" THEN [n \in 0 .. FFT_N - 1 |-> <<Signal(n), 0>>]
                ELSE [k \in 0 .. FFT_HALF |-> Dft(k)]
<1>1. /\ stage' = "loaded" /\ call' = call
      /\ mem' = [r4 |-> r4, r2 |-> r2, real |-> real, x |-> x]
  BY Zenon DEF FftInit, Continues
<1>2. PlanTables(r4, r2, real)  BY PlanMade, Zenon
<1>3. InputOf(call, x)
  <2>1. \A n : Signal(n) = SampleOf(call, n)  BY DEF Signal, SampleOf
  <2>2. \A k : Dft(k) = BinOf(call, k)  BY Zenon DEF Dft, BinOf
  <2>3. CASE call.op = "forward"
    <3>2. x = [n \in 0 .. FFT_N - 1 |-> <<Signal(n), 0>>]  BY <2>3
    <3>3. 0 .. FFT_N - 1 = 0 .. 1023  BY DEF FFT_N
    <3> HIDE DEF x
    <3>1. \A n \in 0 .. 1023 : x[n] = <<Signal(n), 0>>  BY <3>2, <3>3, ZenonT(40)
    <3> QED  BY <2>1, <2>3, <3>1, ZenonT(40) DEF InputOf
  <2>4. CASE call.op # "forward"
    <3>1. \A k \in 0 .. 512 : x[k] = Dft(k)  BY <2>4 DEF FFT_HALF
    <3> HIDE DEF x
    <3> QED  BY <2>2, <2>4, <3>1 DEF InputOf
  <2> QED  BY <2>3, <2>4
<1> HIDE DEF r4, r2, real, x
<1>4. mem'.r4 = r4 /\ mem'.r2 = r2 /\ mem'.real = real /\ mem'.x = x  BY <1>1
<1>5. PlanTables(mem'.r4, mem'.r2, mem'.real) /\ InputOf(call', mem'.x)  BY <1>1, <1>2, <1>3, <1>4
<1> QED  BY <1>1, <1>5 DEF FftAt

PartIs(V, x, o, k) ==
  Deinterleaved(call.tier, Load(x, 2 * V * (k \div V)), Load(x, 2 * V * (k \div V) + V), o)[k % V]
  = x[2 * k + o]

\* Two registers of input give up their evens and their odds.
LEMMA PackedPart ==
  ASSUME NEW V, V = Lanes(call.tier), call.tier \in FftTiers, NEW x, NEW o \in 0 .. 1, NEW k \in 0 .. 511
  PROVE  PartIs(V, x, o, k)
<1> SUFFICES Deinterleaved(call.tier, Load(x, 2 * V * (k \div V)), Load(x, 2 * V * (k \div V) + V), o)[k % V]
             = x[2 * k + o]
  BY DEF PartIs
<1> DEFINE h == 2 * V * (k \div V)
           i == k % V
           a == Load(x, h)
           b == Load(x, h + V)
           j == 2 * i + o
<1>1. i \in 0 .. V - 1 /\ j \in 0 .. 2 * V - 1 /\ h + j = 2 * k + o /\ h \in Int /\ V \in Nat
  <2>1. CASE V = 4
    <3>1. k = 4 * (k \div 4) + (k % 4) /\ k % 4 \in 0 .. 3  OBVIOUS
    <3>2. h = 8 * (k \div 4) /\ i = k % 4  BY <2>1
    <3> HIDE DEF h, i
    <3> QED  BY <2>1, <3>1, <3>2
  <2>2. CASE V = 8
    <3>1. k = 8 * (k \div 8) + (k % 8) /\ k % 8 \in 0 .. 7  OBVIOUS
    <3>2. h = 16 * (k \div 8) /\ i = k % 8  BY <2>2
    <3> HIDE DEF h, i
    <3> QED  BY <2>2, <3>1, <3>2
  <2>3. CASE V = 16
    <3>1. k = 16 * (k \div 16) + (k % 16) /\ k % 16 \in 0 .. 15  OBVIOUS
    <3>2. h = 32 * (k \div 16) /\ i = k % 16  BY <2>3
    <3> HIDE DEF h, i
    <3> QED  BY <2>3, <3>1, <3>2
  <2> HIDE DEF h, i, j
  <2> QED  BY <2>1, <2>2, <2>3, LaneCounts
<1> HIDE DEF h, i
<1>2. a = [l \in 0 .. V - 1 |-> x[h + l]] /\ b = [l \in 0 .. V - 1 |-> x[(h + V) + l]]  BY DEF Load
<1> HIDE DEF a, b
<1>3. DOMAIN a = 0 .. V - 1  BY <1>2
<1>4. Deinterleaved(call.tier, a, b, o)[i] = IF j < V THEN a[j] ELSE b[j - V]
  <2>1. PairsOf(V, a, b, o, i, Deinterleaved(call.tier, a, b, o))  BY <1>1, <1>3, DeinterleavedIs
  <2>2. Deinterleaved(call.tier, a, b, o)[i] = IF 2 * i + o < V THEN a[2 * i + o] ELSE b[2 * i + o - V]
    BY <2>1 DEF PairsOf
  <2>3. 2 * i + o - V = j - V  BY <1>1
  <2> QED  BY <2>2, <2>3
<1>5. CASE j < V
  <2>1. a[j] = x[h + j]  BY <1>1, <1>2, <1>5
  <2> QED  BY <1>1, <1>4, <1>5, <2>1 DEF a, b, h, i
<1>6. CASE ~(j < V)
  <2> DEFINE l == j - V
  <2>3. l \in 0 .. V - 1  BY <1>1, <1>6
  <2>1. b[l] = x[(h + V) + l]
    <3> HIDE DEF l
    <3> QED  BY <1>2, <2>3
  <2>2. (h + V) + (j - V) = h + j  BY <1>1
  <2> QED  BY <1>1, <1>4, <1>6, <2>1, <2>2 DEF a, b, h, i
<1> QED  BY <1>5, <1>6

\* A forward transform packs the even and the odd samples as a buffer of width 1.
LEMMA FftPacks ==
  ASSUME FftPackReal, FftCall, FftAt(call, stage, pos, mem)
  PROVE  FftAt(call', stage', pos', mem')
<1> DEFINE V == Lanes(call.tier)
           part(k, o) == Deinterleaved(call.tier, Load(mem.x, 2 * V * (k \div V)),
                                       Load(mem.x, 2 * V * (k \div V) + V), o)[k % V][1]
           b == [k \in 0 .. FFT_HALF - 1 |-> <<part(k, 0), part(k, 1)>>]
<1>1. call.op = "forward" /\ stage = "loaded" /\ FftContinues("loop", 0, b)  BY DEF FftPackReal
<1>2. call.tier \in FftTiers  BY CallSources DEF FftCall, FftTiers
<1>3. InputOf(call, mem.x)  BY <1>1 DEF FftAt
<1>4. ASSUME NEW k \in 0 .. 511 PROVE b[k] = Column(call, 1, k)
  <2>7. k \in 0 .. FFT_HALF - 1  BY DEF FFT_HALF
  <2>1. b[k] = <<part(k, 0), part(k, 1)>>  BY <2>7, Zenon
  <2>2. part(k, 0) = mem.x[2 * k + 0][1] /\ part(k, 1) = mem.x[2 * k + 1][1]
    <3>1. 0 \in 0 .. 1 /\ 1 \in 0 .. 1  OBVIOUS
    <3>2. PartIs(V, mem.x, 0, k) /\ PartIs(V, mem.x, 1, k)  BY <1>2, <3>1, PackedPart
    <3> QED  BY <3>2, Zenon DEF PartIs
  <2> HIDE DEF b, part
  <2>3. 2 * k + 0 = 2 * k /\ 2 * k \in 0 .. 1023 /\ 2 * k + 1 \in 0 .. 1023  OBVIOUS
  <2>4. \A n \in 0 .. 1023 : mem.x[n][1] = SampleOf(call, n)  
    <3>1. \A n \in 0 .. 1023 : mem.x[n] = <<SampleOf(call, n), 0>>  BY <1>1, <1>3, ZenonT(40) DEF InputOf
    <3>2. \A u : <<u, 0>>[1] = u  OBVIOUS
    <3> QED  BY <3>1, <3>2, ZenonT(40)
  <2>5. mem.x[2 * k + 0][1] = SampleOf(call, 2 * k) /\ mem.x[2 * k + 1][1] = SampleOf(call, 2 * k + 1)
    BY <2>3, <2>4, ZenonT(40)
  <2>6. Column(call, 1, k) = <<SampleOf(call, 2 * k), SampleOf(call, 2 * k + 1)>>
    BY <1>1, PackedStart DEF FftCall
  <2> QED  BY <2>1, <2>2, <2>5, <2>6
<1> HIDE DEF b
<1>5. pos' = 0 /\ WidthOf(pos') = 1  BY <1>1 DEF FftContinues, Continues, WidthOf
<1>6. BufferAt(call, WidthOf(pos'), b)  BY <1>4, <1>5 DEF BufferAt
<1> QED  BY <1>1, <1>5, <1>6, LoopStep

-----------------------------------------------------------------------------
(* The passes over the packed halves *)

\* Half a turn is -1, so that whole multiples of it are real.
LEMMA HalfTurns ==
  /\ Turn(512) = <<8190, 0>>
  /\ \A n \in Int : Turn(512 * n)[2] = 0 /\ Turn(0 * n)[2] = 0
<1>1. Turn(512) = <<8190, 0>>
  <2>1. 256 \in Int /\ 256 + 256 = 512  OBVIOUS
  <2>2. Turn(256 + 256) = CMul(Turn(256), Turn(256))  BY <2>1, TurnsAdd
  <2>3. Turn(256) = <<0, 8190>>  BY TurnSteps
  <2>4. CMul(<<0, 8190>>, <<0, 8190>>) = <<8190, 0>>  BY RootSquares
  <2> QED  BY <2>1, <2>2, <2>3, <2>4
<1>2. Turn(0) = <<1, 0>>  BY TurnSteps
<1>3. ASSUME NEW n \in Int PROVE Turn(512 * n)[2] = 0
  <2>1. \/ (512 * n) % 1024 = 0 % 1024
        \/ (512 * n) % 1024 = 512 % 1024
    OBVIOUS
  <2>2. Turn(512 * n) = Turn(0) \/ Turn(512 * n) = Turn(512)  BY <2>1 DEF Turn, FFT_N
  <2> QED  BY <1>1, <1>2, <2>2
<1>4. ASSUME NEW n \in Int PROVE Turn(0 * n)[2] = 0
  <2>1. 0 * n = 0  OBVIOUS
  <2> QED  BY <1>2, <2>1
<1> QED  BY <1>1, <1>3, <1>4

\* The first bin and the last are real.
LEMMA RealBins ==
  ASSUME NEW c \in Calls, c.family = "fft"
  PROVE  BinOf(c, 0)[2] = 0 /\ BinOf(c, 512)[2] = 0
<1> DEFINE N == Len(c.at)
           t(k) == [j \in Nat |-> c.amp[j + 1] * Twiddle(c.at[j + 1] * k, FFT_N)[2]]
<1>1. N \in Nat  BY CallSources
<1>2. ASSUME NEW k \in {0, 512} PROVE BinOf(c, k)[2] = 0
  <2>1. ASSUME NEW j \in 0 .. N - 1 PROVE t(k)[j] \in 0 .. 0
    <3> DEFINE n == c.at[j + 1]
               a == c.amp[j + 1]
    <3>1. j \in Nat /\ n \in 0 .. 1023 /\ a \in Int  BY CallSources
    <3>2. t(k)[j] = a * Twiddle(n * k, FFT_N)[2]  BY <3>1
    <3>7. n \in Int
      <4> DEFINE P == 0 .. 1023
      <4>1. \A m \in P : m \in Int  OBVIOUS
      <4>2. n \in P  BY <3>1
      <4> HIDE DEF P, n
      <4> QED  BY <4>1, <4>2
    <3> HIDE DEF n, a, t
    <3>3. Twiddle(n * k, FFT_N) = Turn(n * k)
      <4> DEFINE m == n * k
      <4>1. m \in Int  BY <3>7
      <4>2. FFT_N \div FFT_N = 1  BY DEF FFT_N
      <4> HIDE DEF m
      <4>3. Twiddle(m, FFT_N) = Turn(m * 1)  BY <4>1, <4>2, TwiddleTurn
      <4>4. m * 1 = m  BY <4>1
      <4> QED  BY <4>3, <4>4 DEF m
    <3>4. n * k = 0 * n \/ n * k = 512 * n
      <4>1. \A m \in Int : m * 0 = 0 * m  OBVIOUS
      <4>2. \A m \in Int : m * 512 = 512 * m  OBVIOUS
      <4>4. n * 0 = 0 * n  BY <3>7, <4>1
      <4>5. n * 512 = 512 * n  BY <3>7, <4>2
      <4>6. CASE k = 0  BY <4>4, <4>6
      <4>7. CASE k = 512  BY <4>5, <4>7
      <4> QED  BY <4>6, <4>7
    <3>5. Turn(n * k)[2] = 0
      <4>2. Turn(512 * n)[2] = 0 /\ Turn(0 * n)[2] = 0  BY <3>7, HalfTurns
      <4> QED  BY <3>4, <4>2, Zenon
    <3>6. t(k)[j] = a * 0  BY <3>2, <3>3, <3>5, Zenon
    <3> QED  BY <3>1, <3>6
  <2>2. BinOf(c, k)[2] = Fld(SumTo(N, t(k)))  BY DEF BinOf
  <2> HIDE DEF t, N
  <2>3. 0 \in Int /\ N * 0 = 0  BY <1>1
  <2>4. N * 0 <= SumTo(N, t(k)) /\ SumTo(N, t(k)) <= N * 0 /\ SumTo(N, t(k)) \in Int
    BY <1>1, <2>1, <2>3, SumToBounds, Zenon
  <2>5. SumTo(N, t(k)) = 0  BY <2>3, <2>4
  <2> QED  BY <2>2, <2>5 DEF Fld, FieldP
<1> QED  BY <1>2

\* What the first bin and the last pack into is the general formula for k = 0.
LEMMA BeforeEnds ==
  ASSUME NEW u \in Complex, NEW v \in Complex, u[2] = 0, v[2] = 0
  PROVE  Before(u, CConj(v), <<1, 0>>) = CConj(<<Fld(u[1] + v[1]), Fld(u[1] - v[1])>>)
<1> DEFINE a == u[1]
           b == v[1]
           s == Fld(a + b)
           d == Fld(a - b)
<1>1. a \in 0 .. 8190 /\ b \in 0 .. 8190  BY ComplexParts DEF Scalars, FieldP
<1>2. u = <<a, 0>> /\ v = <<b, 0>>  BY ComplexParts
<1> HIDE DEF a, b
<1>3. CConj(v) = <<b, 0>>  BY <1>1, <1>2 DEF CConj, Fld, FieldP
<1>4. CAdd(u, CConj(v)) = <<s, 0>> /\ CSub(u, CConj(v)) = <<d, 0>>
  BY <1>1, <1>2, <1>3, SMTT(30) DEF CAdd, CSub, Fld, FieldP
<1>5. s \in 0 .. 8190 /\ d \in 0 .. 8190  BY <1>1 DEF Fld, FieldP
<1> HIDE DEF s, d
<1>6. CMul(<<d, 0>>, <<1, 0>>) = <<d, 0>>
  <2>2. d \in Scalars /\ 0 \in Scalars  BY <1>5 DEF Scalars, FieldP
  <2>1. <<d, 0>> \in Complex  BY <2>2 DEF Complex
  <2> QED  BY <2>1, UnitComplex, ProductCommutes
<1>7. MinusI(<<d, 0>>) = <<0, Fld(-d)>>  BY <1>5 DEF MinusI
<1>8. CSub(<<s, 0>>, <<0, Fld(-d)>>) = <<s, d>>
  <2>1. Fld(s - 0) = s  BY <1>5, SMTT(30) DEF Fld, FieldP
  <2>2. Fld(0 - Fld(-d)) = d
    <3>1. CASE d = 0  BY <3>1 DEF Fld, FieldP
    <3>2. CASE d > 0
      <4>1. Fld(-d) = 8191 - d  BY <1>5, <3>2 DEF Fld, FieldP
      <4>2. 0 - Fld(-d) = d - 8191  BY <1>5, <4>1
      <4> QED  BY <1>5, <4>2 DEF Fld, FieldP
    <3> QED  BY <1>5, <3>1, <3>2
  <2> QED  BY <2>1, <2>2 DEF CSub
<1>9. Before(u, CConj(v), <<1, 0>>) = CConj(<<s, d>>)  BY <1>4, <1>6, <1>7, <1>8, Zenon DEF Before
<1> QED  BY <1>9, Zenon DEF a, b, s, d

\* The first bin and the last come out of the general formula too.
LEMMA AfterEnds ==
  ASSUME NEW z \in Complex
  PROVE  /\ After(z, CConj(z), <<1, 0>>) = <<Fld(z[1] + z[2]), 0>>
         /\ After(z, CConj(z), <<8190, 0>>) = <<Fld(z[1] - z[2]), 0>>
<1> DEFINE a == z[1]
           b == z[2]
           p == Fld(a + a)
           q == Fld(b + b)
           n == Fld(-b)
<1>1. a \in 0 .. 8190 /\ b \in 0 .. 8190  BY ComplexParts DEF Scalars, FieldP
<1>2. z = <<a, b>>  BY ComplexParts
<1> HIDE DEF a, b
<1>3. CConj(z) = <<a, n>>  BY <1>2 DEF CConj
<1>4. CAdd(z, CConj(z)) = <<p, 0>> /\ CSub(z, CConj(z)) = <<0, q>>
  <2>1. Fld(b + n) = 0 /\ Fld(a - a) = 0 /\ Fld(b - n) = q  BY <1>1, SMTT(30) DEF Fld, FieldP
  <2> HIDE DEF n, q
  <2> QED  BY <1>2, <1>3, <2>1 DEF CAdd, CSub
<1>5. p \in 0 .. 8190 /\ q \in 0 .. 8190 /\ n \in 0 .. 8190
      /\ Fld(p * 4096) = a /\ Fld(q * 4096) = b /\ Fld(b * 8190) = n
  <2>1. ASSUME NEW x \in Int, x >= 0, x <= 8190 PROVE Fld(x + x) \in 0 .. 8190 /\ Fld(Fld(x + x) * 4096) = x
    <3>1. CASE x + x < 8191
      <4>1. Fld(x + x) = x + x  BY <2>1, <3>1 DEF Fld, FieldP
      <4>2. x \in Scalars /\ (x + x) * 4096 = x + FieldP * x  BY <2>1 DEF Scalars, FieldP
      <4>3. x \in Int /\ (x + x) * 4096 \in Int  OBVIOUS
      <4>4. Fld((x + x) * 4096) = x  BY <4>2, <4>3, FldIs
      <4> DEFINE P == 0 .. 8190
      <4>5. x + x \in P  BY <2>1, <3>1
      <4> DEFINE m == 4096
      <4>6. Fld((x + x) * m) = x  BY <4>4
      <4> HIDE DEF P, m
      <4>7. Fld(x + x) \in P /\ Fld(Fld(x + x) * m) = x  BY <4>1, <4>5, <4>6, Zenon
      <4> QED  BY <4>7 DEF P, m
    <3>2. CASE ~(x + x < 8191)
      <4> DEFINE y == x + x - 8191
      <4>1. y \in 0 .. 8190  BY <2>1, <3>2
      <4>2. Fld(x + x) = y  BY <2>1, <3>2 DEF Fld, FieldP
      <4>3. x \in Scalars /\ y * 4096 = x + FieldP * (x - 4096)  BY <2>1 DEF Scalars, FieldP
      <4>4. x - 4096 \in Int /\ y * 4096 \in Int  OBVIOUS
      <4>5. Fld(y * 4096) = x  BY <4>3, <4>4, FldIs
      <4> HIDE DEF y
      <4> DEFINE P == 0 .. 8190
      <4>6. y \in P  BY <4>1
      <4> DEFINE m == 4096
      <4>8. Fld(y * m) = x  BY <4>5
      <4> HIDE DEF P, m
      <4>7. Fld(x + x) \in P /\ Fld(Fld(x + x) * m) = x  BY <4>2, <4>6, <4>8, Zenon
      <4> QED  BY <4>7 DEF P, m
    <3> QED  BY <3>1, <3>2
  <2>2. n \in 0 .. 8190 /\ Fld(b * 8190) = n
    <3>1. -b \in Int  BY <1>1
    <3>2. n \in Scalars /\ n \in Int  BY <3>1, FldParts
    <3>3. b * 8190 \in Int /\ b * 8190 = -b + FieldP * b  BY <1>1 DEF FieldP
    <3>4. Fld(b * 8190) = Fld(-b)
      <4>1. b \in Int  BY <1>1
      <4> QED  BY <3>1, <3>3, <4>1, FldSame
    <3> QED  BY <3>2, <3>4 DEF Scalars, FieldP
  <2>3. a \in Int /\ a >= 0 /\ a <= 8190 /\ b \in Int /\ b >= 0 /\ b <= 8190  BY <1>1
  <2> QED  BY <2>1, <2>2, <2>3
<1> HIDE DEF p, q, n
<1>6. CMul(<<p, 0>>, <<HalfOf, 0>>) = <<a, 0>>
  <2>1. p * 4096 - 0 * 0 = p * 4096 /\ p * 0 + 0 * 4096 = 0  BY <1>5
  <2> QED  BY <1>5, <2>1 DEF CMul, Fld, FieldP, HalfOf
<1>7. CMul(<<0, q>>, <<HalfOf, 0>>) = <<0, b>>
  <2>1. 0 * 4096 - q * 0 = 0 /\ 0 * 0 + q * 4096 = q * 4096  BY <1>5
  <2> QED  BY <1>5, <2>1 DEF CMul, Fld, FieldP, HalfOf
<1>8. CMul(<<0, b>>, <<1, 0>>) = <<0, b>>
  <2>1. 0 * 1 - b * 0 = 0 /\ 0 * 0 + b * 1 = b  BY <1>1
  <2>2. Fld(0) = 0 /\ Fld(b) = b  BY <1>1 DEF Fld, FieldP
  <2> QED  BY <2>1, <2>2 DEF CMul
<1>9. CMul(<<0, b>>, <<8190, 0>>) = <<0, n>>
  <2>1. 0 * 8190 - b * 0 = 0 /\ 0 * 0 + b * 8190 = b * 8190  BY <1>1
  <2> QED  BY <1>5, <2>1 DEF CMul, Fld, FieldP
<1>10. MinusI(<<0, b>>) = <<b, 0>> /\ MinusI(<<0, n>>) = <<n, 0>>  BY DEF MinusI, Fld, FieldP
<1>11. CAdd(<<a, 0>>, <<b, 0>>) = <<Fld(a + b), 0>>  BY <1>1 DEF CAdd, Fld, FieldP
<1>12. CAdd(<<a, 0>>, <<n, 0>>) = <<Fld(a - b), 0>>
  <2>1. Fld(a + n) = Fld(a - b)  BY <1>1 DEF n, Fld, FieldP
  <2>2. Fld(0 + 0) = 0  BY DEF Fld, FieldP
  <2> QED  BY <2>1, <2>2 DEF CAdd
<1>13. After(z, CConj(z), <<1, 0>>) = <<Fld(a + b), 0>>
  BY <1>4, <1>6, <1>7, <1>8, <1>10, <1>11, Zenon DEF After
<1>14. After(z, CConj(z), <<8190, 0>>) = <<Fld(a - b), 0>>
  <2> DEFINE g == CMul(CAdd(z, CConj(z)), <<HalfOf, 0>>)
             w == <<8190, 0>>
             h == CMul(CMul(CSub(z, CConj(z)), <<HalfOf, 0>>), w)
  <2>1. g = <<a, 0>>  BY <1>4, <1>6, Zenon
  <2>3. After(z, CConj(z), w) = CAdd(g, MinusI(h))  BY DEF After
  <2>4. CMul(<<0, b>>, w) = <<0, n>>  BY <1>9
  <2> HIDE DEF w
  <2>2. h = <<0, n>>  BY <1>4, <1>7, <2>4, Zenon
  <2> HIDE DEF g, h
  <2>5. After(z, CConj(z), w) = <<Fld(a - b), 0>>  BY <1>10, <1>12, <2>1, <2>2, <2>3, Zenon
  <2> QED  BY <2>5 DEF w
<1> QED
  <2>1. After(z, CConj(z), <<1, 0>>) = <<Fld(z[1] + z[2]), 0>>  BY <1>13 DEF a, b
  <2>2. After(z, CConj(z), <<8190, 0>>) = <<Fld(z[1] - z[2]), 0>>  BY <1>14, SMTT(30) DEF a, b
  <2> QED  BY <2>1, <2>2

-----------------------------------------------------------------------------
(* The steps of a transform *)

\* What the kernels may take for granted of a call.
LEMMA FftReady ==
  ASSUME FftCall
  PROVE  call \in Calls /\ call.family = "fft" /\ call.tier \in FftTiers /\ call.op \in {"forward", "inverse"}
BY CallSources DEF FftCall, FftTiers

\* The pre pass of an inverse transform leaves a buffer of width 1,
LEMMA FftUnmixes ==
  ASSUME FftPreInverse, FftCall, FftAt(call, stage, pos, mem)
  PROVE  FftAt(call', stage', pos', mem')
<1> DEFINE x == mem.x
           sum(k) == CAdd(x[k], CConj(x[FFT_HALF - k]))
           d(k) == CMul(CSub(x[k], CConj(x[FFT_HALF - k])), InverseTwiddle(k))
           z(k) == IF k = 0 THEN <<Fld(x[0][1] + x[FFT_HALF][1]), Fld(x[0][1] - x[FFT_HALF][1])>>
                   ELSE CSub(sum(k), MinusI(d(k)))
           b == [k \in 0 .. FFT_HALF - 1 |-> CConj(z(k))]
<1>1. call.op = "inverse" /\ stage = "loaded" /\ FftContinues("loop", 0, b)  BY DEF FftPreInverse
<1>2. /\ \A k \in 0 .. 512 : x[k] = BinOf(call, k)
      /\ \A k \in 0 .. 511 : mem.real[k] = Turn(k)
  BY <1>1 DEF FftAt, InputOf, PlanTables
<1>3. call \in Calls /\ call.family = "fft"  BY FftReady
<1> HIDE DEF x
<1>4. ASSUME NEW k \in 0 .. 511, NEW p \in Nat, p = 512 - k
      PROVE  Before(x[k], CConj(x[p]), Turn(-k)) = Column(call, 1, k)
  <2>1. p \in 0 .. 512 /\ k \in 0 .. 512  BY <1>4
  <2>2. x[k] = BinOf(call, k) /\ x[p] = BinOf(call, p)  BY <1>2, <2>1
  <2>3. Before(BinOf(call, k), CConj(BinOf(call, p)), Turn(-k)) = Column(call, 1, k)
    BY <1>1, <1>3, <1>4, BeforeSum
  <2> QED  BY <2>2, <2>3, Zenon
<1>5. ASSUME NEW k \in 0 .. 511 PROVE b[k] = Column(call, 1, k)
  <2>1. k \in 0 .. FFT_HALF - 1 /\ FFT_HALF = 512  BY DEF FFT_HALF
  <2>2. PICK p \in Nat : p = 512 - k /\ FFT_HALF - k = p  BY <2>1
  <2>3. b[k] = CConj(z(k))  BY <2>1, Zenon
  <2>4. CASE k # 0
    <3>1. InverseTwiddle(k) = Turn(-k)
      <4>1. k \in Int  OBVIOUS
      <4>2. mem.real[k] = Turn(k)  BY <1>2
      <4> QED  BY <4>1, <4>2, TurnConj DEF InverseTwiddle
    <3>2. z(k) = CSub(CAdd(x[k], CConj(x[p])), MinusI(CMul(CSub(x[k], CConj(x[p])), Turn(-k))))
      BY <2>2, <2>4, <3>1, Zenon
    <3>3. Before(x[k], CConj(x[p]), Turn(-k)) = Column(call, 1, k)  BY <1>4, <2>2
    <3> QED  BY <2>3, <3>2, <3>3, Zenon DEF Before
  <2>5. CASE k = 0
    <3>1. 0 \in 0 .. 511 /\ 512 \in Nat /\ 512 = 512 - 0 /\ 0 \in 0 .. 512 /\ 512 \in 0 .. 512  OBVIOUS
    <3>2. Before(x[0], CConj(x[512]), Turn(-0)) = Column(call, 1, 0)  BY <1>4, <3>1
    <3>3. Turn(-0) = <<1, 0>>
      <4>1. \A m \in Int : 0 - m = -m  OBVIOUS
      <4>2. 0 \in Int /\ 0 - 0 = 0  OBVIOUS
      <4>3. -0 = 0  BY <4>1, <4>2, Zenon
      <4> QED  BY <4>3, TurnSteps
    <3>4. x[0] = BinOf(call, 0) /\ x[512] = BinOf(call, 512)  BY <1>2, <3>1
    <3>5. x[0][2] = 0 /\ x[512][2] = 0  BY <1>3, <3>4, RealBins
    <3>6. x[0] \in Complex /\ x[512] \in Complex
      <4>1. 0 \in Nat /\ 512 \in Nat  OBVIOUS
      <4>2. Len(call.at) \in Nat  BY <1>3, CallSources
      <4>3. BinOf(call, 0) \in Complex  BY <1>3, <4>1, <4>2, BinSum, CSumComplex
      <4>4. BinOf(call, 512) \in Complex  BY <1>3, <4>1, <4>2, BinSum, CSumComplex
      <4> QED  BY <3>4, <4>3, <4>4
    <3>7. Before(x[0], CConj(x[512]), <<1, 0>>) = CConj(<<Fld(x[0][1] + x[512][1]), Fld(x[0][1] - x[512][1])>>)
      BY <3>5, <3>6, BeforeEnds
    <3>8. z(0) = <<Fld(x[0][1] + x[512][1]), Fld(x[0][1] - x[512][1])>>  BY <2>1
    <3> HIDE DEF z, b
    <3> QED  BY <2>3, <2>5, <3>2, <3>3, <3>7, <3>8
  <2> QED  BY <2>4, <2>5
<1> HIDE DEF b
<1>6. pos' = 0 /\ WidthOf(pos') = 1  BY <1>1 DEF FftContinues, Continues, WidthOf
<1>7. BufferAt(call, WidthOf(pos'), b)  BY <1>5, <1>6 DEF BufferAt
<1> QED  BY <1>1, <1>6, <1>7, LoopStep

\* the first stage, which has no twiddles but transposes registers, one of width 4,
LEMMA FftStarts ==
  ASSUME FftStage0, FftCall, FftAt(call, stage, pos, mem)
  PROVE  FftAt(call', stage', pos', mem')
<1> DEFINE V == Lanes(call.tier)
           Q == FFT_HALF \div 4
           in == mem.buf
           quad == [j \in 0 .. Q - 1 |-> Butterfly(in[j], in[j + Q], in[j + 2 * Q], in[j + 3 * Q])]
           regs(j) == [q \in 1 .. 4 |-> [i \in 0 .. V - 1 |-> quad[j + i][q]]]
           rows == [g \in 0 .. Q \div V - 1 |-> Transposed(call.tier, regs(g * V))]
           b == [e \in 0 .. FFT_HALF - 1 |-> rows[e \div (4 * V)][(e % (4 * V)) \div V + 1][e % V]]
<1>1. stage = "loop" /\ pos = 0 /\ FftContinues("loop", 1, b)  BY Zenon DEF FftStage0
<1>2. call \in Calls /\ call.family = "fft" /\ call.tier \in FftTiers  BY FftReady
<1>3. BufferAt(call, 1, in)
  <2>1. BufferAt(call, WidthOf(pos), in)  BY <1>1, ZenonT(40) DEF FftAt
  <2>3. pos = 0  BY <1>1, Zenon
  <2>2. WidthOf(pos) = 1  BY <2>3 DEF WidthOf
  <2> QED  BY <2>1, <2>2, Zenon
<1>4. Q = 128  BY DEF FFT_HALF
<1>5. Width(1, 256, 128) /\ 1 \in Nat /\ 256 \in Nat /\ 128 \in Nat  BY DEF Width
<1> HIDE DEF in
<1>6. StageQuads(in, quad, 1, 256)
  <2> SUFFICES ASSUME NEW g \in 0 .. 127
               PROVE  quad[g] = Butterfly(in[g], Turned(in, g, 1, 256, g % 1), Turned(in, g, 2, 256, g % 1),
                                          Turned(in, g, 3, 256, g % 1))
    BY Zenon DEF StageQuads
  <2>1. g \in 0 .. Q - 1 /\ g + Q = g + 128 * 1 /\ g + 2 * Q = g + 128 * 2 /\ g + 3 * Q = g + 128 * 3
    BY <1>4
  <2>2. quad[g] = Butterfly(in[g], in[g + Q], in[g + 2 * Q], in[g + 3 * Q])  BY <2>1, Zenon
  <2>3. ASSUME NEW i \in 1 .. 3 PROVE Turned(in, g, i, 256, g % 1) = in[g + 128 * i]
    <3> DEFINE f == g + 128 * i
    <3>1. f \in 0 .. 511 /\ (i * (g % 1)) * 256 = 0
      <4>1. g % 1 = 0  OBVIOUS
      <4>2. i * 0 = 0 /\ 0 * 256 = 0  OBVIOUS
      <4> QED  BY <4>1, <4>2
    <3> HIDE DEF f
    <3>2. in[f] \in Complex
      <4>1. 1 > 0 /\ 1 <= 512  OBVIOUS
      <4>2. in[f] = Column(call, 1, f)  BY <1>3, <3>1 DEF BufferAt
      <4> QED  BY <1>2, <1>5, <3>1, <4>1, <4>2, PartsComplex, ZenonT(40)
    <3>3. Turn(0) = <<1, 0>>  BY TurnSteps
    <3>4. Turned(in, g, i, 256, g % 1) = CMul(in[f], <<1, 0>>)  BY <3>1, <3>3, Zenon DEF Turned, f
    <3>5. CMul(in[f], <<1, 0>>) = in[f]  BY <3>2, UnitComplex, ProductCommutes
    <3> QED  BY <3>4, <3>5 DEF f
  <2>4. /\ Turned(in, g, 1, 256, g % 1) = in[g + 128 * 1] /\ Turned(in, g, 2, 256, g % 1) = in[g + 128 * 2]
        /\ Turned(in, g, 3, 256, g % 1) = in[g + 128 * 3]
    <3>1. 1 \in 1 .. 3 /\ 2 \in 1 .. 3 /\ 3 \in 1 .. 3  OBVIOUS
    <3> QED  BY <2>3, <3>1
  <2> QED  BY <2>1, <2>2, <2>4, ZenonT(40)
<1>7. ASSUME NEW e \in 0 .. 511 PROVE b[e] = Column(call, 4, e)
  <2>1. e \in 0 .. FFT_HALF - 1  BY DEF FFT_HALF
  <2>2. b[e] = rows[e \div (4 * V)][(e % (4 * V)) \div V + 1][e % V]  BY <2>1, Zenon
  <2>3. b[e] = quad[e \div 4][(e % 4) + 1]
    <3>1. StoredRows(call.tier, V, quad, rows)  BY <1>4, Zenon DEF StoredRows
    <3> HIDE DEF quad, rows, V
    <3>2. V = Lanes(call.tier)  BY DEF V
    <3>3. QuadStored(V, quad, rows, e)  BY <1>2, <3>1, <3>2, StoredAt
    <3> QED  BY <2>2, <3>3, Zenon DEF V, QuadStored
  <2> HIDE DEF quad, b
  <2>4. QuadOut(quad, 1, e) = quad[e \div 4][(e % 4) + 1]
    <3>1. (e \div (4 * 1)) * 1 + (e % 1) = e \div 4 /\ (e % (4 * 1)) \div 1 + 1 = (e % 4) + 1  OBVIOUS
    <3> QED  BY <3>1, Zenon DEF QuadOut
  <2>5. QuadDone(call, quad, 1, e)  BY <1>2, <1>3, <1>5, <1>6, StageOutput, ZenonT(40)
  <2>6. 4 * 1 = 4  OBVIOUS
  <2> QED  BY <2>3, <2>4, <2>5, <2>6, Zenon DEF QuadDone
<1> HIDE DEF b
<1>8. pos' = 1 /\ WidthOf(pos') = 4  BY <1>1 DEF FftContinues, Continues, WidthOf
<1>9. BufferAt(call, WidthOf(pos'), b)  BY <1>7, <1>8 DEF BufferAt
<1>10. pos' \in 0 .. 5 /\ FftContinues("loop", pos', b)  BY <1>1, <1>8
<1> QED  BY <1>1, <1>9, <1>10, LoopStep, Zenon

\* each radix-4 stage one four times as wide,
LEMMA FftQuadruples ==
  ASSUME FftRadix4, FftCall, FftAt(call, stage, pos, mem)
  PROVE  FftAt(call', stage', pos', mem')
<1> DEFINE L == 4 ^ pos
           Q == FFT_HALF \div 4
           w(q, k) == mem.r4[R4Off[pos] + (q - 1) * L + k]
           in == mem.buf
           quad == [g \in 0 .. Q - 1 |->
                      Butterfly(in[g], CMul(in[g + Q], w(1, g % L)), CMul(in[g + 2 * Q], w(2, g % L)),
                                CMul(in[g + 3 * Q], w(3, g % L)))]
           b == [e \in 0 .. FFT_HALF - 1 |-> quad[(e \div (4 * L)) * L + (e % L)][(e % (4 * L)) \div L + 1]]
<1>1. stage = "loop" /\ pos \in 1 .. 3 /\ FftContinues("loop", pos + 1, b)  BY Zenon DEF FftRadix4
<1>2. call \in Calls /\ call.family = "fft"  BY FftReady
<1>3. PICK W \in Nat, S \in Nat : StageWidth(pos, L, W, S) /\ Width(L, W, S) /\ L \in Nat
  <2>1. pos \in 0 .. 3
    <3>1. \A m \in 1 .. 3 : m \in 0 .. 3  OBVIOUS
    <3> QED  BY <1>1, <3>1, Zenon
  <2>2. PICK M \in Nat, W \in Nat, S \in Nat : StageWidth(pos, M, W, S) /\ Width(M, W, S) /\ 4 ^ pos = M
    BY <2>1, StageWidths, Zenon
  <2> QED  BY <2>2
<1>4. BufferAt(call, L, in) /\ WidthOf(pos + 1) = 4 * L /\ 4 * L \in Nat /\ 4 * L \in {16, 64, 256}
  <2>1. BufferAt(call, WidthOf(pos), in)  BY <1>1, Zenon DEF FftAt
  <2> HIDE DEF L
  <2>3. \/ pos = 1 /\ L = 4
        \/ pos = 2 /\ L = 16
        \/ pos = 3 /\ L = 64
    <3>1. pos \in 1 .. 3  BY <1>1, Zenon
    <3>2. StageWidth(pos, L, W, S)  BY <1>3
    <3>3. pos # 0  BY <3>1
    <3> QED  BY <3>2, <3>3, Zenon DEF StageWidth
  <2>4. /\ WidthOf(1) = 4 /\ WidthOf(2) = 16 /\ WidthOf(3) = 64
        /\ WidthOf(1 + 1) = 16 /\ WidthOf(2 + 1) = 64 /\ WidthOf(3 + 1) = 256
    BY DEF WidthOf
  <2>2. WidthOf(pos) = L /\ WidthOf(pos + 1) = 4 * L /\ 4 * L \in {16, 64, 256}
    <3>1. CASE pos = 1 /\ L = 4  BY <2>4, <3>1
    <3>2. CASE pos = 2 /\ L = 16  BY <2>4, <3>2
    <3>3. CASE pos = 3 /\ L = 64
      <4>1. 4 * 64 = 256  OBVIOUS
      <4> QED  BY <2>4, <3>3, <4>1, Zenon
    <3> QED  BY <2>3, <3>1, <3>2, <3>3
  <2> QED  BY <1>3, <2>1, <2>2
<1>5. \A s \in 1 .. 3, i \in 1 .. 3, l \in Nat, u \in Nat, v \in Nat, k \in Nat : \A n :
        StageRow(s, i, l, u, v, k, n) => RowTurned(mem.r4, i, u, k, n)
  BY <1>1, ZenonT(40) DEF FftAt, PlanTables
<1>6. Q = 128  BY DEF FFT_HALF
<1> HIDE DEF in, L
<1>7. StageQuads(in, quad, L, W)
  <2> SUFFICES ASSUME NEW g \in 0 .. 127
               PROVE  quad[g] = Butterfly(in[g], Turned(in, g, 1, W, g % L), Turned(in, g, 2, W, g % L),
                                          Turned(in, g, 3, W, g % L))
    BY Zenon DEF StageQuads
  <2> DEFINE k == g % L
  <2>1. g \in 0 .. Q - 1 /\ g + Q = g + 128 * 1 /\ g + 2 * Q = g + 128 * 2 /\ g + 3 * Q = g + 128 * 3
    BY <1>6
  <2>2. quad[g] = Butterfly(in[g], CMul(in[g + Q], w(1, k)), CMul(in[g + 2 * Q], w(2, k)), CMul(in[g + 3 * Q], w(3, k)))
    BY <2>1, Zenon
  <2>3. k \in Nat /\ k < L
    <3>1. L = 4 \/ L = 16 \/ L = 64  BY <1>3, <1>4
    <3> QED  BY <3>1
  <2> HIDE DEF k, quad
  <2>4. ASSUME NEW i \in 1 .. 3 PROVE w(i, k) = Turn((i * k) * W)
    <3> DEFINE n == R4Off[pos] + (i - 1) * L + k
    <3>1. StageRow(pos, i, L, W, S, k, n)  BY <1>3, <2>3 DEF StageRow
    <3>2. w(i, k) = mem.r4[n]  OBVIOUS
    <3> HIDE DEF n, w
    <3>4. pos \in 1 .. 3  BY <1>1
    <3>3. RowTurned(mem.r4, i, W, k, n)  BY <1>3, <1>5, <2>3, <3>1, <3>4
    <3> QED  BY <3>2, <3>3 DEF RowTurned
  <2>5. w(1, k) = Turn((1 * k) * W) /\ w(2, k) = Turn((2 * k) * W) /\ w(3, k) = Turn((3 * k) * W)
    <3>1. 1 \in 1 .. 3 /\ 2 \in 1 .. 3 /\ 3 \in 1 .. 3  OBVIOUS
    <3> HIDE DEF w
    <3> QED  BY <2>4, <3>1
  <2> HIDE DEF w
  <2>6. quad[g] = Butterfly(in[g], Turned(in, g, 1, W, k), Turned(in, g, 2, W, k), Turned(in, g, 3, W, k))
    BY <2>1, <2>2, <2>5, Zenon DEF Turned
  <2> QED  BY <2>6 DEF k
<1>8. ASSUME NEW e \in 0 .. 511 PROVE b[e] = Column(call, 4 * L, e)
  <2>1. e \in 0 .. FFT_HALF - 1  BY DEF FFT_HALF
  <2>2. b[e] = QuadOut(quad, L, e)  BY <2>1, Zenon DEF QuadOut
  <2> HIDE DEF quad, b
  <2>3. QuadDone(call, quad, L, e)  BY <1>2, <1>3, <1>4, <1>7, StageOutput
  <2> QED  BY <2>2, <2>3, Zenon DEF QuadDone
<1> HIDE DEF b
<1>9. pos' = pos + 1 /\ pos' \in 0 .. 5  BY <1>1 DEF FftContinues, Continues
<1>10. BufferAt(call, WidthOf(pos'), b)  BY <1>4, <1>8, <1>9 DEF BufferAt
<1>11. FftContinues("loop", pos', b)  BY <1>1, <1>9
<1> QED  BY <1>1, <1>9, <1>10, <1>11, LoopStep, Zenon

\* and the radix-2 stage one of width 512.
LEMMA FftDoubles ==
  ASSUME FftRadix2, FftCall, FftAt(call, stage, pos, mem)
  PROVE  FftAt(call', stage', pos', mem')
<1> DEFINE bw(k) == CMul(mem.buf[k + 256], mem.r2[k])
           b == [e \in 0 .. FFT_HALF - 1 |-> IF e < 256 THEN CAdd(mem.buf[e], bw(e)) ELSE CSub(mem.buf[e - 256], bw(e - 256))]
<1>1. stage = "loop" /\ pos = 4 /\ FftContinues("loop", 5, b)  BY DEF FftRadix2
<1>2. call \in Calls /\ call.family = "fft"  BY FftReady
<1>3. BufferAt(call, 256, mem.buf)
  <2>1. BufferAt(call, WidthOf(pos), mem.buf)  BY <1>1 DEF FftAt
  <2>2. pos = 4  BY <1>1
  <2>3. WidthOf(pos) = 256  BY <2>2 DEF WidthOf
  <2> QED  BY <2>1, <2>3
<1>4. \A k \in 0 .. 255 : mem.r2[k] = Turn(2 * k)  BY <1>1 DEF FftAt, PlanTables
<1>5. ASSUME NEW k \in 0 .. 255
      PROVE  /\ CAdd(mem.buf[k], bw(k)) = Column(call, 512, k)
             /\ CSub(mem.buf[k], bw(k)) = Column(call, 512, k + 256)
  <2> DEFINE w == bw(k)
             l == k + 256
  <2>1. k \in 0 .. 511 /\ l \in 0 .. 511  OBVIOUS
  <2>2. mem.buf[k] = Column(call, 256, k) /\ mem.buf[l] = Column(call, 256, l)
    <3> HIDE DEF l
    <3> QED  BY <1>3, <2>1 DEF BufferAt
  <2>3. LastTurned(call, k, w)  BY <1>4, <2>2 DEF LastTurned
  <2> HIDE DEF w
  <2>4. LastDone(call, k, w)  BY <1>2, <2>3, RadixTwoSum
  <2>5. CAdd(mem.buf[k], w) = Column(call, 512, k) /\ CSub(mem.buf[k], w) = Column(call, 512, k + 256)
    BY <2>2, <2>4, Zenon DEF LastDone
  <2> QED  BY <2>5 DEF w
<1>6. ASSUME NEW e \in 0 .. 511 PROVE b[e] = Column(call, 512, e)
  <2>1. e \in 0 .. FFT_HALF - 1  BY DEF FFT_HALF
  <2>2. b[e] = IF e < 256 THEN CAdd(mem.buf[e], bw(e)) ELSE CSub(mem.buf[e - 256], bw(e - 256))
    BY <2>1, Zenon
  <2> HIDE DEF b
  <2>3. CASE e < 256
    <3>1. e \in 0 .. 255  BY <2>3
    <3> QED  BY <1>5, <2>2, <2>3, <3>1, SMTT(30)
  <2>4. CASE ~(e < 256)
    <3> DEFINE k == e - 256
    <3>1. k \in 0 .. 255 /\ k + 256 = e  BY <2>4
    <3>2. b[e] = CSub(mem.buf[k], bw(k))  BY <2>2, <2>4
    <3> HIDE DEF k, bw
    <3>3. CSub(mem.buf[k], bw(k)) = Column(call, 512, k + 256)  BY <1>5, <3>1
    <3> QED  BY <3>1, <3>2, <3>3
  <2> QED  BY <2>3, <2>4
<1> HIDE DEF b
<1>7. pos' = 5 /\ WidthOf(pos') = 512
  <2>1. pos' = 5  BY <1>1 DEF FftContinues, Continues
  <2> QED  BY <2>1 DEF WidthOf
<1>8. BufferAt(call, WidthOf(pos'), b)  BY <1>6, <1>7 DEF BufferAt
<1> QED  BY <1>1, <1>7, <1>8, LoopStep

\* A transform is done with its last buffer b.
LEMMA DoneStep ==
  ASSUME NEW b, FftContinues("done", pos, b), Completed(call, b)
  PROVE  FftAt(call', stage', pos', mem')
<1>1. /\ stage' = "done" /\ call' = call
      /\ mem' = [r4 |-> mem.r4, r2 |-> mem.r2, real |-> mem.real, x |-> mem.x, buf |-> b]
  BY DEF FftContinues, Continues
<1>2. mem'.buf = b  BY <1>1
<1> QED  BY <1>1, <1>2 DEF FftAt

\* The post pass of a forward transform leaves all 513 bins, the first and the
\* last of which it writes apart.
LEMMA FftMixes ==
  ASSUME FftPostForward, FftCall, FftAt(call, stage, pos, mem)
  PROVE  FftAt(call', stage', pos', mem')
<1> DEFINE z == mem.buf
           half(c) == CMul(c, <<HalfOf, 0>>)
           sum(k) == half(CAdd(z[k], CConj(z[FFT_HALF - k])))
           d(k) == CMul(half(CSub(z[k], CConj(z[FFT_HALF - k]))), mem.real[k])
           b == [k \in 0 .. FFT_HALF |->
                   CASE k = 0 -> <<Fld(z[0][1] + z[0][2]), 0>>
                     [] k = FFT_HALF -> <<Fld(z[0][1] - z[0][2]), 0>>
                     [] OTHER -> CAdd(sum(k), MinusI(d(k)))]
<1>1. call.op = "forward" /\ stage = "loop" /\ pos = 5 /\ FftContinues("done", pos, b)
  BY DEF FftPostForward
<1>2. call \in Calls /\ call.family = "fft"  BY FftReady
<1>3. BufferAt(call, 512, z)
  <2>1. BufferAt(call, WidthOf(pos), z)  BY <1>1 DEF FftAt
  <2>2. pos = 5  BY <1>1
  <2>3. WidthOf(pos) = 512  BY <2>2 DEF WidthOf
  <2> QED  BY <2>1, <2>3
<1>4. \A k \in 0 .. 511 : mem.real[k] = Turn(k)  BY <1>1 DEF FftAt, PlanTables
<1>5. FFT_HALF = 512  BY DEF FFT_HALF
<1> HIDE DEF z
<1>6. z[0] \in Complex /\ z[0] = Column(call, 512, 0)
  <2>1. 0 \in 0 .. 511 /\ 512 \in Nat /\ 512 > 0 /\ 512 <= 512  OBVIOUS
  <2>2. z[0] = Column(call, 512, 0)  BY <1>3, <2>1 DEF BufferAt
  <2> QED  BY <1>2, <2>1, <2>2, PartsComplex
<1>7. ASSUME NEW k \in 0 .. 512 PROVE b[k] = BinOf(call, k)
  <2>1. b[k] = CASE k = 0 -> <<Fld(z[0][1] + z[0][2]), 0>>
                 [] k = FFT_HALF -> <<Fld(z[0][1] - z[0][2]), 0>>
                 [] OTHER -> CAdd(sum(k), MinusI(d(k)))
    BY <1>5, Zenon
  <2> HIDE DEF b
  <2>2. CASE k = 0
    <3>1. b[k] = <<Fld(z[0][1] + z[0][2]), 0>>
      <4>1. k # FFT_HALF  BY <1>5, <2>2
      <4> QED  BY <2>1, <2>2, <4>1
    <3>2. Turn(k) = <<1, 0>>  BY <2>2, TurnSteps
    <3>3. After(z[0], CConj(z[0]), <<1, 0>>) = <<Fld(z[0][1] + z[0][2]), 0>>  BY <1>6, AfterEnds
    <3>4. 0 \in 0 .. 511 /\ Mirror(k, 0, 0)  BY <2>2 DEF Mirror
    <3>5. After(Column(call, 512, 0), CConj(Column(call, 512, 0)), Turn(k)) = BinOf(call, k)
      <4>1. AfterIsBin(call, k, 0, 0)  BY <1>1, <1>2, <3>4, AfterSum, ZenonT(40)
      <4> QED  BY <4>1 DEF AfterIsBin
    <3> QED  BY <1>6, <3>1, <3>2, <3>3, <3>5, ZenonT(40)
  <2>3. CASE k = 512
    <3>1. b[k] = <<Fld(z[0][1] - z[0][2]), 0>>
      <4>1. k # 0 /\ k = FFT_HALF  BY <1>5, <2>3
      <4> QED  BY <2>1, <4>1, Zenon
    <3>2. Turn(k) = <<8190, 0>>  BY <2>3, HalfTurns
    <3>3. After(z[0], CConj(z[0]), <<8190, 0>>) = <<Fld(z[0][1] - z[0][2]), 0>>  BY <1>6, AfterEnds
    <3>4. 0 \in 0 .. 511 /\ Mirror(k, 0, 0)  BY <2>3 DEF Mirror
    <3>5. After(Column(call, 512, 0), CConj(Column(call, 512, 0)), Turn(k)) = BinOf(call, k)
      <4>1. AfterIsBin(call, k, 0, 0)  BY <1>1, <1>2, <3>4, AfterSum, ZenonT(40)
      <4> QED  BY <4>1 DEF AfterIsBin
    <3> QED  BY <1>6, <3>1, <3>2, <3>3, <3>5
  <2>4. CASE k # 0 /\ k # 512
    <3>1. b[k] = CAdd(sum(k), MinusI(d(k)))
      <4>1. k # 0 /\ k # FFT_HALF  BY <1>5, <2>4
      <4> QED  BY <2>1, <4>1
    <3> DEFINE p == 512 - k
    <3>2. k \in 0 .. 511 /\ p \in 0 .. 511 /\ Mirror(k, k, p)  BY <2>4 DEF Mirror
    <3>3. FFT_HALF - k = p  BY <1>5
    <3> HIDE DEF p
    <3>4. z[k] = Column(call, 512, k) /\ z[p] = Column(call, 512, p) /\ mem.real[k] = Turn(k)
      BY <1>3, <1>4, <3>2, ZenonT(40) DEF BufferAt
    <3>5. CAdd(sum(k), MinusI(d(k))) = After(Column(call, 512, k), CConj(Column(call, 512, p)), Turn(k))
      BY <3>3, <3>4, ZenonT(40) DEF After
    <3>6. After(Column(call, 512, k), CConj(Column(call, 512, p)), Turn(k)) = BinOf(call, k)
      <4>1. AfterIsBin(call, k, k, p)  BY <1>1, <1>2, <3>2, AfterSum, ZenonT(40)
      <4> QED  BY <4>1 DEF AfterIsBin
    <3> QED  BY <3>1, <3>5, <3>6
  <2> QED  BY <2>2, <2>3, <2>4
<1> HIDE DEF b
<1>8. Completed(call, b)  BY <1>1, <1>7 DEF Completed
<1> QED  BY <1>1, <1>8, DoneStep

HalvesAre(c, re, im, k) ==
  re[k] = Fld(1024 * SampleOf(c, 2 * k)) /\ im[k] = Fld(1024 * SampleOf(c, 2 * k + 1))

\* The last pass of an inverse transform leaves the signal, 1024 times over.
LEMMA FftSpreads ==
  ASSUME FftUnpack, FftCall, FftAt(call, stage, pos, mem)
  PROVE  FftAt(call', stage', pos', mem')
<1> DEFINE V == Lanes(call.tier)
           re == [k \in 0 .. FFT_HALF - 1 |-> mem.buf[k][1]]
           im == [k \in 0 .. FFT_HALF - 1 |-> CConj(mem.buf[k])[2]]
           rows == [g \in 0 .. FFT_HALF \div V - 1 |->
                      Interleaved(call.tier, Load(re, g * V), Load(im, g * V))]
           b == [n \in 0 .. FFT_N - 1 |-> rows[n \div (2 * V)][(n % (2 * V)) \div V + 1][n % V]]
<1>1. call.op = "inverse" /\ stage = "loop" /\ pos = 5 /\ FftContinues("done", pos, b)
  BY Zenon DEF FftUnpack
<1>2. call \in Calls /\ call.family = "fft" /\ call.tier \in FftTiers  BY FftReady
<1>3. BufferAt(call, 512, mem.buf)
  <2>1. BufferAt(call, WidthOf(pos), mem.buf)  BY <1>1, ZenonT(40) DEF FftAt
  <2>2. pos = 5  BY <1>1, Zenon
  <2>3. WidthOf(pos) = 512  BY <2>2 DEF WidthOf
  <2> QED  BY <2>1, <2>3, Zenon
<1>4. ASSUME NEW k \in 0 .. 511 PROVE HalvesAre(call, re, im, k)
  <2>1. k \in 0 .. FFT_HALF - 1  BY DEF FFT_HALF
  <2>2. re[k] = mem.buf[k][1] /\ im[k] = CConj(mem.buf[k])[2]  BY <2>1, Zenon
  <2>3. mem.buf[k] = Column(call, 512, k)  BY <1>3, SMTT(30) DEF BufferAt
  <2>4. CConj(mem.buf[k])[1] = mem.buf[k][1]  BY DEF CConj
  <2> HIDE DEF re, im
  <2>5. CConj(Column(call, 512, k)) = <<Fld(1024 * SampleOf(call, 2 * k)), Fld(1024 * SampleOf(call, 2 * k + 1))>>
    <3>1. UnpackedIs(call, k)  BY <1>1, <1>2, UnpackedEnd
    <3> QED  BY <3>1 DEF UnpackedIs
  <2>6. \A u, v : <<u, v>>[1] = u /\ <<u, v>>[2] = v  OBVIOUS
  <2> DEFINE u == Fld(1024 * SampleOf(call, 2 * k))
             v == Fld(1024 * SampleOf(call, 2 * k + 1))
  <2> HIDE DEF u, v
  <2>7. CConj(Column(call, 512, k)) = <<u, v>>  BY <2>5 DEF u, v
  <2>8. re[k] = u /\ im[k] = v  BY <2>2, <2>3, <2>4, <2>6, <2>7
  <2> QED  BY <2>8 DEF u, v, HalvesAre
<1>5. ASSUME NEW n \in 0 .. 1023 PROVE b[n] = Fld(1024 * SampleOf(call, n))
  <2> DEFINE g == n \div (2 * V)
             f == n % (2 * V)
             h == f \div V
             i == n % V
             k == n \div 2
  <2>0. FFT_N - 1 = 1023 /\ FFT_HALF = 512  BY DEF FFT_N, FFT_HALF
  <2>1. /\ g \in 0 .. 512 \div V - 1 /\ h \in 0 .. 1 /\ i \in 0 .. V - 1 /\ i % 2 = n % 2
        /\ g * V + (h * V + i) \div 2 = k /\ (h * V + i) \div 2 \in 0 .. V - 1
    <3>1. CASE V = 4
      <4>1. n = 8 * g + f /\ f \in 0 .. 7 /\ g \in 0 .. 127  BY <3>1
      <4>2. i = n % 4  BY <3>1
      <4>3. h = f \div 4  BY <3>1
      <4> HIDE DEF g, f, h, i
      <4> QED  BY <3>1, <4>1, <4>2, <4>3
    <3>2. CASE V = 8
      <4>1. n = 16 * g + f /\ f \in 0 .. 15 /\ g \in 0 .. 63  BY <3>2
      <4>2. i = n % 8  BY <3>2
      <4>3. h = f \div 8  BY <3>2
      <4> HIDE DEF g, f, h, i
      <4> QED  BY <3>2, <4>1, <4>2, <4>3
    <3>3. CASE V = 16
      <4>1. n = 32 * g + f /\ f \in 0 .. 31 /\ g \in 0 .. 31  BY <3>3
      <4>2. i = n % 16  BY <3>3
      <4>3. h = f \div 16  BY <3>3
      <4> HIDE DEF g, f, h, i
      <4> QED  BY <3>3, <4>1, <4>2, <4>3
    <3> HIDE DEF g, f, h, i, k
    <3> QED  BY <1>2, <3>1, <3>2, <3>3, LaneCounts
  <2>2. b[n] = rows[g][h + 1][i]  BY <2>0, ZenonT(40)
  <2>3. rows[g] = Interleaved(call.tier, Load(re, g * V), Load(im, g * V))
    <3> HIDE DEF re, im, g, h, i, k, f
    <3> QED  BY <2>0, <2>1, Zenon
  <2> HIDE DEF b, rows, g, h, i, k, f, re, im
  <2> DEFINE x == Load(re, g * V)
             y == Load(im, g * V)
             l == (h * V + i) \div 2
  <2>4. x = [j \in 0 .. V - 1 |-> re[g * V + j]] /\ y = [j \in 0 .. V - 1 |-> im[g * V + j]]  BY DEF Load
  <2>5. DOMAIN x = 0 .. V - 1 /\ x[l] = re[k] /\ y[l] = im[k]
    <3> HIDE DEF x, y, l, V
    <3>1. l \in 0 .. V - 1 /\ g * V + l = k  BY <2>1 DEF l, V
    <3> QED  BY <2>4, <3>1 DEF V
  <2> HIDE DEF x, y
  <2>6. rows[g][h + 1][i] = IF i % 2 = 0 THEN x[l] ELSE y[l]
    <3>1. LaneOf(V, x, y, h, i, Interleaved(call.tier, x, y))  BY <1>2, <2>1, <2>5, InterleavedIs
    <3> QED  BY <2>3, <3>1, Zenon DEF LaneOf, x, y
  <2>7. k \in 0 .. 511 /\ n = IF n % 2 = 0 THEN 2 * k ELSE 2 * k + 1  BY DEF k
  <2>8. re[k] = Fld(1024 * SampleOf(call, 2 * k)) /\ im[k] = Fld(1024 * SampleOf(call, 2 * k + 1))
    <3>1. HalvesAre(call, re, im, k)  BY <1>4, <2>7
    <3> QED  BY <3>1 DEF HalvesAre
  <2> QED  BY <2>1, <2>2, <2>5, <2>6, <2>7, <2>8
<1> HIDE DEF b
<1>6. Completed(call, b)  BY <1>1, <1>5 DEF Completed
<1> QED  BY <1>1, <1>6, DoneStep
===============================================================================
