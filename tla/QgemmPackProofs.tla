--------------------------- MODULE QgemmPackProofs ---------------------------
(***************************************************************************)
(* Facts about the arithmetic and the memory layouts of the int8 kernels   *)
(* and the layer lists of the weight loader, for every shape: rounding,    *)
(* running sums and maxima, that each repacker leaves at a kernel's offset *)
(* the byte that the kernel means, and that the buffers are planned for    *)
(* what the file and the repack list.                                      *)
(***************************************************************************)
EXTENDS WeightBlob, WellFoundedInduction, TLAPS

-----------------------------------------------------------------------------
(* Numbers *)

\* Induction over the naturals, for a set in place of a predicate.
LEMMA SetInduction ==
  ASSUME NEW S, 0 \in S, \A n \in Nat : n \in S => n + 1 \in S
  PROVE  \A n \in Nat : n \in S
<1> DEFINE Missing == {n \in Nat : n \notin S}
<1>1. SUFFICES ASSUME Missing # {} PROVE FALSE
  OBVIOUS
<1>2. IsWellFoundedOn(OpToRel(<, Nat), Nat)  BY NatLessThanWellFounded
<1>3. \E x \in Missing : \A y \in Missing : ~(<<y, x>> \in OpToRel(<, Nat))
  BY <1>1, <1>2, WFMin, Zenon
<1>4. PICK x \in Missing : \A y \in Missing : ~(<<y, x>> \in OpToRel(<, Nat))  BY <1>3
<1>5. \A y \in Missing : ~(y < x)  BY <1>4 DEF OpToRel
<1>6. x - 1 \in Nat /\ x - 1 < x /\ (x - 1) + 1 = x  OBVIOUS
<1>7. x - 1 \in S  BY <1>5, <1>6
<1> QED  BY <1>6, <1>7

\* Quotient and remainder.
LEMMA DivMod ==
  ASSUME NEW a \in Int, NEW b \in Nat \ {0}
  PROVE  /\ a = b * (a \div b) + (a % b)
         /\ a % b \in 0 .. b - 1 /\ a \div b \in Int
OBVIOUS

\* A product grows with its factor.
LEMMA ProductMonotone ==
  ASSUME NEW x \in Int, NEW y \in Int, x <= y, NEW c \in Nat
  PROVE  x * c <= y * c
OBVIOUS

\* Quotient and remainder are unique.
LEMMA DivModUnique ==
  ASSUME NEW b \in Nat \ {0}, NEW q \in Int, NEW r \in 0 .. b - 1
  PROVE  (b * q + r) \div b = q /\ (b * q + r) % b = r
<1> DEFINE a == b * q + r
           p == a \div b
           s == a % b
<1>1. a \in Int /\ a = b * p + s /\ s \in 0 .. b - 1 /\ p \in Int  BY DivMod
<1>2. b * (p - q) = r - s  BY <1>1
<1>3. ~(p - q >= 1)
  <2> SUFFICES ASSUME p - q >= 1 PROVE FALSE  OBVIOUS
  <2>1. 1 * b <= (p - q) * b  BY <1>1, ProductMonotone
  <2> QED  BY <1>1, <1>2, <2>1
<1>4. ~(p - q <= -1)
  <2> SUFFICES ASSUME p - q <= -1 PROVE FALSE  OBVIOUS
  <2>1. (p - q) * b <= (-1) * b  BY <1>1, ProductMonotone
  <2> QED  BY <1>1, <1>2, <2>1
<1>5. p = q /\ s = r  BY <1>1, <1>2, <1>3, <1>4
<1> QED  BY <1>5

\* A quotient is between the quotients of its bounds.
LEMMA DivBounds ==
  ASSUME NEW b \in Nat \ {0}, NEW a \in Int, NEW m \in Int, NEW n \in Int,
         b * m <= a, a < b * n
  PROVE  m <= a \div b /\ a \div b < n
<1> DEFINE q == a \div b
<1>1. q \in Int /\ a = b * q + (a % b) /\ a % b \in 0 .. b - 1  BY DivMod
<1>2. ~(q <= m - 1)
  <2> SUFFICES ASSUME q <= m - 1 PROVE FALSE  OBVIOUS
  <2>1. q * b <= (m - 1) * b  BY <1>1, ProductMonotone
  <2> QED  BY <1>1, <2>1
<1>3. ~(n <= q)
  <2> SUFFICES ASSUME n <= q PROVE FALSE  OBVIOUS
  <2>1. n * b <= q * b  BY <1>1, ProductMonotone
  <2> QED  BY <1>1, <2>1
<1> QED  BY <1>1, <1>2, <1>3

\* Clamping leaves what is in range, and brings the rest to the nearer end.
LEMMA ClampRange ==
  ASSUME NEW lo \in Int, NEW hi \in Int, lo <= hi, NEW x \in Int
  PROVE  /\ Clamp(lo, hi, x) \in lo .. hi
         /\ x \in lo .. hi => Clamp(lo, hi, x) = x
         /\ x < lo => Clamp(lo, hi, x) = lo
         /\ x > hi => Clamp(lo, hi, x) = hi
BY DEF Clamp, Greatest, Least

\* lroundf is within half a step.
LEMMA RoundAwayClose ==
  ASSUME NEW a \in Int, NEW d \in Nat \ {0}
  PROVE  /\ RoundAway(a, d) \in Int
         /\ 2 * (RoundAway(a, d) * d) - d <= 2 * a
         /\ 2 * a <= 2 * (RoundAway(a, d) * d) + d
<1>1. CASE a >= 0
  <2> DEFINE q == (2 * a + d) \div (2 * d)
             r == (2 * a + d) % (2 * d)
  <2>0. 2 * a + d \in Int /\ 2 * d \in Nat \ {0}  OBVIOUS
  <2>1. 2 * a + d = (2 * d) * q + r /\ r \in 0 .. 2 * d - 1 /\ q \in Int
    BY <2>0, DivMod, Zenon
  <2>3. RoundAway(a, d) = q  BY <1>1 DEF RoundAway
  <2> HIDE DEF q, r
  <2>2. (2 * d) * q = 2 * (q * d) /\ q * d \in Int  BY <2>1
  <2> QED  BY <2>1, <2>2, <2>3
<1>2. CASE a < 0
  <2> DEFINE q == (d - 2 * a) \div (2 * d)
             r == (d - 2 * a) % (2 * d)
  <2>0. d - 2 * a \in Int /\ 2 * d \in Nat \ {0}  OBVIOUS
  <2>1. d - 2 * a = (2 * d) * q + r /\ r \in 0 .. 2 * d - 1 /\ q \in Int
    BY <2>0, DivMod, Zenon
  <2>2. RoundAway(a, d) = -q  BY <1>2 DEF RoundAway
  <2> HIDE DEF q, r
  <2>3. (2 * d) * q = 2 * (q * d) /\ q * d \in Int /\ (-q) * d = -(q * d)  BY <2>1
  <2> QED  BY <2>1, <2>2, <2>3
<1> QED  BY <1>1, <1>2

\* Rounding halves to even is within half a step.
LEMMA RoundEvenClose ==
  ASSUME NEW a \in Int, NEW d \in Nat \ {0}
  PROVE  /\ RoundEven(a, d) \in Int
         /\ 2 * (RoundEven(a, d) * d) - d <= 2 * a
         /\ 2 * a <= 2 * (RoundEven(a, d) * d) + d
<1> DEFINE q == (2 * a + d) \div (2 * d)
           r == (2 * a + d) % (2 * d)
<1>0. 2 * a + d \in Int /\ 2 * d \in Nat \ {0}  OBVIOUS
<1>1. 2 * a + d = (2 * d) * q + r /\ r \in 0 .. 2 * d - 1 /\ q \in Int
  BY <1>0, DivMod, Zenon
<1>2. RoundEven(a, d) = q \/ (RoundEven(a, d) = q - 1 /\ r = 0)  BY DEF RoundEven
<1> HIDE DEF q, r
<1>3. (2 * d) * q = 2 * (q * d) /\ q * d \in Int /\ (q - 1) * d = q * d - d  BY <1>1
<1> QED  BY <1>1, <1>2, <1>3

-----------------------------------------------------------------------------
(* Running sums and maxima: what their loops compute, iteration by iteration *)

\* The loop of SumTo(n, term) has run, whatever term is.
SumLoop(n, term, s) ==
  s = [i \in 0 .. n |-> IF i = 0 THEN 0 ELSE s[i - 1] + term[i - 1]]

\* Every such loop ends in one way.
LEMMA SumLoopUnique ==
  ASSUME NEW term, NEW m \in Nat, NEW n \in Nat, m <= n, NEW s, NEW t,
         SumLoop(m, term, s), SumLoop(n, term, t)
  PROVE  \A i \in 0 .. m : s[i] = t[i]
<1> DEFINE Same == {i \in Nat : i <= m => s[i] = t[i]}
<1>1. s[0] = 0 /\ t[0] = 0  BY DEF SumLoop
<1>2. \A i \in 1 .. m : s[i] = s[i - 1] + term[i - 1] /\ t[i] = t[i - 1] + term[i - 1]
  BY DEF SumLoop
<1>3. 0 \in Same  BY <1>1
<1>4. ASSUME NEW i \in Nat, i \in Same PROVE i + 1 \in Same
  <2> SUFFICES ASSUME i + 1 <= m PROVE s[i + 1] = t[i + 1]  OBVIOUS
  <2>1. i + 1 \in 1 .. m /\ (i + 1) - 1 = i /\ s[i] = t[i]  BY <1>4
  <2> QED  BY <1>2, <2>1
<1> HIDE DEF Same
<1>5. \A i \in Nat : i \in Same  BY <1>3, <1>4, SetInduction
<1> QED  BY <1>5 DEF Same

\* Every such loop ends.
LEMMA SumLoopExists ==
  ASSUME NEW term
  PROVE  \A n \in Nat : \E s : SumLoop(n, term, s)
<1> DEFINE Ends == {n \in Nat : \E s : SumLoop(n, term, s)}
<1>1. 0 \in Ends
  <2>1. SumLoop(0, term, [i \in 0 .. 0 |-> 0])  BY DEF SumLoop
  <2> QED  BY <2>1
<1>2. ASSUME NEW n \in Nat, n \in Ends PROVE n + 1 \in Ends
  <2>1. PICK s : SumLoop(n, term, s)  BY <1>2
  <2> DEFINE t == [i \in 0 .. n + 1 |-> IF i = n + 1 THEN s[n] + term[n] ELSE s[i]]
  <2>2. \A i \in 0 .. n : s[i] = IF i = 0 THEN 0 ELSE s[i - 1] + term[i - 1]
    BY <2>1 DEF SumLoop
  <2>3. \A i \in 0 .. n + 1 : t[i] = IF i = 0 THEN 0 ELSE t[i - 1] + term[i - 1]
    <3>1. CASE \A i \in 0 .. n : t[i] = s[i]
      <4>1. ASSUME NEW i \in 1 .. n PROVE t[i] = t[i - 1] + term[i - 1]
        BY <2>2, <3>1
      <4>2. t[n + 1] = t[n] + term[n]  BY <3>1
      <4>3. t[0] = 0  BY <2>2, <3>1
      <4> HIDE DEF t
      <4> QED  BY <4>1, <4>2, <4>3
    <3> QED  BY <3>1
  <2>4. SumLoop(n + 1, term, t)  BY <2>3 DEF SumLoop
  <2> QED  BY <2>4
<1> HIDE DEF Ends
<1>3. \A n \in Nat : n \in Ends  BY <1>1, <1>2, SetInduction
<1> QED  BY <1>3 DEF Ends

\* A sum over a loop index: nothing before the first iteration, one term more
\* after each.
LEMMA SumToStep ==
  ASSUME NEW term, NEW n \in Nat
  PROVE  SumTo(0, term) = 0 /\ SumTo(n + 1, term) = SumTo(n, term) + term[n]
<1>1. ASSUME NEW m \in Nat
      PROVE  \E s : SumLoop(m, term, s) /\ SumTo(m, term) = s[m]
  <2> DEFINE s == CHOOSE f : f = [i \in 0 .. m |-> IF i = 0 THEN 0 ELSE f[i - 1] + term[i - 1]]
  <2>1. \E f : f = [i \in 0 .. m |-> IF i = 0 THEN 0 ELSE f[i - 1] + term[i - 1]]
    BY <1>1, SumLoopExists DEF SumLoop
  <2>2. s = [i \in 0 .. m |-> IF i = 0 THEN 0 ELSE s[i - 1] + term[i - 1]]  BY <2>1, Zenon
  <2>3. SumTo(m, term) = s[m]  BY DEF SumTo
  <2>4. SumLoop(m, term, s)  BY <2>2 DEF SumLoop
  <2> HIDE DEF s
  <2> QED  BY <2>3, <2>4
<1>2. PICK r : SumLoop(0, term, r) /\ SumTo(0, term) = r[0]  BY <1>1
<1>3. PICK s : SumLoop(n, term, s) /\ SumTo(n, term) = s[n]  BY <1>1
<1>4. PICK t : SumLoop(n + 1, term, t) /\ SumTo(n + 1, term) = t[n + 1]  BY <1>1
<1>5. r[0] = 0  BY <1>2 DEF SumLoop
<1>6. t[n + 1] = t[n] + term[n]
  <2>1. n + 1 \in 0 .. n + 1 /\ n + 1 # 0 /\ (n + 1) - 1 = n  OBVIOUS
  <2> QED  BY <1>4, <2>1 DEF SumLoop
<1>7. s[n] = t[n]  BY <1>3, <1>4, SumLoopUnique
<1> QED  BY <1>2, <1>3, <1>4, <1>5, <1>6, <1>7

\* The loop of MaxTo(n, term) has run, whatever term is.
MaxLoop(n, term, s) ==
  s = [i \in 0 .. n |-> IF i = 0 THEN 0 ELSE Greatest(term[i - 1], s[i - 1])]

\* The running maximum of a loop does not depend on how far it goes on.
LEMMA MaxLoopUnique ==
  ASSUME NEW term, NEW m \in Nat, NEW n \in Nat, m <= n, NEW s, NEW t,
         MaxLoop(m, term, s), MaxLoop(n, term, t)
  PROVE  \A i \in 0 .. m : s[i] = t[i]
<1> DEFINE Same == {i \in Nat : i <= m => s[i] = t[i]}
<1>1. s[0] = 0 /\ t[0] = 0  BY DEF MaxLoop
<1>2. \A i \in 1 .. m : /\ s[i] = Greatest(term[i - 1], s[i - 1])
                        /\ t[i] = Greatest(term[i - 1], t[i - 1])
  BY DEF MaxLoop
<1>3. 0 \in Same  BY <1>1
<1>4. ASSUME NEW i \in Nat, i \in Same PROVE i + 1 \in Same
  <2> SUFFICES ASSUME i + 1 <= m PROVE s[i + 1] = t[i + 1]  OBVIOUS
  <2>1. i + 1 \in 1 .. m /\ (i + 1) - 1 = i /\ s[i] = t[i]  BY <1>4
  <2> QED  BY <1>2, <2>1
<1> HIDE DEF Same
<1>5. \A i \in Nat : i \in Same  BY <1>3, <1>4, SetInduction
<1> QED  BY <1>5 DEF Same

\* A loop that keeps a maximum ends.
LEMMA MaxLoopExists ==
  ASSUME NEW term
  PROVE  \A n \in Nat : \E s : MaxLoop(n, term, s)
<1> DEFINE Ends == {n \in Nat : \E s : MaxLoop(n, term, s)}
<1>1. 0 \in Ends
  <2>1. MaxLoop(0, term, [i \in 0 .. 0 |-> 0])  BY DEF MaxLoop
  <2> QED  BY <2>1
<1>2. ASSUME NEW n \in Nat, n \in Ends PROVE n + 1 \in Ends
  <2>1. PICK s : MaxLoop(n, term, s)  BY <1>2
  <2> DEFINE t == [i \in 0 .. n + 1 |-> IF i = n + 1 THEN Greatest(term[n], s[n]) ELSE s[i]]
  <2>2. \A i \in 0 .. n : s[i] = IF i = 0 THEN 0 ELSE Greatest(term[i - 1], s[i - 1])
    BY <2>1 DEF MaxLoop
  <2>3. \A i \in 0 .. n + 1 : t[i] = IF i = 0 THEN 0 ELSE Greatest(term[i - 1], t[i - 1])
    <3>1. CASE \A i \in 0 .. n : t[i] = s[i]
      <4>1. ASSUME NEW i \in 1 .. n PROVE t[i] = Greatest(term[i - 1], t[i - 1])
        BY <2>2, <3>1
      <4>2. t[n + 1] = Greatest(term[n], t[n])  BY <3>1
      <4>3. t[0] = 0  BY <2>2, <3>1
      <4> HIDE DEF t
      <4> QED  BY <4>1, <4>2, <4>3
    <3> QED  BY <3>1
  <2>4. MaxLoop(n + 1, term, t)  BY <2>3 DEF MaxLoop
  <2> QED  BY <2>4
<1> HIDE DEF Ends
<1>3. \A n \in Nat : n \in Ends  BY <1>1, <1>2, SetInduction
<1> QED  BY <1>3 DEF Ends

\* A running maximum: zero before the first iteration, raised by each that exceeds it.
LEMMA MaxToStep ==
  ASSUME NEW term, NEW n \in Nat
  PROVE  MaxTo(0, term) = 0 /\ MaxTo(n + 1, term) = Greatest(term[n], MaxTo(n, term))
<1>1. ASSUME NEW m \in Nat
      PROVE  \E s : MaxLoop(m, term, s) /\ MaxTo(m, term) = s[m]
  <2> DEFINE s == CHOOSE f : f = [i \in 0 .. m |->
                                    IF i = 0 THEN 0 ELSE Greatest(term[i - 1], f[i - 1])]
  <2>1. \E f : f = [i \in 0 .. m |-> IF i = 0 THEN 0 ELSE Greatest(term[i - 1], f[i - 1])]
    BY <1>1, MaxLoopExists DEF MaxLoop
  <2>2. s = [i \in 0 .. m |-> IF i = 0 THEN 0 ELSE Greatest(term[i - 1], s[i - 1])]  BY <2>1, Zenon
  <2>3. MaxTo(m, term) = s[m]  BY DEF MaxTo
  <2>4. MaxLoop(m, term, s)  BY <2>2 DEF MaxLoop
  <2> HIDE DEF s
  <2> QED  BY <2>3, <2>4
<1>2. PICK r : MaxLoop(0, term, r) /\ MaxTo(0, term) = r[0]  BY <1>1
<1>3. PICK s : MaxLoop(n, term, s) /\ MaxTo(n, term) = s[n]  BY <1>1
<1>4. PICK t : MaxLoop(n + 1, term, t) /\ MaxTo(n + 1, term) = t[n + 1]  BY <1>1
<1>5. r[0] = 0  BY <1>2 DEF MaxLoop
<1>6. t[n + 1] = Greatest(term[n], t[n])
  <2>1. n + 1 \in 0 .. n + 1 /\ n + 1 # 0 /\ (n + 1) - 1 = n  OBVIOUS
  <2> QED  BY <1>4, <2>1 DEF MaxLoop
<1>7. s[n] = t[n]  BY <1>3, <1>4, MaxLoopUnique
<1> QED  BY <1>2, <1>3, <1>4, <1>5, <1>6, <1>7

\* Terms that agree have the same sum.
LEMMA SumToSame ==
  ASSUME NEW t, NEW u, NEW m \in Nat, \A i \in 0 .. m - 1 : t[i] = u[i]
  PROVE  SumTo(m, t) = SumTo(m, u)
<1> DEFINE Same == {n \in Nat : n <= m => SumTo(n, t) = SumTo(n, u)}
<1>1. 0 \in Same
  <2>1. SumTo(0, t) = 0 /\ SumTo(0, u) = 0  BY SumToStep
  <2> QED  BY <2>1
<1>2. ASSUME NEW n \in Nat, n \in Same PROVE n + 1 \in Same
  <2> SUFFICES ASSUME n + 1 <= m PROVE SumTo(n + 1, t) = SumTo(n + 1, u)  OBVIOUS
  <2>1. n \in 0 .. m - 1  OBVIOUS
  <2>2. t[n] = u[n] /\ SumTo(n, t) = SumTo(n, u)  BY <1>2, <2>1
  <2>3. SumTo(n + 1, t) = SumTo(n, t) + t[n] /\ SumTo(n + 1, u) = SumTo(n, u) + u[n]
    BY SumToStep
  <2> QED  BY <2>2, <2>3
<1> HIDE DEF Same
<1>3. \A n \in Nat : n \in Same  BY <1>1, <1>2, SetInduction
<1>4. m \in Same  BY <1>3
<1> QED  BY <1>4 DEF Same

\* A sum of integers is one, and within the sum of their bounds.
LEMMA SumToBounds ==
  ASSUME NEW t, NEW m \in Nat, NEW lo \in Int, NEW hi \in Int,
         \A i \in 0 .. m - 1 : t[i] \in lo .. hi
  PROVE  SumTo(m, t) \in Int /\ m * lo <= SumTo(m, t) /\ SumTo(m, t) <= m * hi
<1> DEFINE Within == {n \in Nat : n <= m => /\ SumTo(n, t) \in Int
                                            /\ n * lo <= SumTo(n, t) /\ SumTo(n, t) <= n * hi}
<1>1. 0 \in Within
  <2>1. SumTo(0, t) = 0  BY SumToStep
  <2> QED  BY <2>1
<1>2. ASSUME NEW n \in Nat, n \in Within PROVE n + 1 \in Within
  <2> SUFFICES ASSUME n + 1 <= m
               PROVE  /\ SumTo(n + 1, t) \in Int
                      /\ (n + 1) * lo <= SumTo(n + 1, t) /\ SumTo(n + 1, t) <= (n + 1) * hi
    OBVIOUS
  <2>1. t[n] \in lo .. hi  OBVIOUS
  <2>2. SumTo(n, t) \in Int /\ n * lo <= SumTo(n, t) /\ SumTo(n, t) <= n * hi  BY <1>2
  <2>3. SumTo(n + 1, t) = SumTo(n, t) + t[n]  BY SumToStep
  <2>4. (n + 1) * lo = n * lo + lo /\ (n + 1) * hi = n * hi + hi
        /\ n * lo \in Int /\ n * hi \in Int
    OBVIOUS
  <2> QED  BY <2>1, <2>2, <2>3, <2>4
<1> HIDE DEF Within
<1>3. \A n \in Nat : n \in Within  BY <1>1, <1>2, SetInduction
<1>4. m \in Within  BY <1>3
<1> QED  BY <1>4 DEF Within

\* A running maximum bounds every term and zero, and is one of them.
LEMMA MaxToBounds ==
  ASSUME NEW t, NEW m \in Nat, \A i \in 0 .. m - 1 : t[i] \in Int
  PROVE  /\ MaxTo(m, t) \in Nat
         /\ \A i \in 0 .. m - 1 : t[i] <= MaxTo(m, t)
         /\ MaxTo(m, t) = 0 \/ \E i \in 0 .. m - 1 : MaxTo(m, t) = t[i]
<1> DEFINE Bounds(n) == /\ MaxTo(n, t) \in Nat
                        /\ \A i \in 0 .. n - 1 : t[i] <= MaxTo(n, t)
                        /\ MaxTo(n, t) = 0 \/ \E i \in 0 .. n - 1 : MaxTo(n, t) = t[i]
           Bounded == {n \in Nat : n <= m => Bounds(n)}
<1>1. 0 \in Bounded
  <2>1. MaxTo(0, t) = 0  BY MaxToStep
  <2> QED  BY <2>1
<1>2. ASSUME NEW n \in Nat, n \in Bounded PROVE n + 1 \in Bounded
  <2> SUFFICES ASSUME n + 1 <= m PROVE Bounds(n + 1)  OBVIOUS
  <2>1. t[n] \in Int  OBVIOUS
  <2>2. Bounds(n)  BY <1>2
  <2>3. MaxTo(n + 1, t) = Greatest(t[n], MaxTo(n, t))  BY MaxToStep
  <2>4. \A i \in 0 .. (n + 1) - 1 : i \in 0 .. n - 1 \/ i = n  OBVIOUS
  <2>5. n \in 0 .. (n + 1) - 1 /\ \A i \in 0 .. n - 1 : i \in 0 .. (n + 1) - 1 /\ t[i] \in Int
    OBVIOUS
  <2>6. CASE t[n] >= MaxTo(n, t)
    <3>1. MaxTo(n + 1, t) = t[n]  BY <2>3, <2>6 DEF Greatest
    <3> QED  BY <2>1, <2>2, <2>4, <2>5, <2>6, <3>1
  <2>7. CASE ~(t[n] >= MaxTo(n, t))
    <3>1. MaxTo(n + 1, t) = MaxTo(n, t)  BY <2>3, <2>7 DEF Greatest
    <3> QED  BY <2>1, <2>2, <2>4, <2>5, <2>7, <3>1
  <2> QED  BY <2>6, <2>7
<1> HIDE DEF Bounded
<1>3. \A n \in Nat : n \in Bounded  BY <1>1, <1>2, SetInduction
<1>4. m \in Bounded  BY <1>3
<1> QED  BY <1>4 DEF Bounded

-----------------------------------------------------------------------------
(* Weights: their codes, and where the packer puts them *)

\* A weight code is an int8 other than -128, and half a step from its weight.
LEMMA WeightCodeClose ==
  ASSUME NEW m \in Nat, NEW x \in -m .. m
  PROVE  /\ WeightCode(x, m) \in -127 .. 127
         /\ 2 * AbsOf(x * 127 - WeightCode(x, m) * m) <= m
<1>1. CASE m = 0
  <2>1. x = 0 /\ WeightCode(x, m) = 0  BY <1>1 DEF WeightCode
  <2> QED  BY <1>1, <2>1 DEF AbsOf
<1>2. CASE m # 0
  <2> DEFINE q == RoundAway(x * 127, m)
  <2>0. x * 127 \in Int /\ m \in Nat \ {0}  BY <1>2
  <2>1. q \in Int /\ 2 * (q * m) - m <= 2 * (x * 127) /\ 2 * (x * 127) <= 2 * (q * m) + m
    BY <2>0, RoundAwayClose, Zenon
  <2> HIDE DEF q
  <2>2. q * m \in Int  BY <2>1
  <2>3. ~(q >= 128)
    <3> SUFFICES ASSUME q >= 128 PROVE FALSE  OBVIOUS
    <3>1. 128 * m <= q * m  BY <2>1, ProductMonotone
    <3> QED  BY <1>2, <2>1, <2>2, <3>1
  <2>4. ~(q <= -128)
    <3> SUFFICES ASSUME q <= -128 PROVE FALSE  OBVIOUS
    <3>1. q * m <= (-128) * m  BY <2>1, ProductMonotone
    <3> QED  BY <1>2, <2>1, <2>2, <3>1
  <2>5. WeightCode(x, m) = Clamp(-127, 127, q)  BY <1>2 DEF WeightCode, q
  <2>6. q \in -127 .. 127  BY <2>1, <2>3, <2>4
  <2>7. WeightCode(x, m) = q  BY <2>5, <2>6 DEF Clamp, Greatest, Least
  <2> QED  BY <2>1, <2>2, <2>6, <2>7 DEF AbsOf
<1> QED  BY <1>1, <1>2

\* A weight code is an int8 other than -128, whatever it is scaled by.
LEMMA WeightCodeByte ==
  ASSUME NEW m \in Nat, NEW x \in Int
  PROVE  WeightCode(x, m) \in -127 .. 127
<1>1. CASE m = 0  BY <1>1 DEF WeightCode
<1>2. CASE m # 0
  <2>1. x * 127 \in Int /\ m \in Nat \ {0}  BY <1>2
  <2>2. RoundAway(x * 127, m) \in Int  BY <2>1, RoundAwayClose, Zenon
  <2>3. WeightCode(x, m) = Clamp(-127, 127, RoundAway(x * 127, m))  BY <1>2 DEF WeightCode
  <2> QED  BY <2>2, <2>3 DEF Clamp, Greatest, Least
<1> QED  BY <1>1, <1>2

\* The byte of column n and depth k, and what ColAt and KAt make of it.
LEMMA PackedIndex ==
  ASSUME NEW K \in Nat, NEW n \in Nat, NEW k \in 0 .. 4 * K4(K) - 1
  PROVE  LET i == (n \div NR) * BlockBytes(K) + 32 * (k \div 4) + 4 * (n % NR) + (k % 4)
         IN  i \in Nat /\ ColAt(K, i) = n /\ KAt(K, i) = k /\ i \div BlockBytes(K) = n \div NR
<1> DEFINE g == k \div 4
           l == k % 4
           b == n \div NR
           c == n % NR
           r == 32 * g + 4 * c + l
           B == BlockBytes(K)
           i == b * B + 32 * g + 4 * c + l
<1>1. K4(K) \in Nat /\ K4(K) # 0 /\ B = 32 * K4(K)  BY DEF K4, BlockBytes, NR
<1>2. g \in 0 .. K4(K) - 1 /\ l \in 0 .. 3 /\ k = 4 * g + l  BY <1>1
<1>3. b \in Nat /\ c \in 0 .. 7 /\ n = 8 * b + c  BY DEF NR
<1> HIDE DEF g, l, b, c, B
<1>4. r \in 0 .. B - 1 /\ i = B * b + r  BY <1>1, <1>2, <1>3
<1>5. B \in Nat \ {0}  BY <1>1
<1>6. i \div B = b /\ i % B = r
  <2>1. (B * b + r) \div B = b /\ (B * b + r) % B = r
    <3>1. b \in Int  BY <1>3
    <3> QED  BY <1>4, <1>5, <3>1, DivModUnique, Zenon
  <2> QED  BY <1>4, <2>1
<1>7. i % 32 = 4 * c + l /\ i % 4 = l
  <2>1. i = 32 * (K4(K) * b + g) + (4 * c + l) /\ K4(K) * b + g \in Int  BY <1>1, <1>2, <1>3, <1>4
  <2> DEFINE p == K4(K) * b + g
  <2> HIDE DEF p, i
  <2>2. i = 32 * p + (4 * c + l) /\ p \in Int  BY <2>1 DEF p
  <2> QED  BY <1>2, <1>3, <2>2
<1>8. r \div 32 = g /\ (4 * c + l) \div 4 = c  BY <1>2, <1>3
<1>9. ColAt(K, i) = b * 8 + c  BY <1>6, <1>7, <1>8 DEF ColAt, NR, B
<1>10. KAt(K, i) = g * 4 + l  BY <1>6, <1>7, <1>8 DEF KAt, B
<1>11. i \in Nat  BY <1>3, <1>4, <1>5
<1> QED  BY <1>2, <1>3, <1>6, <1>9, <1>10, <1>11 DEF B, b, c, g, l

\* Every byte belongs to one column and depth.
LEMMA PackedWhole ==
  ASSUME NEW K \in Nat, K > 0, NEW i \in Nat
  PROVE  /\ ColAt(K, i) \in Nat /\ KAt(K, i) \in 0 .. 4 * K4(K) - 1
         /\ i = (ColAt(K, i) \div NR) * BlockBytes(K) + 32 * (KAt(K, i) \div 4)
                  + 4 * (ColAt(K, i) % NR) + (KAt(K, i) % 4)
<1> DEFINE B == BlockBytes(K)
           b == i \div B
           r == i % B
           c == (i % 32) \div 4
           g == r \div 32
           l == i % 4
<1>1. K4(K) \in Nat \ {0} /\ B = 32 * K4(K)  BY DEF K4, BlockBytes, NR
<1>2. B \in Nat \ {0}  BY <1>1
<1>3. i = B * b + r /\ r \in 0 .. B - 1 /\ b \in Nat
  <2>1. i \in Int  OBVIOUS
  <2>2. i = B * b + r /\ r \in 0 .. B - 1 /\ b \in Int  BY <1>2, <2>1, DivMod, Zenon
  <2>3. B * 0 <= i /\ i < B * (i + 1)  BY <1>2
  <2>4. 0 <= b  BY <1>2, <2>3, DivBounds
  <2> QED  BY <2>2, <2>4
<1>4. c \in 0 .. 7 /\ l \in 0 .. 3 /\ i % 32 = 4 * c + l  OBVIOUS
<1> HIDE DEF B, b, r
<1>5. g \in Nat /\ g < K4(K) /\ r = 32 * g + (r % 32) /\ r \in Nat  BY <1>1, <1>3
<1>6. i % 32 = r % 32
  <2>1. i = 32 * (K4(K) * b) + r /\ K4(K) * b \in Int  BY <1>1, <1>3
  <2> DEFINE p == K4(K) * b
  <2> HIDE DEF p
  <2>2. i = 32 * p + r /\ p \in Int  BY <2>1 DEF p
  <2> QED  BY <1>5, <2>2
<1>7. ColAt(K, i) = 8 * b + c /\ KAt(K, i) = 4 * g + l
  BY <1>3, <1>4, <1>5 DEF ColAt, KAt, NR, B, b, r
<1>8. r = 32 * g + 4 * c + l  BY <1>4, <1>5, <1>6
<1> HIDE DEF c, g, l
<1>9. /\ (8 * b + c) \div NR = b /\ (8 * b + c) % NR = c
      /\ (4 * g + l) \div 4 = g /\ (4 * g + l) % 4 = l
  BY <1>3, <1>4, <1>5 DEF NR
<1>10. i = b * B + 32 * g + 4 * c + l  BY <1>1, <1>3, <1>4, <1>5, <1>8
<1>11. /\ ColAt(K, i) \div NR = b /\ ColAt(K, i) % NR = c
       /\ KAt(K, i) \div 4 = g /\ KAt(K, i) % 4 = l
  BY <1>7, <1>9
<1>12. ColAt(K, i) \in Nat /\ KAt(K, i) \in 0 .. 4 * K4(K) - 1
  BY <1>1, <1>3, <1>4, <1>5, <1>7
<1> HIDE DEF ColAt, KAt
<1> QED  BY <1>10, <1>11, <1>12 DEF B

\* PackW puts the code of weight (n, k) where PackedAt reads it, and zero in the
\* padding of a block of columns and of a group of depths.
THEOREM PackedWeights ==
  ASSUME NEW N \in Nat, NEW K \in Nat, NEW w,
         NEW n \in 0 .. 8 * NBlocks(N) - 1, NEW k \in 0 .. 4 * K4(K) - 1
  PROVE  PackedAt(PackW(w, N, K), K, n, k) =
           IF n < N /\ k < K THEN WeightCode(w[n][k], RowMax(w, N, K)[n]) ELSE 0
<1> DEFINE i == (n \div NR) * BlockBytes(K) + 32 * (k \div 4) + 4 * (n % NR) + (k % 4)
           Top == RowMax(w, N, K)
<1>1. i \in Nat /\ ColAt(K, i) = n /\ KAt(K, i) = k /\ i \div BlockBytes(K) = n \div NR
  <2>1. n \in Nat  OBVIOUS
  <2> QED  BY <2>1, PackedIndex
<1>2. i < NBlocks(N) * BlockBytes(K)
  <2> DEFINE B == BlockBytes(K)
             b == n \div NR
  <2>1. B \in Nat \ {0} /\ NBlocks(N) \in Nat /\ b \in Nat /\ b + 1 <= NBlocks(N)
    BY DEF BlockBytes, K4, NR, NBlocks
  <2>2. i \in Int /\ i = B * (i \div B) + (i % B) /\ i % B \in 0 .. B - 1
    <3>1. i \in Int  BY <1>1
    <3> HIDE DEF i, B
    <3> QED  BY <2>1, <3>1, DivMod, Zenon
  <2>3. i \div B = b  BY <1>1
  <2> HIDE DEF i, b, B
  <2>4. i < (b + 1) * B  BY <2>1, <2>2, <2>3
  <2>5. (b + 1) * B <= NBlocks(N) * B  BY <2>1, ProductMonotone
  <2>6. (b + 1) * B \in Int /\ NBlocks(N) * B \in Int  BY <2>1
  <2> QED  BY <2>2, <2>4, <2>5, <2>6 DEF B
<1> HIDE DEF i
<1>3. i \in 0 .. (NBlocks(N) * BlockBytes(K)) - 1
  <2>1. NBlocks(N) * BlockBytes(K) \in Int
    BY DEF BlockBytes, K4, NR, NBlocks
  <2> QED  BY <1>1, <1>2, <2>1
<1>4. PackW(w, N, K)[i] = IF ColAt(K, i) < N /\ KAt(K, i) < K
                          THEN WeightCode(w[ColAt(K, i)][KAt(K, i)], Top[ColAt(K, i)]) ELSE 0
  BY <1>3 DEF PackW
<1>5. PackedAt(PackW(w, N, K), K, n, k) = PackW(w, N, K)[i]  BY DEF PackedAt, i
<1> QED  BY <1>1, <1>4, <1>5

-----------------------------------------------------------------------------
(* The repackers: each kernel finds at its offset the byte it means *)

\* Offset r of tile (or block) b, of size s.
LEMMA TileOffset ==
  ASSUME NEW s \in Nat \ {0}, NEW b \in Nat, NEW r \in 0 .. s - 1, NEW n \in Nat, b < n
  PROVE  /\ (b * s + r) \div s = b /\ (b * s + r) % s = r
         /\ b * s + r \in 0 .. n * s - 1
<1>1. b \in Int /\ s * b + r = b * s + r /\ b * s \in Nat /\ n * s \in Int  OBVIOUS
<1>2. (s * b + r) \div s = b /\ (s * b + r) % s = r  BY <1>1, DivModUnique, Zenon
<1>3. (b + 1) * s <= n * s  BY ProductMonotone
<1>4. (b + 1) * s = b * s + s  OBVIOUS
<1>5. b * s + r \in 0 .. n * s - 1  BY <1>1, <1>3, <1>4
<1> QED  BY <1>1, <1>2, <1>5

\* fe_dotprod_repack_a_rp: the DOTPROD kernels' offset of row m and depth k.
THEOREM RowQuadsExact ==
  ASSUME NEW M \in Nat, NEW K \in Nat, K % 4 = 0, NEW A,
         NEW m \in 0 .. (M \div MR) * MR - 1, NEW k \in 0 .. K - 1
  PROVE  RowQuads(A, M, K)[(m \div MR) * MR * K + 32 * (k \div 4) + 4 * (m % MR) + (k % 4)]
           = A[m * K + k]
<1> DEFINE b == m \div MR
           c == m % MR
           g == k \div 4
           l == k % 4
           r == 32 * g + 4 * c + l
           s == MR * K
           i == b * s + r
<1>1. b \in Nat /\ b < M \div MR /\ c \in 0 .. 7 /\ m = 8 * b + c  BY DEF MR
<1>2. g \in Nat /\ l \in 0 .. 3 /\ k = 4 * g + l /\ 4 * g + 3 < K  OBVIOUS
<1>3. s = 8 * K /\ s \in Nat \ {0}  BY DEF MR
<1>4. M \div MR \in Nat  BY DEF MR
<1> HIDE DEF b, c, g, l, s
<1>5. r \in 0 .. s - 1  BY <1>1, <1>2, <1>3
<1>6. (r % 32) \div 4 = c /\ r \div 32 = g /\ r % 4 = l  BY <1>1, <1>2
<1> HIDE DEF r
<1>7. i \div s = b /\ i % s = r /\ i \in 0 .. (M \div MR) * s - 1
  BY <1>1, <1>3, <1>4, <1>5, TileOffset
<1>8. (M \div MR) * s = (M \div MR) * MR * K /\ b * s = b * MR * K
  BY <1>1, <1>4 DEF s, MR
<1> HIDE DEF i
<1>9. RowQuads(A, M, K)[i] = A[((i \div s) * MR + (((i % s) % 32) \div 4)) * K
                                + ((i % s) \div 32) * 4 + ((i % s) % 4)]
  BY <1>7, <1>8 DEF RowQuads, s
<1>10. (b * MR + c) * K + g * 4 + l = m * K + k
  <2>1. b * MR + c = m /\ g * 4 + l = k  BY <1>1, <1>2 DEF MR
  <2>2. m * K \in Int  OBVIOUS
  <2> QED  BY <1>2, <2>1, <2>2
<1>11. RowQuads(A, M, K)[i] = A[m * K + k]  BY <1>6, <1>7, <1>9, <1>10
<1>12. i = (m \div MR) * MR * K + 32 * (k \div 4) + 4 * (m % MR) + (k % 4)
  <2>1. i = b * MR * K + r /\ b * MR * K \in Int  BY <1>1, <1>8 DEF i, MR
  <2>2. i = b * MR * K + 32 * g + 4 * c + l  BY <1>1, <1>2, <2>1 DEF r
  <2> QED  BY <2>2 DEF b, c, g, l
<1> QED  BY <1>11, <1>12

\* fe_i8mm_repack_a_rp: the I8MM kernels' offset of row m and depth k.
THEOREM RowPairsExact ==
  ASSUME NEW M \in Nat, NEW K \in Nat, K % 8 = 0, NEW A,
         NEW m \in 0 .. (M \div MR) * MR - 1, NEW k \in 0 .. K - 1
  PROVE  RowPairs(A, M, K)[(m \div MR) * MR * K + 64 * (k \div 8) + 16 * ((m % MR) \div 2)
                           + 8 * (m % 2) + (k % 8)]
           = A[m * K + k]
<1> DEFINE b == m \div MR
           c == (m % MR) \div 2
           d == m % 2
           g == k \div 8
           l == k % 8
           r == 64 * g + 16 * c + 8 * d + l
           s == MR * K
           i == b * s + r
<1>1. b \in Nat /\ b < M \div MR /\ c \in 0 .. 3 /\ d \in 0 .. 1 /\ m = 8 * b + 2 * c + d
  BY DEF MR
<1>2. g \in Nat /\ l \in 0 .. 7 /\ k = 8 * g + l /\ 8 * g + 7 < K  OBVIOUS
<1>3. s = 8 * K /\ s \in Nat \ {0}  BY DEF MR
<1>4. M \div MR \in Nat  BY DEF MR
<1> HIDE DEF b, c, d, g, l, s
<1>5. r \in 0 .. s - 1  BY <1>1, <1>2, <1>3
<1>6. (r % 64) \div 16 = c /\ (r % 16) \div 8 = d /\ r \div 64 = g /\ r % 8 = l  BY <1>1, <1>2
<1> HIDE DEF r
<1>7. i \div s = b /\ i % s = r /\ i \in 0 .. (M \div MR) * s - 1
  BY <1>1, <1>3, <1>4, <1>5, TileOffset
<1>8. (M \div MR) * s = (M \div MR) * MR * K /\ b * s = b * MR * K
  BY <1>1, <1>4 DEF s, MR
<1> HIDE DEF i
<1>9. RowPairs(A, M, K)[i]
        = A[((i \div s) * MR + (2 * (((i % s) % 64) \div 16) + (((i % s) % 16) \div 8))) * K
            + ((i % s) \div 64) * 8 + ((i % s) % 8)]
  BY <1>7, <1>8 DEF RowPairs, s
<1>10. (b * MR + (2 * c + d)) * K + g * 8 + l = m * K + k
  <2>1. b * MR + (2 * c + d) = m /\ g * 8 + l = k  BY <1>1, <1>2 DEF MR
  <2>2. m * K \in Int  OBVIOUS
  <2> QED  BY <1>2, <2>1, <2>2
<1>11. RowPairs(A, M, K)[i] = A[m * K + k]  BY <1>6, <1>7, <1>9, <1>10
<1>12. i = (m \div MR) * MR * K + 64 * (k \div 8) + 16 * ((m % MR) \div 2)
             + 8 * (m % 2) + (k % 8)
  <2>1. i = b * MR * K + r /\ b * MR * K \in Int  BY <1>1, <1>8 DEF i, MR
  <2>2. i = b * MR * K + 64 * g + 16 * c + 8 * d + l  BY <1>1, <1>2, <2>1 DEF r
  <2> QED  BY <2>2 DEF b, c, d, g, l
<1> QED  BY <1>11, <1>12

\* fe_qgemm_repack_i8mm: the I8MM kernels' offset of column n and depth k.
THEOREM RepackExact ==
  ASSUME NEW N \in Nat, NEW K \in Nat, K % 8 = 0, NEW p,
         0 .. (N \div NR) * BlockBytes(K) - 1 \subseteq DOMAIN p,
         NEW n \in 0 .. (N \div NR) * NR - 1, NEW k \in 0 .. K - 1
  PROVE  RepackI8mm(p, N, K)[(n \div NR) * BlockBytes(K) + 64 * (k \div 8)
                             + 16 * ((n % NR) \div 2) + 8 * (n % 2) + (k % 8)]
           = PackedAt(p, K, n, k)
<1> DEFINE b == n \div NR
           c == (n % NR) \div 2
           d == n % 2
           g == k \div 8
           l == k % 8
           r == 64 * g + 16 * c + 8 * d + l
           B == BlockBytes(K)
           i == b * B + r
           j == (r % 64) \div 4
           blk == [e \in 0 .. (N \div NR) - 1 |-> RepackBlock(p, e * B, K)]
<1>1. b \in Nat /\ b < N \div NR /\ c \in 0 .. 3 /\ d \in 0 .. 1 /\ n % NR = 2 * c + d
  BY DEF NR
<1>2. g \in Nat /\ l \in 0 .. 7 /\ k = 8 * g + l /\ 8 * g + 7 < K  OBVIOUS
<1>3. B = 8 * K /\ B = (K \div 8) * 64 /\ B \in Nat \ {0}  BY DEF BlockBytes, K4, NR
<1>4. N \div NR \in Nat  BY DEF NR
<1>5. k \div 4 = 2 * g + (l \div 4) /\ k % 4 = l % 4  BY <1>2
<1> HIDE DEF b, c, d, g, l, B
<1>6. r \in 0 .. B - 1  BY <1>1, <1>2, <1>3
<1>7. r \div 64 = g /\ j % 2 = l \div 4 /\ j \div 2 = 2 * c + d /\ r % 4 = l % 4  BY <1>1, <1>2
<1> HIDE DEF r, j
<1>8. i \div B = b /\ i % B = r /\ i \in 0 .. (N \div NR) * B - 1
  BY <1>1, <1>3, <1>4, <1>6, TileOffset
<1> HIDE DEF i
<1>9. RepackI8mm(p, N, K)[i] = blk[i \div B][i % B]
  <2>1. i \in DOMAIN p /\ i < (N \div NR) * B
    <3>1. (N \div NR) * B \in Int  BY <1>3, <1>4
    <3>2. i \in DOMAIN p  BY <1>8 DEF B
    <3> QED  BY <1>8, <3>1, <3>2
  <2> QED  BY <2>1 DEF RepackI8mm, B
<1>10. blk[b] = RepackBlock(p, b * B, K)
  <2>1. b \in 0 .. (N \div NR) - 1  BY <1>1, <1>4
  <2> QED  BY <2>1
<1>11. RepackBlock(p, b * B, K)[r]
         = p[b * B + (2 * (r \div 64) + (j % 2)) * 32 + (j \div 2) * 4 + (r % 4)]
  <2>1. r \in 0 .. (K \div 8) * 64 - 1  BY <1>3, <1>6
  <2> QED  BY <2>1 DEF RepackBlock, j
<1>12. b * B + (2 * g + (l \div 4)) * 32 + (2 * c + d) * 4 + (l % 4)
         = b * B + 32 * (k \div 4) + 4 * (n % NR) + (k % 4)
  <2>1. b * B \in Int  BY <1>1, <1>3
  <2> QED  BY <1>1, <1>2, <1>5, <2>1
<1>13. RepackI8mm(p, N, K)[i] = PackedAt(p, K, n, k)
  BY <1>7, <1>8, <1>9, <1>10, <1>11, <1>12 DEF PackedAt, B, b
<1>14. i = (n \div NR) * BlockBytes(K) + 64 * (k \div 8) + 16 * ((n % NR) \div 2)
             + 8 * (n % 2) + (k % 8)
  <2>1. i = b * B + r /\ b * B \in Int  BY <1>1, <1>3 DEF i
  <2>2. i = b * B + 64 * g + 16 * c + 8 * d + l  BY <1>1, <1>2, <2>1 DEF r
  <2> QED  BY <2>2 DEF b, c, d, g, l, B
<1> QED  BY <1>13, <1>14

\* fe_avx2_i16_repack_b: where a block of pairs has column c and depth k.
THEOREM KPairsExact ==
  ASSUME NEW K \in Nat, NEW W, NEW base \in Nat, NEW c \in 0 .. NR - 1, NEW k \in 0 .. 4 * K4(K) - 1
  PROVE  KPairs(W, base, K)[16 * (k \div 2) + 2 * c + (k % 2)]
           = W[base + 32 * (k \div 4) + 4 * c + (k % 4)]
<1> DEFINE i == 16 * (k \div 2) + 2 * c + (k % 2)
<1>1. K4(K) \in Nat /\ BlockBytes(K) = 32 * K4(K) /\ c \in 0 .. 7  BY DEF K4, BlockBytes, NR
<1>2. i \in 0 .. BlockBytes(K) - 1  BY <1>1
<1>3. i \div 16 = k \div 2 /\ (i % 16) \div 2 = c /\ i % 2 = k % 2  BY <1>1
<1>4. (k \div 2) \div 2 = k \div 4 /\ 2 * ((k \div 2) % 2) + (k % 2) = k % 4  OBVIOUS
<1> HIDE DEF i
<1>5. KPairs(W, base, K)[i] = W[base + ((i \div 16) \div 2) * 32 + ((i % 16) \div 2) * 4
                                + 2 * ((i \div 16) % 2) + (i % 2)]
  BY <1>2 DEF KPairs
<1>6. base + (k \div 4) * 32 + c * 4 + 2 * ((k \div 2) % 2) + (k % 2)
        = base + 32 * (k \div 4) + 4 * c + (k % 4)
  BY <1>1, <1>4
<1>7. KPairs(W, base, K)[i] = W[base + 32 * (k \div 4) + 4 * c + (k % 4)]
  BY <1>3, <1>4, <1>5, <1>6
<1> QED  BY <1>7 DEF i

-----------------------------------------------------------------------------
(* A repacker moves bytes and makes none up *)

\* Block and place of a byte of n blocks of size s.
LEMMA InBlock ==
  ASSUME NEW s \in Nat \ {0}, NEW n \in Nat, NEW i \in 0 .. n * s - 1
  PROVE  i \div s \in 0 .. n - 1 /\ i % s \in 0 .. s - 1
<1>1. n * s \in Int /\ i \in Int /\ s * 0 <= i  OBVIOUS
<1>2. i < s * n  BY <1>1
<1>3. 0 <= i \div s /\ i \div s < n  BY <1>1, <1>2, DivBounds
<1>4. i \div s \in Int /\ i % s \in 0 .. s - 1  BY <1>1, DivMod
<1> QED  BY <1>3, <1>4

\* A packed byte is an int8 that is not -128.
LEMMA PackedBytes ==
  ASSUME NEW N \in Nat, NEW K \in Nat \ {0}, NEW w,
         \A n \in 0 .. N - 1, k \in 0 .. K - 1 : w[n][k] \in Int,
         NEW i \in DOMAIN PackW(w, N, K)
  PROVE  PackW(w, N, K)[i] \in -127 .. 127
<1> DEFINE n == ColAt(K, i)
           k == KAt(K, i)
           Top == RowMax(w, N, K)
<1>1. i \in 0 .. (NBlocks(N) * BlockBytes(K)) - 1  BY DEF PackW
<1>2. PackW(w, N, K)[i] = IF n < N /\ k < K THEN WeightCode(w[n][k], Top[n]) ELSE 0
  BY <1>1 DEF PackW
<1>3. n \in Nat /\ k \in Nat
  <2>1. i \in Nat  BY <1>1
  <2>2. K4(K) \in Nat  BY DEF K4
  <2> QED  BY <2>1, <2>2, PackedWhole
<1> HIDE DEF n, k
<1>4. CASE n < N /\ k < K
  <2>1. n \in 0 .. N - 1 /\ k \in 0 .. K - 1  BY <1>3, <1>4
  <2> DEFINE t == [j \in Nat |-> AbsOf(w[n][j])]
  <2>2. Top[n] = MaxTo(K, t)  BY <2>1 DEF RowMax
  <2>3. \A j \in 0 .. K - 1 : t[j] \in Int  BY <2>1 DEF AbsOf
  <2> HIDE DEF t, Top
  <2>4. Top[n] \in Nat  BY <2>2, <2>3, MaxToBounds
  <2>5. w[n][k] \in Int  BY <2>1
  <2> QED  BY <1>2, <1>4, <2>4, <2>5, WeightCodeByte
<1>5. CASE ~(n < N /\ k < K)  BY <1>2, <1>5
<1> QED  BY <1>4, <1>5

\* The source of a byte of row c, group g and lane l of tile b lies in A.
LEMMA InMatrix ==
  ASSUME NEW M \in Nat, NEW K \in Nat \ {0}, NEW b \in 0 .. (M \div MR) - 1, NEW c \in 0 .. 7,
         NEW k \in 0 .. K - 1
  PROVE  (b * MR + c) * K + k \in 0 .. M * K - 1
<1>1. M \div MR \in Nat /\ 8 * (M \div MR) <= M  BY DEF MR
<1>2. b * MR + c \in Nat /\ b * MR + c < M  BY <1>1 DEF MR
<1> QED  BY <1>2, TileOffset

\* Each byte of a repack by fours is one of the source,
LEMMA RowQuadsMoves ==
  ASSUME NEW M \in Nat, NEW K \in Nat \ {0}, K % 4 = 0, NEW A, NEW S,
         \A j \in 0 .. M * K - 1 : A[j] \in S,
         NEW i \in DOMAIN RowQuads(A, M, K)
  PROVE  RowQuads(A, M, K)[i] \in S
<1> DEFINE s == MR * K
           b == i \div s
           r == i % s
           c == (r % 32) \div 4
           g == r \div 32
           l == r % 4
<1>1. i \in 0 .. (M \div MR) * MR * K - 1  BY DEF RowQuads
<1>2. s \in Nat \ {0} /\ s = 8 * K /\ M \div MR \in Nat  BY DEF MR
<1>3. (M \div MR) * s = (M \div MR) * MR * K  BY <1>2 DEF MR
<1>4. RowQuads(A, M, K)[i] = A[(b * MR + c) * K + g * 4 + l]  BY <1>1 DEF RowQuads
<1>5. b \in 0 .. (M \div MR) - 1 /\ r \in 0 .. s - 1
  <2> HIDE DEF s
  <2> QED  BY <1>1, <1>2, <1>3, InBlock
<1> HIDE DEF s, b, r
<1>6. c \in 0 .. 7 /\ g * 4 + l \in 0 .. K - 1  BY <1>2, <1>5
<1> DEFINE k == g * 4 + l
<1>7. (b * MR + c) * K + k \in 0 .. M * K - 1
  <2> HIDE DEF c, k
  <2> QED  BY <1>5, <1>6, InMatrix DEF k
<1>8. (b * MR + c) * K + k = (b * MR + c) * K + g * 4 + l
  <2> HIDE DEF c
  <2>1. (b * MR + c) * K \in Int /\ g \in Int /\ l \in Int  BY <1>2, <1>5, <1>6 DEF MR
  <2> HIDE DEF g, l
  <2> QED  BY <2>1
<1> QED  BY <1>4, <1>7, <1>8

\* so is each of a repack by pairs,
LEMMA RowPairsMoves ==
  ASSUME NEW M \in Nat, NEW K \in Nat \ {0}, K % 8 = 0, NEW A, NEW S,
         \A j \in 0 .. M * K - 1 : A[j] \in S,
         NEW i \in DOMAIN RowPairs(A, M, K)
  PROVE  RowPairs(A, M, K)[i] \in S
<1> DEFINE s == MR * K
           b == i \div s
           r == i % s
           c == 2 * ((r % 64) \div 16) + ((r % 16) \div 8)
           g == r \div 64
           l == r % 8
<1>1. i \in 0 .. (M \div MR) * MR * K - 1  BY DEF RowPairs
<1>2. s \in Nat \ {0} /\ s = 8 * K /\ M \div MR \in Nat  BY DEF MR
<1>3. (M \div MR) * s = (M \div MR) * MR * K  BY <1>2 DEF MR
<1>4. RowPairs(A, M, K)[i] = A[(b * MR + c) * K + g * 8 + l]  BY <1>1 DEF RowPairs
<1>5. b \in 0 .. (M \div MR) - 1 /\ r \in 0 .. s - 1
  <2> HIDE DEF s
  <2> QED  BY <1>1, <1>2, <1>3, InBlock
<1> HIDE DEF s, b, r
<1>6. c \in 0 .. 7 /\ g * 8 + l \in 0 .. K - 1  BY <1>2, <1>5
<1> DEFINE k == g * 8 + l
<1>7. (b * MR + c) * K + k \in 0 .. M * K - 1
  <2> HIDE DEF c, k
  <2> QED  BY <1>5, <1>6, InMatrix DEF k
<1>8. (b * MR + c) * K + k = (b * MR + c) * K + g * 8 + l
  <2> HIDE DEF c
  <2>1. (b * MR + c) * K \in Int /\ g \in Int /\ l \in Int  BY <1>2, <1>5, <1>6 DEF MR
  <2> HIDE DEF g, l
  <2> QED  BY <2>1
<1> QED  BY <1>4, <1>7, <1>8

\* and each of the repack of the weights.
LEMMA RepackMoves ==
  ASSUME NEW N \in Nat, NEW K \in Nat \ {0}, NEW p, NEW S,
         DOMAIN p = 0 .. (NBlocks(N) * BlockBytes(K)) - 1,
         \A j \in DOMAIN p : p[j] \in S,
         NEW i \in DOMAIN RepackI8mm(p, N, K)
  PROVE  i \in DOMAIN p /\ RepackI8mm(p, N, K)[i] \in S
<1> DEFINE B == BlockBytes(K)
           b == i \div B
           r == i % B
           j == (r % 64) \div 4
           o == (2 * (r \div 64) + (j % 2)) * 32 + (j \div 2) * 4 + (r % 4)
           blk == [e \in 0 .. (N \div NR) - 1 |-> RepackBlock(p, e * B, K)]
<1>1. CASE K % 8 # 0  BY <1>1 DEF RepackI8mm
<1>2. CASE K % 8 = 0 /\ ~(i < (N \div NR) * B)
  <2>1. RepackI8mm(p, N, K) = [e \in DOMAIN p |-> IF e < (N \div NR) * B THEN blk[e \div B][e % B]
                                                                       ELSE p[e]]
    BY <1>2 DEF RepackI8mm
  <2> HIDE DEF blk, B
  <2> QED  BY <1>2, <2>1
<1>3. CASE K % 8 = 0 /\ i < (N \div NR) * B
  <2>1. RepackI8mm(p, N, K) = [e \in DOMAIN p |-> IF e < (N \div NR) * B THEN blk[e \div B][e % B]
                                                                       ELSE p[e]]
    BY <1>3 DEF RepackI8mm
  <2>2. /\ B = 8 * K /\ B = (K \div 8) * 64 /\ B \in Nat \ {0}
        /\ NBlocks(N) \in Nat /\ N \div NR \in Nat /\ N \div NR <= NBlocks(N)
    BY <1>3 DEF BlockBytes, K4, NR, NBlocks
  <2>3. i \in DOMAIN p /\ RepackI8mm(p, N, K)[i] = blk[b][r]
    <3> HIDE DEF blk, B
    <3> QED  BY <1>3, <2>1
  <2>4. b \in 0 .. (N \div NR) - 1 /\ r \in 0 .. B - 1
    <3>1. i \in 0 .. (N \div NR) * B - 1
      <4>1. i \in Nat  BY <2>3
      <4>2. (N \div NR) * B \in Int  BY <2>2
      <4> HIDE DEF B
      <4> QED  BY <1>3, <4>1, <4>2
    <3> HIDE DEF B
    <3> QED  BY <2>2, <3>1, InBlock
  <2>5. blk[b] = RepackBlock(p, b * B, K)  BY <2>4
  <2> HIDE DEF blk, b, r, B
  <2>6. RepackBlock(p, b * B, K)[r] = p[b * B + (2 * (r \div 64) + (j % 2)) * 32 + (j \div 2) * 4 + (r % 4)]
    <3>1. r \in 0 .. (K \div 8) * 64 - 1  BY <2>2, <2>4
    <3> QED  BY <3>1 DEF RepackBlock
  <2>7. o \in 0 .. B - 1
    <3>1. K \div 8 \in Nat /\ r \in Nat /\ r < 64 * (K \div 8)  BY <2>2, <2>4
    <3> DEFINE g == r \div 64
    <3>2. g \in Nat /\ g < K \div 8  BY <3>1
    <3>3. j \in 0 .. 15 /\ r % 4 \in 0 .. 3  BY <3>1
    <3> HIDE DEF g, j
    <3>4. j % 2 \in 0 .. 1 /\ j \div 2 \in 0 .. 7  BY <3>3
    <3> QED  BY <2>2, <3>1, <3>2, <3>3, <3>4 DEF g
  <2>8. b * B + o = b * B + (2 * (r \div 64) + (j % 2)) * 32 + (j \div 2) * 4 + (r % 4)
    <3>1. b * B \in Int /\ r \in Int  BY <2>2, <2>4
    <3> QED  BY <3>1
  <2>9. b * B + o \in DOMAIN p
    <3>1. b \in Nat /\ b < NBlocks(N)  BY <2>2, <2>4
    <3> HIDE DEF o
    <3> QED  BY <2>2, <2>7, <3>1, TileOffset DEF B
  <2> HIDE DEF o
  <2> QED  BY <2>3, <2>5, <2>6, <2>8, <2>9
<1> QED  BY <1>1, <1>2, <1>3

\* The bytes of a block of pairs are bytes of the packed block.
LEMMA KPairsMoves ==
  ASSUME NEW K \in Nat, NEW W, NEW base \in Nat, NEW S, NEW i \in 0 .. BlockBytes(K) - 1,
         \A j \in 0 .. BlockBytes(K) - 1 : W[base + j] \in S
  PROVE  KPairs(W, base, K)[i] \in S
<1> DEFINE kp == i \div 16
           o == (kp \div 2) * 32 + ((i % 16) \div 2) * 4 + 2 * (kp % 2) + (i % 2)
<1>1. K4(K) \in Nat /\ BlockBytes(K) = 32 * K4(K)  BY DEF K4, BlockBytes, NR
<1>2. KPairs(W, base, K)[i] = W[base + (kp \div 2) * 32 + ((i % 16) \div 2) * 4 + 2 * (kp % 2) + (i % 2)]
  BY DEF KPairs
<1>3. kp \in Nat /\ kp < 2 * K4(K)  BY <1>1
<1>4. (i % 16) \div 2 \in 0 .. 7 /\ i % 2 \in 0 .. 1  BY <1>1
<1> HIDE DEF kp
<1>5. kp \div 2 \in Nat /\ kp \div 2 < K4(K) /\ kp % 2 \in 0 .. 1  BY <1>1, <1>3
<1>6. o \in 0 .. BlockBytes(K) - 1  BY <1>1, <1>4, <1>5
<1>7. base + o = base + (kp \div 2) * 32 + ((i % 16) \div 2) * 4 + 2 * (kp % 2) + (i % 2)
  BY <1>4, <1>5
<1> HIDE DEF o
<1> QED  BY <1>2, <1>6, <1>7

-----------------------------------------------------------------------------
(* Sums in pieces *)

\* Four iterations of a sum at once.
LEMMA SumToFour ==
  ASSUME NEW t, NEW n \in Nat
  PROVE  SumTo(n + 4, t) = SumTo(n, t) + t[n] + t[n + 1] + t[n + 2] + t[n + 3]
<1>1. SumTo(n + 1, t) = SumTo(n, t) + t[n]  BY SumToStep
<1>2. SumTo(n + 2, t) = SumTo(n + 1, t) + t[n + 1]
  <2>1. n + 1 \in Nat /\ (n + 1) + 1 = n + 2  OBVIOUS
  <2> QED  BY <2>1, SumToStep
<1>3. SumTo(n + 3, t) = SumTo(n + 2, t) + t[n + 2]
  <2>1. n + 2 \in Nat /\ (n + 2) + 1 = n + 3  OBVIOUS
  <2> QED  BY <2>1, SumToStep
<1>4. SumTo(n + 4, t) = SumTo(n + 3, t) + t[n + 3]
  <2>1. n + 3 \in Nat /\ (n + 3) + 1 = n + 4  OBVIOUS
  <2> QED  BY <2>1, SumToStep
<1> QED  BY <1>1, <1>2, <1>3, <1>4

\* A sum of integers is an integer, whatever lies past its end.
LEMMA SumToInt ==
  ASSUME NEW t, NEW m \in Nat, \A i \in 0 .. m - 1 : t[i] \in Int
  PROVE  \A n \in 0 .. m : SumTo(n, t) \in Int
<1> DEFINE Whole == {n \in Nat : n <= m => SumTo(n, t) \in Int}
<1>1. 0 \in Whole
  <2>1. SumTo(0, t) = 0  BY SumToStep
  <2> QED  BY <2>1
<1>2. ASSUME NEW n \in Nat, n \in Whole PROVE n + 1 \in Whole
  <2>1. SumTo(n + 1, t) = SumTo(n, t) + t[n]  BY SumToStep
  <2> QED  BY <1>2, <2>1
<1> HIDE DEF Whole
<1>3. \A n \in Nat : n \in Whole  BY <1>1, <1>2, SetInduction
<1> QED  BY <1>3 DEF Whole

\* The sum of t[i] + c * u[i] is the sum of t plus c times the sum of u.
LEMMA SumToLinear ==
  ASSUME NEW t, NEW u, NEW v, NEW c \in Int, NEW m \in Nat,
         \A i \in 0 .. m - 1 : t[i] \in Int /\ u[i] \in Int /\ v[i] = t[i] + c * u[i]
  PROVE  SumTo(m, v) = SumTo(m, t) + c * SumTo(m, u)
<1> DEFINE Linear == {n \in Nat : n <= m => SumTo(n, v) = SumTo(n, t) + c * SumTo(n, u)}
<1>1. 0 \in Linear
  <2>1. SumTo(0, t) = 0 /\ SumTo(0, u) = 0 /\ SumTo(0, v) = 0  BY SumToStep
  <2> QED  BY <2>1
<1>2. \A n \in 0 .. m : SumTo(n, t) \in Int /\ SumTo(n, u) \in Int  BY SumToInt
<1>3. ASSUME NEW n \in Nat, n \in Linear PROVE n + 1 \in Linear
  <2> SUFFICES ASSUME n + 1 <= m PROVE SumTo(n + 1, v) = SumTo(n + 1, t) + c * SumTo(n + 1, u)
    OBVIOUS
  <2>1. /\ SumTo(n + 1, t) = SumTo(n, t) + t[n]
        /\ SumTo(n + 1, u) = SumTo(n, u) + u[n]
        /\ SumTo(n + 1, v) = SumTo(n, v) + v[n]
    BY SumToStep
  <2>2. SumTo(n, v) = SumTo(n, t) + c * SumTo(n, u)  BY <1>3
  <2>3. t[n] \in Int /\ u[n] \in Int /\ v[n] = t[n] + c * u[n]  OBVIOUS
  <2>4. SumTo(n, t) \in Int /\ SumTo(n, u) \in Int  BY <1>2
  <2>5. c * (SumTo(n, u) + u[n]) = c * SumTo(n, u) + c * u[n]  BY <2>3, <2>4
  <2>6. c * SumTo(n, u) \in Int /\ c * u[n] \in Int  BY <2>3, <2>4
  <2> QED  BY <2>1, <2>2, <2>3, <2>4, <2>5, <2>6
<1> HIDE DEF Linear
<1>4. \A n \in Nat : n \in Linear  BY <1>1, <1>3, SetInduction
<1> QED  BY <1>4 DEF Linear

\* A sum is the sum up to a place and the sum from there on.
LEMMA SumToSplit ==
  ASSUME NEW t, NEW a \in Nat, NEW m \in Nat, \A i \in 0 .. a + m - 1 : t[i] \in Int
  PROVE  SumTo(a + m, t) = SumTo(a, t) + SumTo(m, [i \in Nat |-> t[a + i]])
<1> DEFINE u == [i \in Nat |-> t[a + i]]
           Splits == {n \in Nat : n <= m => SumTo(a + n, t) = SumTo(a, t) + SumTo(n, u)}
<1>1. \A n \in 0 .. a + m : SumTo(n, t) \in Int
  <2>1. a + m \in Nat  OBVIOUS
  <2> QED  BY <2>1, SumToInt
<1>2. \A n \in 0 .. m : SumTo(n, u) \in Int
  <2>1. \A i \in 0 .. m - 1 : u[i] \in Int  OBVIOUS
  <2> HIDE DEF u
  <2> QED  BY <2>1, SumToInt
<1>3. 0 \in Splits
  <2>1. SumTo(0, u) = 0 /\ a + 0 = a  BY SumToStep
  <2>2. SumTo(a, t) \in Int  BY <1>1
  <2> QED  BY <2>1, <2>2
<1>4. ASSUME NEW n \in Nat, n \in Splits PROVE n + 1 \in Splits
  <2> SUFFICES ASSUME n + 1 <= m PROVE SumTo(a + (n + 1), t) = SumTo(a, t) + SumTo(n + 1, u)
    OBVIOUS
  <2>1. SumTo(n + 1, u) = SumTo(n, u) + u[n] /\ u[n] = t[a + n]  BY SumToStep
  <2>2. a + n \in Nat /\ a + (n + 1) = (a + n) + 1  OBVIOUS
  <2>3. SumTo((a + n) + 1, t) = SumTo(a + n, t) + t[a + n]  BY <2>2, SumToStep
  <2>4. SumTo(a + n, t) = SumTo(a, t) + SumTo(n, u)  BY <1>4
  <2>5. SumTo(a, t) \in Int /\ SumTo(n, u) \in Int /\ t[a + n] \in Int  BY <1>1, <1>2
  <2> HIDE DEF u
  <2> QED  BY <2>1, <2>2, <2>3, <2>4, <2>5
<1> HIDE DEF Splits
<1>5. \A n \in Nat : n \in Splits  BY <1>3, <1>4, SetInduction
<1> QED  BY <1>5 DEF Splits

\* A sum in pairs.
LEMMA SumToPairs ==
  ASSUME NEW t, NEW m \in Nat, \A i \in 0 .. 2 * m - 1 : t[i] \in Int
  PROVE  SumTo(2 * m, t) = SumTo(m, [i \in Nat |-> t[2 * i] + t[2 * i + 1]])
<1> DEFINE u == [i \in Nat |-> t[2 * i] + t[2 * i + 1]]
           Paired == {n \in Nat : n <= m => SumTo(2 * n, t) = SumTo(n, u)}
<1>1. \A n \in 0 .. 2 * m : SumTo(n, t) \in Int
  <2>1. 2 * m \in Nat  OBVIOUS
  <2> QED  BY <2>1, SumToInt
<1>2. 0 \in Paired
  <2>1. SumTo(0, u) = 0 /\ SumTo(0, t) = 0 /\ 2 * 0 = 0  BY SumToStep
  <2> QED  BY <2>1
<1>3. ASSUME NEW n \in Nat, n \in Paired PROVE n + 1 \in Paired
  <2> SUFFICES ASSUME n + 1 <= m PROVE SumTo(2 * (n + 1), t) = SumTo(n + 1, u)
    OBVIOUS
  <2>1. SumTo(n + 1, u) = SumTo(n, u) + u[n] /\ u[n] = t[2 * n] + t[2 * n + 1]  BY SumToStep
  <2>2. 2 * n \in Nat /\ 2 * n + 1 \in Nat /\ 2 * (n + 1) = (2 * n + 1) + 1  OBVIOUS
  <2>3. SumTo((2 * n + 1) + 1, t) = SumTo(2 * n + 1, t) + t[2 * n + 1]  BY <2>2, SumToStep
  <2>4. SumTo(2 * n + 1, t) = SumTo(2 * n, t) + t[2 * n]  BY <2>2, SumToStep
  <2>5. SumTo(2 * n, t) = SumTo(n, u)  BY <1>3
  <2>6. SumTo(2 * n, t) \in Int /\ t[2 * n] \in Int /\ t[2 * n + 1] \in Int  BY <1>1
  <2> HIDE DEF u
  <2> QED  BY <2>1, <2>2, <2>3, <2>4, <2>5, <2>6
<1> HIDE DEF Paired
<1>4. \A n \in Nat : n \in Paired  BY <1>2, <1>3, SetInduction
<1> QED  BY <1>4 DEF Paired

\* A sum of which one term is not zero.
LEMMA SumToSingle ==
  ASSUME NEW t, NEW m \in Nat, NEW j \in 0 .. m - 1, t[j] \in Int,
         \A i \in 0 .. m - 1 : i # j => t[i] = 0
  PROVE  SumTo(m, t) = t[j]
<1> DEFINE Single == {n \in Nat : n <= m => SumTo(n, t) = IF j < n THEN t[j] ELSE 0}
<1>1. 0 \in Single
  <2>1. SumTo(0, t) = 0  BY SumToStep
  <2> QED  BY <2>1
<1>2. ASSUME NEW n \in Nat, n \in Single PROVE n + 1 \in Single
  <2> SUFFICES ASSUME n + 1 <= m PROVE SumTo(n + 1, t) = IF j < n + 1 THEN t[j] ELSE 0
    OBVIOUS
  <2>1. SumTo(n + 1, t) = SumTo(n, t) + t[n]  BY SumToStep
  <2>2. SumTo(n, t) = IF j < n THEN t[j] ELSE 0  BY <1>2
  <2>3. CASE n = j  BY <2>1, <2>2, <2>3
  <2>4. CASE n # j
    <3>1. t[n] = 0  BY <2>4
    <3> QED  BY <2>1, <2>2, <2>4, <3>1
  <2> QED  BY <2>3, <2>4
<1> HIDE DEF Single
<1>3. \A n \in Nat : n \in Single  BY <1>1, <1>2, SetInduction
<1> QED  BY <1>3 DEF Single

\* The sum of two sums.
LEMMA SumToPlus ==
  ASSUME NEW t, NEW u, NEW m \in Nat, \A i \in 0 .. m - 1 : t[i] \in Int /\ u[i] \in Int
  PROVE  /\ SumTo(m, [i \in Nat |-> t[i] + u[i]]) = SumTo(m, t) + SumTo(m, u)
         /\ SumTo(m, t) \in Int /\ SumTo(m, u) \in Int
<1> DEFINE v == [i \in Nat |-> t[i] + u[i]]
<1>1. \A i \in 0 .. m - 1 : t[i] \in Int /\ u[i] \in Int /\ v[i] = t[i] + 1 * u[i]  OBVIOUS
<1>2. SumTo(m, t) \in Int /\ SumTo(m, u) \in Int
  <2>1. \A i \in 0 .. m - 1 : t[i] \in Int  OBVIOUS
  <2>2. \A i \in 0 .. m - 1 : u[i] \in Int  OBVIOUS
  <2>3. m \in 0 .. m  OBVIOUS
  <2>4. \A n \in 0 .. m : SumTo(n, t) \in Int  BY <2>1, SumToInt
  <2>5. \A n \in 0 .. m : SumTo(n, u) \in Int  BY <2>2, SumToInt
  <2> QED  BY <2>3, <2>4, <2>5
<1> HIDE DEF v
<1>3. 1 \in Int  OBVIOUS
<1>4. SumTo(m, v) = SumTo(m, t) + 1 * SumTo(m, u)  BY <1>1, <1>3, SumToLinear
<1> QED  BY <1>2, <1>4 DEF v

\* A sum in four parts of the same length.
LEMMA SumToFourParts ==
  ASSUME NEW t, NEW m \in Nat, \A i \in 0 .. 4 * m - 1 : t[i] \in Int
  PROVE  SumTo(4 * m, t)
           = SumTo(m, [i \in Nat |-> (t[i] + t[m + i]) + (t[2 * m + i] + t[3 * m + i])])
<1> DEFINE t1 == [i \in Nat |-> t[m + i]]
           t2 == [i \in Nat |-> t[2 * m + i]]
           t3 == [i \in Nat |-> t[3 * m + i]]
           a == [i \in Nat |-> t[i] + t1[i]]
           b == [i \in Nat |-> t2[i] + t3[i]]
           v == [i \in Nat |-> a[i] + b[i]]
<1>1. \A i \in 0 .. m - 1 :
        /\ t[i] \in Int /\ t1[i] \in Int /\ t2[i] \in Int /\ t3[i] \in Int
        /\ a[i] = t[i] + t1[i] /\ b[i] = t2[i] + t3[i]
  OBVIOUS
<1>2. SumTo(m + m, t) = SumTo(m, t) + SumTo(m, t1)  BY SumToSplit
<1>3. SumTo(2 * m + m, t) = SumTo(2 * m, t) + SumTo(m, t2)
  <2>1. 2 * m \in Nat /\ \A i \in 0 .. 2 * m + m - 1 : t[i] \in Int  OBVIOUS
  <2> QED  BY <2>1, SumToSplit
<1>4. SumTo(3 * m + m, t) = SumTo(3 * m, t) + SumTo(m, t3)
  <2>1. 3 * m \in Nat /\ \A i \in 0 .. 3 * m + m - 1 : t[i] \in Int  OBVIOUS
  <2> QED  BY <2>1, SumToSplit
<1>5. m + m = 2 * m /\ 2 * m + m = 3 * m /\ 3 * m + m = 4 * m  OBVIOUS
<1> HIDE DEF t1, t2, t3
<1>6. /\ SumTo(m, a) = SumTo(m, t) + SumTo(m, t1)
      /\ SumTo(m, t) \in Int /\ SumTo(m, t1) \in Int
  BY <1>1, SumToPlus
<1>7. /\ SumTo(m, b) = SumTo(m, t2) + SumTo(m, t3)
      /\ SumTo(m, t2) \in Int /\ SumTo(m, t3) \in Int
  BY <1>1, SumToPlus
<1>8. \A i \in 0 .. m - 1 : a[i] \in Int /\ b[i] \in Int  BY <1>1
<1> HIDE DEF a, b
<1>9. SumTo(m, v) = SumTo(m, a) + SumTo(m, b)  BY <1>8, SumToPlus
<1> HIDE DEF v
<1>10. SumTo(4 * m, t) = SumTo(m, v)  BY <1>2, <1>3, <1>4, <1>5, <1>6, <1>7, <1>9
<1>11. v = [i \in Nat |-> (t[i] + t[m + i]) + (t[2 * m + i] + t[3 * m + i])]
  BY DEF v, a, b, t1, t2, t3
<1> QED  BY <1>10, <1>11

\* Sums of eight terms each: the terms of one are those of a single sum of
\* 8 * m terms, in pairs, m pairs apart.
EightApart(t, u, m) ==
  \A c \in 0 .. m - 1 :
    /\ u[c][0] = t[2 * c] /\ u[c][4] = t[2 * c + 1]
    /\ u[c][1] = t[2 * (m + c)] /\ u[c][5] = t[2 * (m + c) + 1]
    /\ u[c][2] = t[2 * (2 * m + c)] /\ u[c][6] = t[2 * (2 * m + c) + 1]
    /\ u[c][3] = t[2 * (3 * m + c)] /\ u[c][7] = t[2 * (3 * m + c) + 1]

\* A sum over the places in order is one over groups of eight places apart.
LEMMA SumToInterleaved ==
  ASSUME NEW t, NEW m \in Nat, NEW u, EightApart(t, u, m),
         \A i \in 0 .. 8 * m - 1 : t[i] \in Int
  PROVE  SumTo(8 * m, t) = SumTo(m, [c \in Nat |-> SumTo(8, u[c])])
<1> DEFINE v == [i \in Nat |-> t[2 * i] + t[2 * i + 1]]
           w == [i \in Nat |-> (v[i] + v[m + i]) + (v[2 * m + i] + v[3 * m + i])]
           x == [c \in Nat |-> SumTo(8, u[c])]
<1>1. SumTo(8 * m, t) = SumTo(4 * m, v)
  <2>1. 4 * m \in Nat /\ 2 * (4 * m) = 8 * m  OBVIOUS
  <2>2. \A i \in 0 .. 2 * (4 * m) - 1 : t[i] \in Int  OBVIOUS
  <2>3. SumTo(2 * (4 * m), t) = SumTo(4 * m, v)  BY <2>1, <2>2, SumToPairs
  <2> HIDE DEF v
  <2> QED  BY <2>1, <2>3
<1>2. SumTo(4 * m, v) = SumTo(m, w)
  <2>1. \A i \in 0 .. 4 * m - 1 : v[i] \in Int  OBVIOUS
  <2> HIDE DEF v
  <2> QED  BY <2>1, SumToFourParts
<1>3. ASSUME NEW c \in 0 .. m - 1 PROVE w[c] = x[c]
  <2> DEFINE y == u[c]
  <2>1. /\ SumTo(4, y) = y[0] + y[1] + y[2] + y[3]
    <3>1. SumTo(0 + 4, y) = SumTo(0, y) + y[0] + y[0 + 1] + y[0 + 2] + y[0 + 3]  BY SumToFour
    <3>2. SumTo(0, y) = 0  BY SumToStep
    <3>3. y[0] \in Int  BY DEF EightApart
    <3> HIDE DEF y
    <3> QED  BY <3>1, <3>2, <3>3
  <2>2. SumTo(8, y) = SumTo(4, y) + y[4] + y[5] + y[6] + y[7]
    <3>1. SumTo(4 + 4, y) = SumTo(4, y) + y[4] + y[4 + 1] + y[4 + 2] + y[4 + 3]  BY SumToFour
    <3> HIDE DEF y
    <3> QED  BY <3>1
  <2>3. x[c] = SumTo(8, y)  OBVIOUS
  <2>4. /\ y[0] = t[2 * c] /\ y[4] = t[2 * c + 1]
        /\ y[1] = t[2 * (m + c)] /\ y[5] = t[2 * (m + c) + 1]
        /\ y[2] = t[2 * (2 * m + c)] /\ y[6] = t[2 * (2 * m + c) + 1]
        /\ y[3] = t[2 * (3 * m + c)] /\ y[7] = t[2 * (3 * m + c) + 1]
    BY DEF EightApart
  <2>5. /\ t[2 * c] \in Int /\ t[2 * c + 1] \in Int
        /\ t[2 * (m + c)] \in Int /\ t[2 * (m + c) + 1] \in Int
        /\ t[2 * (2 * m + c)] \in Int /\ t[2 * (2 * m + c) + 1] \in Int
        /\ t[2 * (3 * m + c)] \in Int /\ t[2 * (3 * m + c) + 1] \in Int
    OBVIOUS
  <2>6. /\ w[c] = (v[c] + v[m + c]) + (v[2 * m + c] + v[3 * m + c])
        /\ v[c] = t[2 * c] + t[2 * c + 1]
        /\ v[m + c] = t[2 * (m + c)] + t[2 * (m + c) + 1]
        /\ v[2 * m + c] = t[2 * (2 * m + c)] + t[2 * (2 * m + c) + 1]
        /\ v[3 * m + c] = t[2 * (3 * m + c)] + t[2 * (3 * m + c) + 1]
    OBVIOUS
  <2> HIDE DEF w, x, v, y
  <2> QED  BY <2>1, <2>2, <2>3, <2>4, <2>5, <2>6
<1> HIDE DEF v, w
<1>4. SumTo(m, w) = SumTo(m, x)
  <2> HIDE DEF x
  <2> QED  BY <1>3, SumToSame
<1> QED  BY <1>1, <1>2, <1>4

\* A linear relation between the terms of four sums holds between the sums.
Related(t, u, v, w, a, b, c, d, m) ==
  \A i \in 0 .. m - 1 : /\ t[i] \in Int /\ u[i] \in Int /\ v[i] \in Int /\ w[i] \in Int
                        /\ a * t[i] + b * u[i] + c * v[i] + d * w[i] = 0

\* A linear relation that holds of the terms holds of the sums.
LEMMA SumToRelation ==
  ASSUME NEW t, NEW u, NEW v, NEW w, NEW a \in Int, NEW b \in Int, NEW c \in Int, NEW d \in Int,
         NEW m \in Nat, Related(t, u, v, w, a, b, c, d, m)
  PROVE  /\ SumTo(m, t) \in Int /\ SumTo(m, u) \in Int /\ SumTo(m, v) \in Int /\ SumTo(m, w) \in Int
         /\ a * SumTo(m, t) + b * SumTo(m, u) + c * SumTo(m, v) + d * SumTo(m, w) = 0
<1> DEFINE Kept == {n \in Nat : n <= m =>
                      a * SumTo(n, t) + b * SumTo(n, u) + c * SumTo(n, v) + d * SumTo(n, w) = 0}
<1>1. \A n \in 0 .. m : /\ SumTo(n, t) \in Int /\ SumTo(n, u) \in Int
                        /\ SumTo(n, v) \in Int /\ SumTo(n, w) \in Int
  <2>1. /\ \A i \in 0 .. m - 1 : t[i] \in Int
        /\ \A i \in 0 .. m - 1 : u[i] \in Int
        /\ \A i \in 0 .. m - 1 : v[i] \in Int
        /\ \A i \in 0 .. m - 1 : w[i] \in Int
    BY DEF Related
  <2>2. /\ \A n \in 0 .. m : SumTo(n, t) \in Int
        /\ \A n \in 0 .. m : SumTo(n, u) \in Int
        /\ \A n \in 0 .. m : SumTo(n, v) \in Int
        /\ \A n \in 0 .. m : SumTo(n, w) \in Int
    BY <2>1, SumToInt
  <2> QED  BY <2>2
<1>2. 0 \in Kept
  <2>1. SumTo(0, t) = 0 /\ SumTo(0, u) = 0 /\ SumTo(0, v) = 0 /\ SumTo(0, w) = 0  BY SumToStep
  <2> QED  BY <2>1
<1>3. ASSUME NEW n \in Nat, n \in Kept PROVE n + 1 \in Kept
  <2> SUFFICES ASSUME n + 1 <= m
               PROVE  a * SumTo(n + 1, t) + b * SumTo(n + 1, u) + c * SumTo(n + 1, v)
                        + d * SumTo(n + 1, w) = 0
    OBVIOUS
  <2> DEFINE T == SumTo(n, t)
             U == SumTo(n, u)
             V == SumTo(n, v)
             W == SumTo(n, w)
  <2>1. SumTo(n + 1, t) = T + t[n] /\ SumTo(n + 1, u) = U + u[n]  BY SumToStep
  <2>2. SumTo(n + 1, v) = V + v[n] /\ SumTo(n + 1, w) = W + w[n]  BY SumToStep
  <2>3. T \in Int /\ U \in Int /\ V \in Int /\ W \in Int  BY <1>1
  <2>4. t[n] \in Int /\ u[n] \in Int /\ v[n] \in Int /\ w[n] \in Int  BY DEF Related
  <2>5. a * T + b * U + c * V + d * W = 0  BY <1>3
  <2>6. a * t[n] + b * u[n] + c * v[n] + d * w[n] = 0  BY DEF Related
  <2> HIDE DEF T, U, V, W
  <2>7. /\ a * (T + t[n]) = a * T + a * t[n] /\ b * (U + u[n]) = b * U + b * u[n]
        /\ c * (V + v[n]) = c * V + c * v[n] /\ d * (W + w[n]) = d * W + d * w[n]
    BY <2>3, <2>4
  <2>8. /\ a * T \in Int /\ a * t[n] \in Int /\ b * U \in Int /\ b * u[n] \in Int
        /\ c * V \in Int /\ c * v[n] \in Int /\ d * W \in Int /\ d * w[n] \in Int
    BY <2>3, <2>4
  <2> QED  BY <2>1, <2>2, <2>5, <2>6, <2>7, <2>8
<1> HIDE DEF Kept
<1>4. \A n \in Nat : n \in Kept  BY <1>2, <1>3, SetInduction
<1>5. m \in Kept /\ m \in 0 .. m  BY <1>4
<1> QED  BY <1>1, <1>5 DEF Kept

\* A sum in triples.
LEMMA SumToTriples ==
  ASSUME NEW t, NEW m \in Nat, \A i \in 0 .. 3 * m - 1 : t[i] \in Int
  PROVE  SumTo(3 * m, t) = SumTo(m, [i \in Nat |-> t[3 * i] + t[3 * i + 1] + t[3 * i + 2]])
<1> DEFINE u == [i \in Nat |-> t[3 * i] + t[3 * i + 1] + t[3 * i + 2]]
           Tripled == {n \in Nat : n <= m => SumTo(3 * n, t) = SumTo(n, u)}
<1>1. \A n \in 0 .. 3 * m : SumTo(n, t) \in Int
  <2>1. 3 * m \in Nat  OBVIOUS
  <2> QED  BY <2>1, SumToInt
<1>2. 0 \in Tripled
  <2>1. SumTo(0, u) = 0 /\ SumTo(0, t) = 0 /\ 3 * 0 = 0  BY SumToStep
  <2> QED  BY <2>1
<1>3. ASSUME NEW n \in Nat, n \in Tripled PROVE n + 1 \in Tripled
  <2> SUFFICES ASSUME n + 1 <= m PROVE SumTo(3 * (n + 1), t) = SumTo(n + 1, u)
    OBVIOUS
  <2>1. SumTo(n + 1, u) = SumTo(n, u) + u[n] /\ u[n] = t[3 * n] + t[3 * n + 1] + t[3 * n + 2]
    BY SumToStep
  <2>2. /\ 3 * n \in Nat /\ 3 * n + 1 \in Nat /\ 3 * n + 2 \in Nat
        /\ 3 * (n + 1) = (3 * n + 2) + 1 /\ 3 * n + 2 = (3 * n + 1) + 1
    OBVIOUS
  <2>3. SumTo((3 * n + 2) + 1, t) = SumTo(3 * n + 2, t) + t[3 * n + 2]  BY <2>2, SumToStep
  <2>4. SumTo((3 * n + 1) + 1, t) = SumTo(3 * n + 1, t) + t[3 * n + 1]  BY <2>2, SumToStep
  <2>5. SumTo(3 * n + 1, t) = SumTo(3 * n, t) + t[3 * n]  BY <2>2, SumToStep
  <2>6. SumTo(3 * n, t) = SumTo(n, u)  BY <1>3
  <2>7. /\ SumTo(3 * n, t) \in Int /\ t[3 * n] \in Int
        /\ t[3 * n + 1] \in Int /\ t[3 * n + 2] \in Int
    BY <1>1
  <2> HIDE DEF u
  <2> QED  BY <2>1, <2>2, <2>3, <2>4, <2>5, <2>6, <2>7
<1> HIDE DEF Tripled
<1>4. \A n \in Nat : n \in Tripled  BY <1>2, <1>3, SetInduction
<1> QED  BY <1>4 DEF Tripled

-----------------------------------------------------------------------------
(* Codes of 127 steps to a peak, and their products *)

\* A product is within the product of the bounds.
LEMMA ProductWithin ==
  ASSUME NEW a \in Nat, NEW b \in Nat, NEW u \in -a .. a, NEW v \in -b .. b
  PROVE  u * v \in Int /\ -(a * b) <= u * v /\ u * v <= a * b
<1>1. u * v \in Int /\ a * b \in Int  OBVIOUS
<1>2. CASE v >= 0
  <2>1. u * v <= a * v /\ (-a) * v <= u * v  BY <1>2, ProductMonotone
  <2>2. v * a <= b * a  BY ProductMonotone
  <2>3. v * a = a * v /\ b * a = a * b /\ (-a) * v = -(a * v) /\ a * v \in Int  OBVIOUS
  <2> QED  BY <1>1, <2>1, <2>2, <2>3
<1>3. CASE v <= 0
  <2>1. u * (-v) <= a * (-v) /\ (-a) * (-v) <= u * (-v)  BY <1>3, ProductMonotone
  <2>2. (-v) * a <= b * a  BY ProductMonotone
  <2>3. /\ (-v) * a = a * (-v) /\ b * a = a * b /\ (-a) * (-v) = -(a * (-v)) /\ a * (-v) \in Int
        /\ u * (-v) = -(u * v)
    OBVIOUS
  <2> QED  BY <1>1, <2>1, <2>2, <2>3
<1> QED  BY <1>2, <1>3

\* The code q of a value v within a peak that 127 stands for.
Coded(v, peak, q) ==
  v \in -peak .. peak /\ q \in -127 .. 127 /\ 2 * AbsOf(v * 127 - q * peak) <= peak

\* The product of two codes is close to the product of their values.
LEMMA ProductClose ==
  ASSUME NEW P \in Nat, NEW T \in Nat, NEW d, NEW g, NEW x, NEW y, Coded(d, P, x), Coded(g, T, y)
  PROVE  /\ d * g \in Int /\ x * y \in Int /\ P * T \in Nat
         /\ 127 * 127 * (d * g) - (P * T) * (x * y) \in -(127 * (P * T)) .. 127 * (P * T)
<1>1. d \in -P .. P /\ x \in -127 .. 127 /\ 2 * AbsOf(d * 127 - x * P) <= P  BY DEF Coded
<1>2. g \in -T .. T /\ y \in -127 .. 127 /\ 2 * AbsOf(g * 127 - y * T) <= T  BY DEF Coded
<1> DEFINE e == 254 * d - 2 * (x * P)
           f == 254 * g - 2 * (y * T)
           PT == P * T
<1>3. e \in -P .. P
  <2>1. x * P \in Int /\ d * 127 \in Int  BY <1>1
  <2> QED  BY <1>1, <2>1 DEF AbsOf
<1>4. f \in -T .. T
  <2>1. y * T \in Int /\ g * 127 \in Int  BY <1>2
  <2> QED  BY <1>2, <2>1 DEF AbsOf
<1>5. d \in Int /\ g \in Int /\ x \in Int /\ y \in Int  BY <1>1, <1>2
<1>6. PT \in Nat  OBVIOUS
<1>7. 2 * (127 * 127 * (d * g) - PT * (x * y)) = 127 * (e * g) + P * (x * f)
  <2>1. e * g = 254 * (d * g) - 2 * (x * (P * g))  BY <1>5
  <2>2. x * f = 254 * (x * g) - 2 * (x * (y * T))  BY <1>5
  <2>3. P * (x * f) = 254 * (P * (x * g)) - 2 * (P * (x * (y * T)))
    <3> DEFINE xg == x * g
               xyT == x * (y * T)
    <3>1. xg \in Int /\ xyT \in Int  BY <1>5
    <3>2. x * f = 254 * xg - 2 * xyT  BY <2>2
    <3> HIDE DEF xg, xyT, f
    <3>3. P * (254 * xg - 2 * xyT) = 254 * (P * xg) - 2 * (P * xyT)  BY <3>1
    <3> QED  BY <3>2, <3>3 DEF xg, xyT
  <2>4. P * (x * (y * T)) = PT * (x * y)  BY <1>5
  <2>5. x * (P * g) = P * (x * g)  BY <1>5
  <2>6. /\ d * g \in Int /\ P * (x * g) \in Int /\ PT * (x * y) \in Int
        /\ x * (P * g) \in Int /\ P * (x * (y * T)) \in Int
    BY <1>5
  <2> HIDE DEF e, f, PT
  <2> QED  BY <2>1, <2>3, <2>4, <2>5, <2>6
<1> HIDE DEF e, f
<1>8. e * g \in Int /\ -PT <= e * g /\ e * g <= PT  BY <1>2, <1>3, ProductWithin
<1>9. x * f \in Int /\ -(127 * T) <= x * f /\ x * f <= 127 * T  BY <1>1, <1>4, ProductWithin
<1>10. P * (x * f) \in Int /\ -(127 * PT) <= P * (x * f) /\ P * (x * f) <= 127 * PT
  <2>1. 127 * T \in Nat /\ x * f \in -(127 * T) .. 127 * T /\ P \in -P .. P  BY <1>9
  <2>2. /\ P * (x * f) \in Int
        /\ -(P * (127 * T)) <= P * (x * f) /\ P * (x * f) <= P * (127 * T)
    BY <2>1, ProductWithin
  <2>3. P * (127 * T) = 127 * PT  OBVIOUS
  <2> QED  BY <2>2, <2>3
<1>11. d * g \in Int /\ x * y \in Int /\ PT * (x * y) \in Int  BY <1>5
<1> HIDE DEF PT
<1>12. 127 * 127 * (d * g) - PT * (x * y) \in -(127 * PT) .. 127 * PT
  BY <1>6, <1>7, <1>8, <1>10, <1>11
<1> QED  BY <1>6, <1>11, <1>12 DEF PT

\* A packed row is coded by its own peak.
LEMMA RowsCoded ==
  ASSUME NEW N \in Nat, NEW K \in Nat \ {0}, NEW w, NEW n \in 0 .. N - 1,
         \A k \in 0 .. K - 1 : w[n][k] \in Int
  PROVE  /\ RowMax(w, N, K)[n] \in Nat
         /\ \A k \in 0 .. K - 1 : Coded(w[n][k], RowMax(w, N, K)[n], PackedAt(PackW(w, N, K), K, n, k))
<1> DEFINE a == [k \in Nat |-> AbsOf(w[n][k])]
           top == RowMax(w, N, K)[n]
<1>1. top = MaxTo(K, a)  BY DEF RowMax
<1>2. \A k \in 0 .. K - 1 : a[k] = AbsOf(w[n][k]) /\ a[k] \in Int  BY DEF AbsOf
<1> HIDE DEF a
<1>3. MaxTo(K, a) \in Nat /\ \A k \in 0 .. K - 1 : a[k] <= MaxTo(K, a)
  <2>1. K \in Nat /\ \A k \in 0 .. K - 1 : a[k] \in Int  BY <1>2
  <2> QED  BY <2>1, MaxToBounds
<1>4. top \in Nat  BY <1>1, <1>3
<1>5. ASSUME NEW k \in 0 .. K - 1 PROVE Coded(w[n][k], top, PackedAt(PackW(w, N, K), K, n, k))
  <2>1. n \in 0 .. 8 * NBlocks(N) - 1 /\ k \in 0 .. 4 * K4(K) - 1  BY DEF NBlocks, NR, K4
  <2>2. PackedAt(PackW(w, N, K), K, n, k) = WeightCode(w[n][k], top)
    BY <2>1, PackedWeights
  <2>3. w[n][k] \in -top .. top
    <3>1. a[k] <= top /\ a[k] = AbsOf(w[n][k]) /\ w[n][k] \in Int  BY <1>1, <1>2, <1>3
    <3> HIDE DEF top
    <3> QED  BY <1>4, <3>1 DEF AbsOf
  <2> HIDE DEF top
  <2>4. /\ WeightCode(w[n][k], top) \in -127 .. 127
        /\ 2 * AbsOf(w[n][k] * 127 - WeightCode(w[n][k], top) * top) <= top
    BY <1>4, <2>3, WeightCodeClose
  <2> QED  BY <2>2, <2>3, <2>4 DEF Coded
<1> QED  BY <1>4, <1>5

\* A code rounded either way is half a step from its value, and needs no clamp.
LEMMA RoundedCode ==
  ASSUME NEW v \in Int, NEW peak \in Nat \ {0}, v \in -peak .. peak, NEW even \in BOOLEAN
  PROVE  Coded(v, peak, Clamp(-127, 127, IF even THEN RoundEven(v * 127, peak)
                                         ELSE RoundAway(v * 127, peak)))
<1> DEFINE q == IF even THEN RoundEven(v * 127, peak) ELSE RoundAway(v * 127, peak)
<1>1. q \in Int /\ 2 * (q * peak) - peak <= 2 * (v * 127) /\ 2 * (v * 127) <= 2 * (q * peak) + peak
  <2>1. v * 127 \in Int  OBVIOUS
  <2>2. CASE even
    <3>1. q = RoundEven(v * 127, peak)  BY <2>2
    <3> HIDE DEF q
    <3> QED  BY <2>1, <3>1, RoundEvenClose
  <2>3. CASE ~even
    <3>1. q = RoundAway(v * 127, peak)  BY <2>3
    <3> HIDE DEF q
    <3> QED  BY <2>1, <3>1, RoundAwayClose
  <2> QED  BY <2>2, <2>3
<1> HIDE DEF q
<1>2. q * peak \in Int  BY <1>1
<1>3. ~(q >= 128)
  <2> SUFFICES ASSUME q >= 128 PROVE FALSE  OBVIOUS
  <2>1. 128 * peak <= q * peak  BY <1>1, ProductMonotone
  <2> QED  BY <1>1, <1>2, <2>1
<1>4. ~(q <= -128)
  <2> SUFFICES ASSUME q <= -128 PROVE FALSE  OBVIOUS
  <2>1. q * peak <= (-128) * peak  BY <1>1, ProductMonotone
  <2> QED  BY <1>1, <1>2, <2>1
<1>5. q \in -127 .. 127  BY <1>1, <1>3, <1>4
<1>6. Clamp(-127, 127, q) = q  BY <1>5 DEF Clamp, Greatest, Least
<1>7. Coded(v, peak, q)  BY <1>1, <1>2, <1>5 DEF Coded, AbsOf
<1> QED  BY <1>6, <1>7 DEF q

-----------------------------------------------------------------------------
(* Sequences: what they hold, and totals over them *)

\* What a sequence holds, and the total of a measure over it.
Held(s) == {s[i] : i \in DOMAIN s}
Total(g, s) == SumTo(Len(s), [i \in Nat |-> g[s[i + 1]]])

\* A sequence after another holds what both hold.
LEMMA HeldConcat ==
  ASSUME NEW S, NEW s \in Seq(S), NEW t \in Seq(S)
  PROVE  /\ s \o t \in Seq(S) /\ Held(s \o t) = Held(s) \cup Held(t)
         /\ Held(s) \subseteq S
<1>1. s \o t \in Seq(S) /\ Len(s \o t) = Len(s) + Len(t)  OBVIOUS
<1>2. \A i \in 1 .. Len(s) : (s \o t)[i] = s[i]  OBVIOUS
<1>3. \A i \in 1 .. Len(t) : (s \o t)[Len(s) + i] = t[i]  OBVIOUS
<1>4. Len(s) \in Nat /\ Len(t) \in Nat
      /\ DOMAIN s = 1 .. Len(s) /\ DOMAIN t = 1 .. Len(t)
      /\ DOMAIN (s \o t) = 1 .. Len(s) + Len(t)
  BY <1>1
<1> DEFINE u == s \o t
<1> HIDE DEF u
<1>5. ASSUME NEW i \in 1 .. Len(s) + Len(t) PROVE u[i] \in Held(s) \cup Held(t)
  <2>1. CASE i <= Len(s)  BY <1>2, <1>4, <2>1 DEF u, Held
  <2>2. CASE i > Len(s)
    <3>1. i - Len(s) \in 1 .. Len(t) /\ Len(s) + (i - Len(s)) = i  BY <1>4, <2>2
    <3>2. u[i] = t[i - Len(s)]  BY <1>3, <3>1 DEF u
    <3> QED  BY <1>4, <3>1, <3>2 DEF Held
  <2> QED  BY <1>4, <2>1, <2>2
<1>6. Held(u) \subseteq Held(s) \cup Held(t)  BY <1>4, <1>5 DEF u, Held
<1>7. Held(s) \subseteq Held(u)
  <2>1. \A i \in 1 .. Len(s) : i \in 1 .. Len(s) + Len(t) /\ u[i] = s[i]  BY <1>2, <1>4 DEF u
  <2> QED  BY <1>4, <2>1 DEF u, Held
<1>8. Held(t) \subseteq Held(u)
  <2>1. \A i \in 1 .. Len(t) : Len(s) + i \in 1 .. Len(s) + Len(t) /\ u[Len(s) + i] = t[i]
    BY <1>3, <1>4 DEF u
  <2> QED  BY <1>4, <2>1 DEF u, Held
<1>9. Held(s) \subseteq S  BY DEF Held
<1> QED  BY <1>1, <1>6, <1>7, <1>8, <1>9 DEF u

\* Totals of naturals are naturals; that of two sequences is that of each.
LEMMA TotalNat ==
  ASSUME NEW S, NEW g \in [S -> Nat], NEW s \in Seq(S), NEW k \in 0 .. Len(s)
  PROVE  /\ SumTo(k, [i \in Nat |-> g[s[i + 1]]]) \in Nat
         /\ SumTo(k, [i \in Nat |-> g[s[i + 1]]]) <= Total(g, s)
         /\ Total(g, s) \in Nat
<1> DEFINE t == [i \in Nat |-> g[s[i + 1]]]
           n == Len(s)
<1>1. n \in Nat /\ k \in Nat /\ k <= n /\ n - k \in Nat  OBVIOUS
<1>2. \A i \in 0 .. n - 1 : t[i] \in Nat
  <2> SUFFICES ASSUME NEW i \in 0 .. n - 1 PROVE g[s[i + 1]] \in Nat  OBVIOUS
  <2>1. i + 1 \in 1 .. Len(s)  OBVIOUS
  <2> QED  BY <2>1
<1> HIDE DEF t, n
<1> DEFINE Good == {m \in Nat : m <= n => SumTo(m, t) \in Nat}
<1>3. 0 \in Good  BY SumToStep
<1>4. ASSUME NEW m \in Nat, m \in Good PROVE m + 1 \in Good
  <2> SUFFICES ASSUME m + 1 <= n PROVE SumTo(m + 1, t) \in Nat  OBVIOUS
  <2>1. m \in 0 .. n - 1  BY <1>1
  <2>2. SumTo(m + 1, t) = SumTo(m, t) + t[m] /\ SumTo(m, t) \in Nat
    BY <1>1, <1>4, <2>1, SumToStep
  <2> QED  BY <1>2, <2>1, <2>2
<1>5. \A m \in Nat : m \in Good
  <2> HIDE DEF Good
  <2> QED  BY <1>3, <1>4, SetInduction
<1>6. \A m \in 0 .. n : SumTo(m, t) \in Nat  BY <1>1, <1>5
<1> DEFINE Above == {m \in Nat : k + m <= n => SumTo(k, t) <= SumTo(k + m, t)}
<1>7. 0 \in Above
  <2>1. k \in 0 .. n /\ k + 0 = k  BY <1>1
  <2>2. SumTo(k, t) \in Nat  BY <1>6, <2>1
  <2> QED  BY <2>1, <2>2
<1>8. ASSUME NEW m \in Nat, m \in Above PROVE m + 1 \in Above
  <2> SUFFICES ASSUME k + (m + 1) <= n PROVE SumTo(k, t) <= SumTo(k + (m + 1), t)  OBVIOUS
  <2>1. k + m \in 0 .. n - 1 /\ k + m \in Nat /\ k + (m + 1) = (k + m) + 1  BY <1>1
  <2>2. SumTo((k + m) + 1, t) = SumTo(k + m, t) + t[k + m]  BY <2>1, SumToStep
  <2>3. t[k + m] \in Nat /\ SumTo(k + m, t) \in Nat /\ SumTo(k, t) \in Nat
    <3>1. k + m \in 0 .. n /\ k \in 0 .. n  BY <1>1, <2>1
    <3> QED  BY <1>2, <1>6, <2>1, <3>1
  <2>4. SumTo(k, t) <= SumTo(k + m, t)  BY <1>1, <1>8, <2>1
  <2> QED  BY <2>1, <2>2, <2>3, <2>4
<1>9. \A m \in Nat : m \in Above
  <2> HIDE DEF Above
  <2> QED  BY <1>7, <1>8, SetInduction
<1>10. SumTo(k, t) <= SumTo(n, t)
  <2>1. n - k \in Above  BY <1>1, <1>9
  <2>2. k + (n - k) = n /\ n <= n  BY <1>1
  <2> QED  BY <2>1, <2>2
<1>11. k \in 0 .. n /\ n \in 0 .. n  BY <1>1
<1> QED  BY <1>6, <1>10, <1>11 DEF Total, t, n

\* The total of one sequence after another is the sum of their totals.
LEMMA TotalConcat ==
  ASSUME NEW S, NEW g \in [S -> Nat], NEW s \in Seq(S), NEW t \in Seq(S)
  PROVE  Total(g, s \o t) = Total(g, s) + Total(g, t)
<1> DEFINE u == [i \in Nat |-> g[(s \o t)[i + 1]]]
           a == [i \in Nat |-> g[s[i + 1]]]
           b == [i \in Nat |-> g[t[i + 1]]]
           n == Len(s)
           m == Len(t)
<1>1. n \in Nat /\ m \in Nat /\ Len(s \o t) = n + m  OBVIOUS
<1>2. \A i \in 0 .. n - 1 : u[i] = a[i]
  <2> SUFFICES ASSUME NEW i \in 0 .. n - 1 PROVE u[i] = a[i]  OBVIOUS
  <2>1. i + 1 \in 1 .. Len(s) /\ i \in Nat  OBVIOUS
  <2>2. (s \o t)[i + 1] = s[i + 1]  BY <2>1
  <2> QED  BY <2>1, <2>2
<1>3. \A i \in 0 .. m - 1 : u[n + i] = b[i]
  <2> SUFFICES ASSUME NEW i \in 0 .. m - 1 PROVE u[n + i] = b[i]  OBVIOUS
  <2>1. i + 1 \in 1 .. Len(t) /\ i \in Nat /\ n + i \in Nat /\ (n + i) + 1 = Len(s) + (i + 1)
    OBVIOUS
  <2>2. (s \o t)[Len(s) + (i + 1)] = t[i + 1]  BY <2>1
  <2> QED  BY <2>1, <2>2
<1>4. SumTo(n, u) = SumTo(n, a)
  <2> HIDE DEF u, a
  <2> QED  BY <1>1, <1>2, SumToSame
<1>5. SumTo(n + m, u) = SumTo(n, u) + SumTo(m, [i \in Nat |-> u[n + i]])
  <2>1. \A i \in 0 .. n + m - 1 : u[i] \in Int
    <3> SUFFICES ASSUME NEW i \in 0 .. n + m - 1 PROVE g[(s \o t)[i + 1]] \in Int  OBVIOUS
    <3>1. i + 1 \in 1 .. Len(s \o t) /\ s \o t \in Seq(S)  BY <1>1
    <3> QED  BY <3>1
  <2> HIDE DEF u
  <2> QED  BY <1>1, <2>1, SumToSplit
<1>6. SumTo(m, [i \in Nat |-> u[n + i]]) = SumTo(m, b)
  <2> DEFINE v == [i \in Nat |-> u[n + i]]
  <2>1. \A i \in 0 .. m - 1 : v[i] = b[i]  BY <1>3
  <2> HIDE DEF u, b, v
  <2>2. SumTo(m, v) = SumTo(m, b)  BY <1>1, <2>1, SumToSame
  <2> QED  BY <2>2 DEF v
<1> QED  BY <1>1, <1>4, <1>5, <1>6 DEF Total

\* The loop of FlattenSeq over m parts.
Joined(m, ss, f) == f = [i \in 1 .. m |-> IF i = 1 THEN ss[i] ELSE f[i - 1] \o ss[i]]

\* There is such a loop for every number of parts.
LEMMA JoinedExists ==
  ASSUME NEW ss
  PROVE  \A m \in Nat : \E f : Joined(m, ss, f)
<1> DEFINE Ends == {m \in Nat : \E f : Joined(m, ss, f)}
<1>1. 0 \in Ends
  <2>1. Joined(0, ss, [i \in 1 .. 0 |-> 0])  BY DEF Joined
  <2> QED  BY <2>1
<1>2. ASSUME NEW m \in Nat, m \in Ends PROVE m + 1 \in Ends
  <2>1. PICK f : Joined(m, ss, f)  BY <1>2
  <2> DEFINE h == [i \in 1 .. m + 1 |->
                     IF i = m + 1 THEN (IF m = 0 THEN ss[1] ELSE f[m] \o ss[m + 1]) ELSE f[i]]
  <2>2. \A i \in 1 .. m : f[i] = IF i = 1 THEN ss[i] ELSE f[i - 1] \o ss[i]
    BY <2>1 DEF Joined
  <2>3. \A i \in 1 .. m : h[i] = f[i]  OBVIOUS
  <2>4. h[m + 1] = IF m = 0 THEN ss[1] ELSE f[m] \o ss[m + 1]  OBVIOUS
  <2>5. h = [i \in 1 .. m + 1 |-> h[i]]  OBVIOUS
  <2> HIDE DEF h
  <2>6. ASSUME NEW i \in 1 .. m + 1
        PROVE  h[i] = IF i = 1 THEN ss[i] ELSE h[i - 1] \o ss[i]
    <3>1. CASE i = m + 1 /\ m = 0  BY <2>4, <3>1
    <3>2. CASE i = m + 1 /\ m # 0
      <4>1. m \in 1 .. m /\ i - 1 = m /\ i # 1  BY <3>2
      <4>2. h[m] = f[m]  BY <2>3, <4>1
      <4> QED  BY <2>4, <3>2, <4>1, <4>2
    <3>3. CASE i = 1 /\ i # m + 1
      <4>1. i \in 1 .. m  BY <3>3
      <4> QED  BY <2>2, <2>3, <3>3, <4>1
    <3>4. CASE i # 1 /\ i # m + 1
      <4>1. i \in 1 .. m /\ i - 1 \in 1 .. m  BY <3>4
      <4>2. h[i] = f[i] /\ h[i - 1] = f[i - 1]  BY <2>3, <4>1
      <4>3. f[i] = f[i - 1] \o ss[i]  BY <2>2, <3>4, <4>1
      <4> QED  BY <3>4, <4>2, <4>3
    <3> QED  BY <3>1, <3>2, <3>3, <3>4
  <2>7. Joined(m + 1, ss, h)  BY <2>5, <2>6 DEF Joined
  <2> QED  BY <2>7
<1> HIDE DEF Ends
<1>3. \A m \in Nat : m \in Ends  BY <1>1, <1>2, SetInduction
<1> QED  BY <1>3 DEF Ends

\* What FlattenSeq returns is what that loop ends with.
LEMMA FlattenJoined ==
  ASSUME NEW S, NEW n \in Nat \ {0}, NEW ss \in [1 .. n -> Seq(S)]
  PROVE  \E f : Joined(n, ss, f) /\ Ext!FlattenSeq(ss) = f[n]
<1>1. ss \in Seq(Seq(S)) /\ Len(ss) = n  OBVIOUS
<1> DEFINE f == CHOOSE h : h = [i \in 1 .. n |-> IF i = 1 THEN ss[i] ELSE h[i - 1] \o ss[i]]
<1>2. \E h : h = [i \in 1 .. n |-> IF i = 1 THEN ss[i] ELSE h[i - 1] \o ss[i]]
  BY JoinedExists DEF Joined
<1>3. f = [i \in 1 .. n |-> IF i = 1 THEN ss[i] ELSE f[i - 1] \o ss[i]]  BY <1>2, Zenon
<1>4. Ext!FlattenSeq(ss) = f[n]  BY <1>1 DEF Ext!FlattenSeq
<1>5. Joined(n, ss, f)  BY <1>3 DEF Joined
<1> HIDE DEF f
<1> QED  BY <1>4, <1>5

PartTotals(S, ss, n) ==
  \A g \in [S -> Nat], c \in Nat :
    (\A i \in 1 .. n : Total(g, ss[i]) = c) => Total(g, Ext!FlattenSeq(ss)) = n * c

\* Parts one after another: they hold what the parts hold, and a measure that
\* is the same for each part is that many times as much for all.
LEMMA Flattened ==
  ASSUME NEW S, NEW n \in Nat, NEW ss \in [1 .. n -> Seq(S)]
  PROVE  /\ Ext!FlattenSeq(ss) \in Seq(S)
         /\ Held(Ext!FlattenSeq(ss)) = UNION {Held(ss[i]) : i \in 1 .. n}
         /\ PartTotals(S, ss, n)
<1>1. CASE n = 0
  <2>1. ss = <<>> /\ Len(ss) = 0  BY <1>1
  <2>2. Ext!FlattenSeq(ss) = <<>>  BY <2>1 DEF Ext!FlattenSeq
  <2>3. Held(<<>>) = {}  BY DEF Held
  <2>4. \A g : Total(g, <<>>) = 0
    <3> TAKE g
    <3>1. SumTo(0, [i \in Nat |-> g[<<>>[i + 1]]]) = 0  BY SumToStep
    <3>2. Len(<<>>) = 0  OBVIOUS
    <3> QED  BY <3>1, <3>2 DEF Total
  <2> QED  BY <1>1, <2>2, <2>3, <2>4 DEF PartTotals
<1>2. CASE n # 0
  <2>1. PICK f : Joined(n, ss, f) /\ Ext!FlattenSeq(ss) = f[n]  BY <1>2, FlattenJoined
  <2>2. \A i \in 1 .. n : f[i] = IF i = 1 THEN ss[i] ELSE f[i - 1] \o ss[i]
    BY <2>1 DEF Joined
  <2> DEFINE U(m) == UNION {Held(ss[i]) : i \in 1 .. m}
             Up(m) == /\ f[m] \in Seq(S)
                     /\ Held(f[m]) = U(m)
                     /\ \A g \in [S -> Nat], c \in Nat :
                          (\A i \in 1 .. n : Total(g, ss[i]) = c) => Total(g, f[m]) = m * c
             Good == {m \in Nat : m + 1 <= n => Up(m + 1)}
  <2>3. 0 \in Good
    <3>1. f[1] = ss[1] /\ ss[1] \in Seq(S) /\ 1 \in 1 .. n  BY <1>2, <2>2
    <3>2. UNION {Held(ss[i]) : i \in 1 .. 1} = Held(ss[1])  OBVIOUS
    <3>3. \A g \in [S -> Nat], c \in Nat :
            (\A i \in 1 .. n : Total(g, ss[i]) = c) => Total(g, f[1]) = 1 * c
      BY <3>1
    <3> QED  BY <3>1, <3>2, <3>3
  <2>4. ASSUME NEW m \in Nat, m \in Good PROVE m + 1 \in Good
    <3> SUFFICES ASSUME (m + 1) + 1 <= n PROVE Up((m + 1) + 1)
      <4> HIDE DEF Up
      <4> QED  OBVIOUS
    <3> DEFINE k == m + 1
    <3>1. k \in 1 .. n /\ k + 1 \in 1 .. n /\ k \in Nat /\ k + 1 # 1 /\ (k + 1) - 1 = k
      OBVIOUS
    <3>2. Up(k)
      <4> HIDE DEF Up
      <4> QED  BY <2>4, <3>1
    <3> HIDE DEF k
    <3>3. f[k + 1] = f[k] \o ss[k + 1] /\ ss[k + 1] \in Seq(S)  BY <2>2, <3>1
    <3>4. f[k + 1] \in Seq(S) /\ Held(f[k + 1]) = Held(f[k]) \cup Held(ss[k + 1])
      BY <3>2, <3>3, HeldConcat
    <3>5. U(k + 1) = U(k) \cup Held(ss[k + 1])
      <4>1. \A i : i \in 1 .. k + 1 <=> i \in 1 .. k \/ i = k + 1  BY <3>1
      <4>2. ASSUME NEW x
            PROVE  x \in U(k + 1) <=> x \in U(k) \/ x \in Held(ss[k + 1])
        BY <4>1, Zenon
      <4> QED  BY <4>2
    <3>6. ASSUME NEW g \in [S -> Nat], NEW c \in Nat, \A i \in 1 .. n : Total(g, ss[i]) = c
          PROVE  Total(g, f[k + 1]) = (k + 1) * c
      <4>1. Total(g, f[k]) = k * c  BY <3>2, <3>6
      <4>2. Total(g, ss[k + 1]) = c  BY <3>1, <3>6
      <4>3. Total(g, f[k + 1]) = Total(g, f[k]) + Total(g, ss[k + 1])
        BY <3>2, <3>3, TotalConcat
      <4>4. (k + 1) * c = k * c + c  BY <3>1
      <4> QED  BY <4>1, <4>2, <4>3, <4>4
    <3>7. Held(f[k + 1]) = U(k + 1)
      <4> HIDE DEF U
      <4>1. Held(f[k]) = U(k)  BY <3>2, Zenon
      <4>2. Held(f[k + 1]) = Held(f[k]) \cup Held(ss[k + 1])  BY <3>4, Zenon
      <4> QED  BY <4>1, <4>2, <3>5, Zenon
    <3>8. Up(k + 1)  BY <3>4, <3>6, <3>7
    <3> HIDE DEF Up
    <3> QED  BY <3>8 DEF k
  <2>5. \A m \in Nat : m \in Good
    <3> HIDE DEF Good
    <3> QED  BY <2>3, <2>4, SetInduction
  <2>6. Up(n)
    <3> HIDE DEF Up
    <3>1. n - 1 \in Good
      <4> HIDE DEF Good
      <4>1. n - 1 \in Nat  BY <1>2
      <4> QED  BY <2>5, <4>1
    <3>2. (n - 1) + 1 = n /\ n <= n  OBVIOUS
    <3> QED  BY <3>1, <3>2
  <2> QED  BY <2>1, <2>6 DEF PartTotals
<1> QED  BY <1>1, <1>2

\* A sequence of one element.
LEMMA Single ==
  ASSUME NEW S, NEW a \in S, NEW g \in [S -> Nat]
  PROVE  <<a>> \in Seq(S) /\ Held(<<a>>) = {a} /\ Total(g, <<a>>) = g[a]
<1>1. <<a>> \in Seq(S)  OBVIOUS
<1>2. Held(<<a>>) = {a}  BY DEF Held
<1>3. Total(g, <<a>>) = g[a]
  <2> DEFINE t == [i \in Nat |-> g[<<a>>[i + 1]]]
  <2>1. t[0] = g[a]  OBVIOUS
  <2> HIDE DEF t
  <2>2. SumTo(0, t) = 0 /\ SumTo(0 + 1, t) = SumTo(0, t) + t[0]  BY SumToStep
  <2>3. SumTo(1, t) = g[a]  BY <2>1, <2>2
  <2> QED  BY <2>3 DEF Total, t
<1> QED  BY <1>1, <1>2, <1>3

Two(S, g, s, a, b) == s = <<a, b>> /\ a \in S /\ b \in S /\ g \in [S -> Nat]
Three(S, g, s, a, b, c) ==
  s = <<a, b, c>> /\ a \in S /\ b \in S /\ c \in S /\ g \in [S -> Nat]

\* What two elements hold, and their total.
LEMMA ListedTwo ==
  ASSUME NEW S, NEW g, NEW s, NEW a, NEW b, Two(S, g, s, a, b)
  PROVE  /\ s \in Seq(S) /\ a \in Held(s) /\ b \in Held(s)
         /\ \A x \in Held(s) : x = a \/ x = b
         /\ Total(g, s) = g[a] + g[b]
<1> USE DEF Two
<1>1. s \in Seq(S)  OBVIOUS
<1>2. s[1] = a /\ s[2] = b /\ DOMAIN s = 1 .. 2  OBVIOUS
<1>3. s = <<a>> \o <<b>>
  <2> DEFINE z == <<a>> \o <<b>>
  <2>1. z \in Seq(S) /\ Len(z) = 2 /\ z[1] = a /\ z[2] = b  OBVIOUS
  <2> HIDE DEF z
  <2>2. z = <<a, b>>  BY <2>1
  <2> QED  BY <2>2 DEF z
<1>4. Total(g, s) = Total(g, <<a>>) + Total(g, <<b>>)
  <2>1. <<a>> \in Seq(S) /\ <<b>> \in Seq(S)  OBVIOUS
  <2> QED  BY <1>3, <2>1, TotalConcat
<1>5. Total(g, <<a>>) = g[a] /\ Total(g, <<b>>) = g[b]  BY Single
<1> HIDE DEF Two
<1> QED  BY <1>1, <1>2, <1>4, <1>5 DEF Held

\* The same of three.
LEMMA ListedThree ==
  ASSUME NEW S, NEW g, NEW s, NEW a, NEW b, NEW c, Three(S, g, s, a, b, c)
  PROVE  /\ s \in Seq(S) /\ a \in Held(s) /\ b \in Held(s) /\ c \in Held(s)
         /\ \A x \in Held(s) : x = a \/ x = b \/ x = c
         /\ Total(g, s) = g[a] + g[b] + g[c]
<1> USE DEF Three
<1>1. s \in Seq(S)  OBVIOUS
<1>2. s[1] = a /\ s[2] = b /\ s[3] = c /\ DOMAIN s = 1 .. 3  OBVIOUS
<1>3. s = <<a, b>> \o <<c>>
  <2> DEFINE z == <<a, b>> \o <<c>>
  <2>1. z \in Seq(S) /\ Len(z) = 3 /\ z[1] = a /\ z[2] = b /\ z[3] = c  OBVIOUS
  <2> HIDE DEF z
  <2>2. z = <<a, b, c>>  BY <2>1
  <2> QED  BY <2>2 DEF z
<1>4. Total(g, s) = Total(g, <<a, b>>) + Total(g, <<c>>)
  <2>1. <<a, b>> \in Seq(S) /\ <<c>> \in Seq(S)  OBVIOUS
  <2> QED  BY <1>3, <2>1, TotalConcat
<1>5. Total(g, <<c>>) = g[c]  BY Single
<1>6. Total(g, <<a, b>>) = g[a] + g[b]
  <2>1. Two(S, g, <<a, b>>, a, b)  BY DEF Two
  <2> QED  BY <2>1, ListedTwo
<1> HIDE DEF Three
<1> QED  BY <1>1, <1>2, <1>4, <1>5, <1>6 DEF Held

\* Elements of one measure.
Uniform(S, n, s, g, c) ==
  /\ n \in Nat /\ c \in Nat /\ s \in [1 .. n -> S] /\ g \in [S -> Nat]
  /\ \A i \in 1 .. n : g[s[i]] = c

\* Their total is a product.
LEMMA UniformTotal ==
  ASSUME NEW S, NEW n, NEW s, NEW g, NEW c, Uniform(S, n, s, g, c)
  PROVE  s \in Seq(S) /\ Total(g, s) = n * c
<1> USE DEF Uniform
<1>1. s \in Seq(S) /\ Len(s) = n /\ DOMAIN s = 1 .. n  OBVIOUS
<1>2. Total(g, s) = n * c
  <2> DEFINE t == [i \in Nat |-> g[s[i + 1]]]
  <2>1. \A i \in 0 .. n - 1 : t[i] \in c .. c
    <3> SUFFICES ASSUME NEW i \in 0 .. n - 1 PROVE t[i] = c  OBVIOUS
    <3>1. i \in Nat /\ i + 1 \in 1 .. n  OBVIOUS
    <3>2. g[s[i + 1]] = c  BY <3>1
    <3> QED  BY <3>1, <3>2
  <2> HIDE DEF t
  <2>2. SumTo(n, t) \in Int /\ n * c <= SumTo(n, t) /\ SumTo(n, t) <= n * c
    <3>1. c \in Int  OBVIOUS
    <3> QED  BY <2>1, <3>1, SumToBounds
  <2>3. n * c \in Int  OBVIOUS
  <2>4. SumTo(n, t) = n * c  BY <2>2, <2>3
  <2> QED  BY <1>1, <2>4 DEF Total, t
<1> QED  BY <1>1, <1>2 DEF Held

\* One for each element is the length.
LEMMA TotalOnes ==
  ASSUME NEW S, NEW s \in Seq(S)
  PROVE  Total([x \in S |-> 1], s) = Len(s) /\ [x \in S |-> 1] \in [S -> Nat]
<1> DEFINE n == Len(s)
<1>1. n \in Nat /\ s \in [1 .. n -> S]  OBVIOUS
<1>2. [x \in S |-> 1] \in [S -> Nat] /\ 1 \in Nat /\ \A i \in 1 .. n : [x \in S |-> 1][s[i]] = 1
  BY <1>1
<1> HIDE DEF n
<1>3. n * 1 = n  BY <1>1
<1>4. Total([x \in S |-> 1], s) = n * 1
  <2>1. Uniform(S, n, s, [x \in S |-> 1], 1)  BY <1>1, <1>2 DEF Uniform
  <2> QED  BY <2>1, UniformTotal
<1> QED  BY <1>2, <1>3, <1>4 DEF n

-----------------------------------------------------------------------------
(* The lists of fe_weights.c *)

Labels ==
  {"enc_pre", "enc_pre bias", "enc", "rf_pre_lin", "rf_pre_conv", "gru_ih", "gru_hh", "rnn_fc",
   "qkv", "attn_fc", "pe", "rf_post_lin", "rf_post_conv", "dec_1x1", "dec_3x3", "dec_post_1x1",
   "dec_post_up", "dec_post_up bias"}
Names == Labels \X Nat
Repacked(d) == Linears(d) \o Grus(d) \o Convs(d)
Ones == [x \in Names |-> 1]

\* A list of names: as many as these, with these in it.
Lists(s, n, held) == s \in Seq(Names) /\ Total(Ones, s) = n /\ held \subseteq Held(s)

\* One list of names after another.
LEMMA ListsConcat ==
  ASSUME NEW s, NEW t, NEW n \in Nat, NEW m \in Nat, NEW h, NEW k, Lists(s, n, h), Lists(t, m, k)
  PROVE  Lists(s \o t, n + m, h \cup k)
<1>1. s \in Seq(Names) /\ t \in Seq(Names) /\ Ones \in [Names -> Nat]  BY DEF Lists, Ones
<1>2. Total(Ones, s \o t) = Total(Ones, s) + Total(Ones, t)  BY <1>1, TotalConcat
<1>3. s \o t \in Seq(Names) /\ Held(s \o t) = Held(s) \cup Held(t)  BY <1>1, HeldConcat
<1> QED  BY <1>2, <1>3 DEF Lists

\* One layer of a name for each block.
LEMMA ListsEach ==
  ASSUME NEW n \in Nat, NEW name \in Labels
  PROVE  Lists([i \in 1 .. n |-> <<name, i - 1>>], n, {name} \X (0 .. n - 1))
<1> DEFINE s == [i \in 1 .. n |-> <<name, i - 1>>]
<1>1. s \in [1 .. n -> Names]
  <2> SUFFICES ASSUME NEW i \in 1 .. n PROVE <<name, i - 1>> \in Names  OBVIOUS
  <2>1. i - 1 \in Nat  OBVIOUS
  <2> QED  BY <2>1 DEF Names
<1>2. \A i \in 1 .. n : Ones[s[i]] = 1  BY <1>1 DEF Ones
<1>3. Ones \in [Names -> Nat] /\ 1 \in Nat  BY DEF Ones
<1>4. {name} \X (0 .. n - 1) \subseteq {s[i] : i \in 1 .. n}
  <2> SUFFICES ASSUME NEW b \in 0 .. n - 1 PROVE <<name, b>> \in {s[i] : i \in 1 .. n}  OBVIOUS
  <2>1. b + 1 \in 1 .. n /\ (b + 1) - 1 = b  OBVIOUS
  <2>2. \A i \in 1 .. n : s[i] = <<name, i - 1>>  BY Zenon
  <2> HIDE DEF s
  <2>3. s[b + 1] = <<name, b>>  BY <2>1, <2>2
  <2> QED  BY <2>1, <2>3
<1> HIDE DEF s
<1>5. s \in Seq(Names) /\ Held(s) = {s[i] : i \in 1 .. n} /\ Total(Ones, s) = n * 1
  <2> DEFINE c == 1
  <2>1. c \in Nat /\ \A i \in 1 .. n : Ones[s[i]] = c  BY <1>2
  <2> HIDE DEF c
  <2>2. s \in Seq(Names)  BY <1>1
  <2>4. Uniform(Names, n, s, Ones, c)  BY <1>1, <1>3, <2>1 DEF Uniform
  <2>5. Total(Ones, s) = n * c  BY <2>4, UniformTotal
  <2>3. DOMAIN s = 1 .. n  BY <1>1
  <2> QED  BY <2>2, <2>3, <2>5 DEF c, Held
<1>6. n * 1 = n  OBVIOUS
<1>7. Lists(s, n, {name} \X (0 .. n - 1))  BY <1>4, <1>5, <1>6 DEF Lists
<1> QED  BY <1>7 DEF s

\* Lists of one, two and three names of the same block.
LEMMA ListsFew ==
  ASSUME NEW x \in Labels, NEW y \in Labels, NEW z \in Labels, NEW k \in Nat
  PROVE  /\ Lists(<<<<x, k>>>>, 1, {x} \X {k})
         /\ Lists(<<<<x, k>>, <<y, k>>>>, 2, {x, y} \X {k})
         /\ Lists(<<<<x, k>>, <<y, k>>, <<z, k>>>>, 3, {x, y, z} \X {k})
<1> DEFINE a == <<x, k>>
           b == <<y, k>>
           c == <<z, k>>
<1>0. /\ a \in Names /\ b \in Names /\ c \in Names
      /\ {x} \X {k} = {a} /\ {x, y} \X {k} = {a, b} /\ {x, y, z} \X {k} = {a, b, c}
  BY DEF Names
<1> HIDE DEF a, b, c
<1>1. Ones \in [Names -> Nat] /\ Ones[a] = 1 /\ Ones[b] = 1 /\ Ones[c] = 1  BY <1>0 DEF Ones
<1>2. Lists(<<a>>, 1, {a})  BY <1>0, <1>1, Single DEF Lists
<1>3. Lists(<<a, b>>, 2, {a, b})
  <2> DEFINE s == <<a, b>>
  <2>1. Two(Names, Ones, s, a, b)  BY <1>0, <1>1 DEF Two
  <2> HIDE DEF s
  <2>2. Lists(s, 2, {a, b})  BY <1>1, <2>1, ListedTwo DEF Lists
  <2> QED  BY <2>2 DEF s
<1>4. Lists(<<a, b, c>>, 3, {a, b, c})
  <2> DEFINE s == <<a, b, c>>
  <2>1. Three(Names, Ones, s, a, b, c)  BY <1>0, <1>1 DEF Three
  <2> HIDE DEF s
  <2>2. Lists(s, 3, {a, b, c})  BY <1>1, <2>1, ListedThree DEF Lists
  <2> QED  BY <2>2 DEF s
<1> QED  BY <1>0, <1>2, <1>3, <1>4 DEF a, b, c

\* The same layers of each block, block by block.
LEMMA ListsBlocks ==
  ASSUME NEW n \in Nat, NEW c \in Nat, NEW labels, NEW ss, ss = [i \in 1 .. n |-> ss[i]],
         \A i \in 1 .. n : Lists(ss[i], c, labels \X {i - 1})
  PROVE  Lists(Ext!FlattenSeq(ss), n * c, labels \X (0 .. n - 1))
<1> DEFINE T == UNION {Held(ss[i]) : i \in 1 .. n}
           L == labels \X (0 .. n - 1)
<1>1. ss \in [1 .. n -> Seq(Names)] /\ \A i \in 1 .. n : labels \X {i - 1} \subseteq Held(ss[i])
  BY DEF Lists
<1>2. L \subseteq T
  <2>1. ASSUME NEW z \in L PROVE z \in T
    <3> DEFINE name == z[1]
               b == z[2]
    <3>1. name \in labels /\ b \in 0 .. n - 1 /\ z = <<name, b>>  BY <2>1
    <3> HIDE DEF name, b
    <3>2. b + 1 \in 1 .. n /\ (b + 1) - 1 = b  BY <3>1
    <3>3. <<name, b>> \in Held(ss[b + 1])
      <4>1. labels \X {b} \subseteq Held(ss[b + 1])  BY <1>1, <3>2
      <4>2. <<name, b>> \in labels \X {b}  BY <3>1
      <4> QED  BY <4>1, <4>2
    <3> QED  BY <3>1, <3>2, <3>3
  <2> HIDE DEF L, T
  <2> QED  BY <2>1
<1>3. Ones \in [Names -> Nat] /\ \A i \in 1 .. n : Total(Ones, ss[i]) = c  BY DEF Lists, Ones
<1>4. /\ Ext!FlattenSeq(ss) \in Seq(Names)
      /\ Held(Ext!FlattenSeq(ss)) = UNION {Held(ss[i]) : i \in 1 .. n}
      /\ PartTotals(Names, ss, n)
  BY <1>1, Flattened, Zenon
<1>5. Total(Ones, Ext!FlattenSeq(ss)) = n * c  BY <1>3, <1>4, Zenon DEF PartTotals
<1> HIDE DEF L, T
<1>6. Lists(Ext!FlattenSeq(ss), n * c, L)  BY <1>2, <1>4, <1>5 DEF Lists, T
<1> QED  BY <1>6 DEF L

-----------------------------------------------------------------------------
(* Items *)

ItemSpace ==
  [op : {"fp32"}, name : Names, n : Nat, pre : Nat]
    \cup [op : {"int8"}, name : Names, N : Nat, K : Nat, biased : BOOLEAN, out : Nat, in : Nat,
          pre : Nat]
QOf == [it \in ItemSpace |-> IF it.op = "int8" THEN PackedSize(it.K, it.N) ELSE 0]
SOf == [it \in ItemSpace |-> IF it.op = "int8" THEN it.N ELSE 0]
PreOf == [it \in ItemSpace |-> it.pre]
LayerOf == [it \in ItemSpace |-> IF it.op = "int8" THEN 1 ELSE 0]

\* A layer is given the shape it was packed with, and the repack knows its name.
Fits(it, held) == it.op = "int8" => it.out = it.N /\ it.in = it.K /\ it.name \in held

\* A list of items: how far it moves each cursor, and its layers.
Walks(s, held, q, m, p, l) ==
  /\ s \in Seq(ItemSpace) /\ \A it \in Held(s) : Fits(it, held)
  /\ Total(QOf, s) = q /\ Total(SOf, s) = m /\ Total(PreOf, s) = p /\ Total(LayerOf, s) = l

\* Sizes of packed layers are naturals.
LEMMA PackedSizeNat ==
  ASSUME NEW K \in Nat, NEW N \in Nat
  PROVE  PackedSize(K, N) \in Nat /\ SgemmFloats(K, N) \in Nat
<1>1. (N + 7) \div 8 \in Nat
  <2>1. N + 7 \in Int /\ 8 \in Nat \ {0} /\ 8 * 0 <= N + 7 /\ N + 7 < 8 * (N + 1)  OBVIOUS
  <2>2. 0 \in Int /\ N + 1 \in Int  OBVIOUS
  <2>3. 0 <= (N + 7) \div 8 /\ (N + 7) \div 8 \in Int  BY <2>1, <2>2, DivBounds, DivMod
  <2> QED  BY <2>3
<1> DEFINE b == (N + 7) \div 8
<1>2. PackedSize(K, N) = K * 8 * b /\ SgemmFloats(K, N) = K * 8 * b
  BY DEF PackedSize, SgemmFloats
<1> HIDE DEF b
<1>3. b \in Nat  BY <1>1 DEF b
<1>4. K * 8 \in Nat  OBVIOUS
<1>5. (K * 8) * b \in Nat  BY <1>3, <1>4
<1> QED  BY <1>2, <1>5

\* What an item moves a cursor by is a natural.
LEMMA Measures ==
  /\ QOf \in [ItemSpace -> Nat] /\ SOf \in [ItemSpace -> Nat]
  /\ PreOf \in [ItemSpace -> Nat] /\ LayerOf \in [ItemSpace -> Nat]
<1>1. ASSUME NEW it \in ItemSpace
      PROVE  it.pre \in Nat /\ (it.op = "int8" => it.N \in Nat /\ it.K \in Nat)
  BY DEF ItemSpace
<1>2. ASSUME NEW it \in ItemSpace
      PROVE  (IF it.op = "int8" THEN PackedSize(it.K, it.N) ELSE 0) \in Nat
  BY <1>1, PackedSizeNat
<1>3. QOf \in [ItemSpace -> Nat]  BY <1>2 DEF QOf
<1>4. SOf \in [ItemSpace -> Nat]  BY <1>1 DEF SOf
<1>5. PreOf \in [ItemSpace -> Nat]  BY <1>1 DEF PreOf
<1>6. LayerOf \in [ItemSpace -> Nat]  BY DEF LayerOf
<1> QED  BY <1>3, <1>4, <1>5, <1>6

\* One list of items after another moves each cursor by the sum.
LEMMA WalksConcat ==
  ASSUME NEW held, NEW s, NEW t, NEW q, NEW m, NEW p, NEW l, NEW q2, NEW m2, NEW p2, NEW l2,
         Walks(s, held, q, m, p, l), Walks(t, held, q2, m2, p2, l2)
  PROVE  Walks(s \o t, held, q + q2, m + m2, p + p2, l + l2)
<1>1. s \in Seq(ItemSpace) /\ t \in Seq(ItemSpace)  BY DEF Walks
<1>2. s \o t \in Seq(ItemSpace) /\ Held(s \o t) = Held(s) \cup Held(t)  BY <1>1, HeldConcat
<1>3. Total(QOf, s \o t) = Total(QOf, s) + Total(QOf, t)  BY <1>1, Measures, TotalConcat
<1>4. Total(SOf, s \o t) = Total(SOf, s) + Total(SOf, t)  BY <1>1, Measures, TotalConcat
<1>5. Total(PreOf, s \o t) = Total(PreOf, s) + Total(PreOf, t)  BY <1>1, Measures, TotalConcat
<1>6. Total(LayerOf, s \o t) = Total(LayerOf, s) + Total(LayerOf, t)
  BY <1>1, Measures, TotalConcat
<1>7. \A it \in Held(s \o t) : Fits(it, held)  BY <1>2 DEF Walks
<1> QED  BY <1>2, <1>3, <1>4, <1>5, <1>6, <1>7 DEF Walks

\* One array taken as it is, and one layer.
LEMMA WalksFp ==
  ASSUME NEW held, NEW name \in Names, NEW n \in Nat, NEW pre \in Nat
  PROVE  Fp(name, n, pre) \in ItemSpace /\ Walks(<<Fp(name, n, pre)>>, held, 0, 0, pre, 0)
<1> DEFINE it == Fp(name, n, pre)
<1>1. it \in ItemSpace /\ it.op = "fp32" /\ it.pre = pre  BY DEF Fp, ItemSpace
<1> HIDE DEF it
<1>2. QOf[it] = 0 /\ SOf[it] = 0 /\ PreOf[it] = pre /\ LayerOf[it] = 0
  BY <1>1 DEF QOf, SOf, PreOf, LayerOf
<1>3. <<it>> \in Seq(ItemSpace) /\ Held(<<it>>) = {it} /\ Total(QOf, <<it>>) = QOf[it]
  BY <1>1, Measures, Single
<1>4. Total(SOf, <<it>>) = SOf[it] /\ Total(PreOf, <<it>>) = PreOf[it]
      /\ Total(LayerOf, <<it>>) = LayerOf[it]
  BY <1>1, Measures, Single
<1>5. Fits(it, held)  BY <1>1 DEF Fits
<1>6. Walks(<<it>>, held, 0, 0, pre, 0)  BY <1>2, <1>3, <1>4, <1>5 DEF Walks
<1> QED  BY <1>1, <1>6 DEF it

IsLayer(it, held, name, N, K, pre) ==
  /\ \E biased \in BOOLEAN : it = Int8(name, N, K, biased, N, K, pre)
  /\ name \in Names /\ name \in held /\ N \in Nat /\ K \in Nat /\ pre \in Nat

\* What one layer moves the cursors by.
LEMMA Int8Item ==
  ASSUME NEW it, NEW held, NEW name, NEW N, NEW K, NEW pre, IsLayer(it, held, name, N, K, pre)
  PROVE  /\ it \in ItemSpace /\ Fits(it, held)
         /\ QOf[it] = PackedSize(K, N) /\ SOf[it] = N /\ PreOf[it] = pre /\ LayerOf[it] = 1
<1>1. /\ it \in ItemSpace /\ it.op = "int8" /\ it.pre = pre /\ it.N = N /\ it.K = K
      /\ it.out = N /\ it.in = K /\ it.name = name
  BY DEF IsLayer, Int8, ItemSpace
<1>2. QOf[it] = PackedSize(K, N) /\ SOf[it] = N /\ PreOf[it] = pre /\ LayerOf[it] = 1
  BY <1>1 DEF QOf, SOf, PreOf, LayerOf
<1>3. Fits(it, held)  BY <1>1 DEF Fits, IsLayer
<1> QED  BY <1>1, <1>2, <1>3

\* A list of one layer.
LEMMA WalksInt8 ==
  ASSUME NEW it, NEW held, NEW name, NEW N, NEW K, NEW pre, IsLayer(it, held, name, N, K, pre)
  PROVE  Walks(<<it>>, held, PackedSize(K, N), N, pre, 1)
<1>1. /\ it \in ItemSpace /\ Fits(it, held)
      /\ QOf[it] = PackedSize(K, N) /\ SOf[it] = N /\ PreOf[it] = pre /\ LayerOf[it] = 1
  BY Int8Item
<1>3. <<it>> \in Seq(ItemSpace) /\ Held(<<it>>) = {it} /\ Total(QOf, <<it>>) = QOf[it]
  BY <1>1, Measures, Single
<1>4. Total(SOf, <<it>>) = SOf[it] /\ Total(PreOf, <<it>>) = PreOf[it]
      /\ Total(LayerOf, <<it>>) = LayerOf[it]
  BY <1>1, Measures, Single
<1> QED  BY <1>1, <1>3, <1>4 DEF Walks

\* A list for each block.
LEMMA WalksParts ==
  ASSUME NEW held, NEW n \in Nat, NEW ss, ss = [i \in 1 .. n |-> ss[i]],
         NEW q \in Nat, NEW m \in Nat, NEW p \in Nat, NEW l \in Nat,
         \A i \in 1 .. n : Walks(ss[i], held, q, m, p, l)
  PROVE  Walks(Ext!FlattenSeq(ss), held, n * q, n * m, n * p, n * l)
<1>1. ss \in [1 .. n -> Seq(ItemSpace)]  BY DEF Walks
<1>2. /\ Ext!FlattenSeq(ss) \in Seq(ItemSpace)
      /\ Held(Ext!FlattenSeq(ss)) = UNION {Held(ss[i]) : i \in 1 .. n}
      /\ PartTotals(ItemSpace, ss, n)
  BY <1>1, Flattened, Zenon
<1>3. \A i \in 1 .. n : /\ Total(QOf, ss[i]) = q /\ Total(SOf, ss[i]) = m
                        /\ Total(PreOf, ss[i]) = p /\ Total(LayerOf, ss[i]) = l
  BY DEF Walks
<1>4. /\ Total(QOf, Ext!FlattenSeq(ss)) = n * q /\ Total(SOf, Ext!FlattenSeq(ss)) = n * m
      /\ Total(PreOf, Ext!FlattenSeq(ss)) = n * p /\ Total(LayerOf, Ext!FlattenSeq(ss)) = n * l
  BY <1>2, <1>3, Measures, Zenon DEF PartTotals
<1>5. \A it \in UNION {Held(ss[i]) : i \in 1 .. n} : Fits(it, held)  BY Zenon DEF Walks
<1> QED  BY <1>2, <1>4, <1>5 DEF Walks

-----------------------------------------------------------------------------
(* The layers by name, as the repack gathers them *)

\* The int8 layers of a configuration, by name.
LayerNames(d) ==
  ({"rnn_fc", "attn_fc", "qkv", "gru_ih", "gru_hh"} \X (0 .. d.rf - 1))
    \cup ({"enc", "dec_1x1", "dec_3x3"} \X (0 .. d.enc - 1))
    \cup ({"rf_pre_lin", "rf_post_lin", "rf_pre_conv", "rf_post_conv", "dec_post_1x1"} \X {0})

\* The linears the repack gathers (fe_weights.c): three of each block and two.
LEMMA LinearsList ==
  ASSUME NEW d, d.rf \in Nat
  PROVE  Lists(Linears(d), d.rf * 3 + 2,
               ({"rnn_fc", "attn_fc", "qkv"} \X (0 .. d.rf - 1))
                 \cup ({"rf_pre_lin", "rf_post_lin"} \X {0}))
<1> DEFINE n == d.rf
           ss == [b \in 1 .. n |-> <<<<"rnn_fc", b - 1>>, <<"attn_fc", b - 1>>, <<"qkv", b - 1>>>>]
           last == <<<<"rf_pre_lin", 0>>, <<"rf_post_lin", 0>>>>
           A == {"rnn_fc", "attn_fc", "qkv"}
           B == {"rf_pre_lin", "rf_post_lin"} \X {0}
<1>1. {"rnn_fc", "attn_fc", "qkv", "rf_pre_lin", "rf_post_lin"} \subseteq Labels  BY DEF Labels
<1>2. ASSUME NEW i \in 1 .. n PROVE Lists(ss[i], 3, A \X {i - 1})
  <2>1. i - 1 \in Nat  OBVIOUS
  <2>2. Lists(<<<<"rnn_fc", i - 1>>, <<"attn_fc", i - 1>>, <<"qkv", i - 1>>>>, 3, A \X {i - 1})
    BY <1>1, <2>1, ListsFew
  <2> QED  BY <2>2, Zenon
<1>3. ss = [i \in 1 .. n |-> ss[i]]  OBVIOUS
<1>4. Lists(last, 2, B)  BY <1>1, ListsFew
<1>5. Linears(d) = Ext!FlattenSeq(ss) \o last  BY Zenon DEF Linears
<1> HIDE DEF ss, n, A, B, last
<1>6. Lists(Ext!FlattenSeq(ss), n * 3, A \X (0 .. n - 1))  BY <1>2, <1>3, ListsBlocks DEF n
<1>7. n * 3 \in Nat  BY DEF n
<1>8. Lists(Linears(d), n * 3 + 2, (A \X (0 .. n - 1)) \cup B)
  BY <1>4, <1>5, <1>6, <1>7, ListsConcat
<1> QED  BY <1>8 DEF n, A, B

\* The GRU matrices it gathers: two of each block.
LEMMA GrusList ==
  ASSUME NEW d, d.rf \in Nat
  PROVE  Lists(Grus(d), d.rf * 2, {"gru_ih", "gru_hh"} \X (0 .. d.rf - 1))
<1> DEFINE n == d.rf
           ss == [b \in 1 .. n |-> <<<<"gru_ih", b - 1>>, <<"gru_hh", b - 1>>>>]
           A == {"gru_ih", "gru_hh"}
<1>1. {"gru_ih", "gru_hh"} \subseteq Labels  BY DEF Labels
<1>2. ASSUME NEW i \in 1 .. n PROVE Lists(ss[i], 2, A \X {i - 1})
  <2>1. i - 1 \in Nat  OBVIOUS
  <2>2. Lists(<<<<"gru_ih", i - 1>>, <<"gru_hh", i - 1>>>>, 2, A \X {i - 1})
    BY <1>1, <2>1, ListsFew
  <2> QED  BY <2>2, Zenon
<1>3. ss = [i \in 1 .. n |-> ss[i]]  OBVIOUS
<1>5. Grus(d) = Ext!FlattenSeq(ss)  BY Zenon DEF Grus
<1> HIDE DEF ss, n, A
<1>6. Lists(Ext!FlattenSeq(ss), n * 2, A \X (0 .. n - 1))  BY <1>2, <1>3, ListsBlocks DEF n
<1> QED  BY <1>5, <1>6 DEF n, A

\* The convolutions it gathers: three of each encoder layer and three.
LEMMA ConvsList ==
  ASSUME NEW d, d.enc \in Nat
  PROVE  Lists(Convs(d), d.enc + 2 + d.enc + d.enc + 1,
               ({"enc"} \X (0 .. d.enc - 1)) \cup ({"rf_pre_conv", "rf_post_conv"} \X {0})
                 \cup ({"dec_1x1"} \X (0 .. d.enc - 1)) \cup ({"dec_3x3"} \X (0 .. d.enc - 1))
                 \cup ({"dec_post_1x1"} \X {0}))
<1> DEFINE n == d.enc
           Each(name) == [i \in 1 .. n |-> <<name, i - 1>>]
           E(name) == {name} \X (0 .. n - 1)
           rf == <<<<"rf_pre_conv", 0>>, <<"rf_post_conv", 0>>>>
           post == <<<<"dec_post_1x1", 0>>>>
           R == {"rf_pre_conv", "rf_post_conv"} \X {0}
           P == {"dec_post_1x1"} \X {0}
<1>1. {"enc", "dec_1x1", "dec_3x3", "rf_pre_conv", "rf_post_conv", "dec_post_1x1"} \subseteq Labels
  BY DEF Labels
<1>2. Lists(Each("enc"), n, E("enc"))  BY <1>1, ListsEach
<1>3. Lists(Each("dec_1x1"), n, E("dec_1x1"))  BY <1>1, ListsEach
<1>4. Lists(Each("dec_3x3"), n, E("dec_3x3"))  BY <1>1, ListsEach
<1>5. Lists(rf, 2, R) /\ Lists(post, 1, P)  BY <1>1, ListsFew
<1>6. Convs(d) = Each("enc") \o rf \o Each("dec_1x1") \o Each("dec_3x3") \o post
  BY Zenon DEF Convs
<1>7. n \in Nat /\ n + 2 \in Nat /\ n + 2 + n \in Nat /\ n + 2 + n + n \in Nat  OBVIOUS
<1> HIDE DEF n, Each, E, rf, post, R, P
<1>8. Lists(Each("enc") \o rf, n + 2, E("enc") \cup R)  BY <1>2, <1>5, <1>7, ListsConcat
<1>9. Lists(Each("enc") \o rf \o Each("dec_1x1"), n + 2 + n, E("enc") \cup R \cup E("dec_1x1"))
  BY <1>3, <1>7, <1>8, ListsConcat
<1>10. Lists(Each("enc") \o rf \o Each("dec_1x1") \o Each("dec_3x3"), n + 2 + n + n,
             E("enc") \cup R \cup E("dec_1x1") \cup E("dec_3x3"))
  BY <1>4, <1>7, <1>9, ListsConcat
<1>11. Lists(Convs(d), n + 2 + n + n + 1,
             E("enc") \cup R \cup E("dec_1x1") \cup E("dec_3x3") \cup P)
  BY <1>5, <1>6, <1>7, <1>10, ListsConcat
<1> QED  BY <1>11 DEF n, E, R, P

\* The repack takes every int8 layer, and as many as there are.
LEMMA RepackedList ==
  ASSUME NEW d, d.enc \in Nat, d.rf \in Nat
  PROVE  Lists(Repacked(d), 3 * d.enc + 5 * d.rf + 5, LayerNames(d))
<1> DEFINE a == d.rf * 3 + 2
           b == d.rf * 2
           c == d.enc + 2 + d.enc + d.enc + 1
           A == ({"rnn_fc", "attn_fc", "qkv"} \X (0 .. d.rf - 1))
                  \cup ({"rf_pre_lin", "rf_post_lin"} \X {0})
           B == {"gru_ih", "gru_hh"} \X (0 .. d.rf - 1)
           C == ({"enc"} \X (0 .. d.enc - 1)) \cup ({"rf_pre_conv", "rf_post_conv"} \X {0})
                  \cup ({"dec_1x1"} \X (0 .. d.enc - 1)) \cup ({"dec_3x3"} \X (0 .. d.enc - 1))
                  \cup ({"dec_post_1x1"} \X {0})
<1>1. Lists(Linears(d), a, A) /\ Lists(Grus(d), b, B) /\ Lists(Convs(d), c, C)
  BY LinearsList, GrusList, ConvsList, Zenon
<1>2. a \in Nat /\ b \in Nat /\ c \in Nat /\ a + b \in Nat  OBVIOUS
<1>3. (a + b) + c = 3 * d.enc + 5 * d.rf + 5  OBVIOUS
<1>4. LayerNames(d) \subseteq (A \cup B) \cup C  BY DEF LayerNames
<1> HIDE DEF a, b, c, A, B, C
<1>5. Lists(Linears(d) \o Grus(d), a + b, A \cup B)  BY <1>1, <1>2, ListsConcat
<1>6. Lists(Repacked(d), (a + b) + c, (A \cup B) \cup C)
  BY <1>1, <1>2, <1>5, ListsConcat DEF Repacked
<1> QED  BY <1>3, <1>4, <1>6 DEF Lists

-----------------------------------------------------------------------------
(* The file: its items, and how far they move the cursors *)

\* Parts of the file, with what they move the cursors by.
EncPart(d) ==
  [i \in 1 .. d.enc |->
     Int8(<<"enc", i - 1>>, d.C1, d.C1 * BLOB_K, TRUE, d.C1, d.C1 * BLOB_K, 0)]

\* The layers of the encoder, all of one shape.
LEMMA WalksEnc ==
  ASSUME NEW d, Dimensions(d)
  PROVE  Walks(EncPart(d), LayerNames(d), d.enc * PackedSize(d.C1 * BLOB_K, d.C1), d.enc * d.C1,
               0, d.enc)
<1> DEFINE n == d.enc
           s == EncPart(d)
           N == d.C1
           K == d.C1 * BLOB_K
           H == LayerNames(d)
<1>1. n \in Nat /\ N \in Nat /\ K \in Nat  BY DEF Dimensions, BLOB_K
<1>2. ASSUME NEW i \in 1 .. n
      PROVE  /\ s[i] \in ItemSpace /\ Fits(s[i], H)
             /\ QOf[s[i]] = PackedSize(K, N) /\ SOf[s[i]] = N /\ PreOf[s[i]] = 0 /\ LayerOf[s[i]] = 1
  <2> DEFINE name == <<"enc", i - 1>>
  <2>1. s[i] = Int8(name, N, K, TRUE, N, K, 0)  BY Zenon DEF EncPart
  <2>2. name \in Names /\ name \in H
    <3>1. i - 1 \in 0 .. n - 1 /\ i - 1 \in Nat  BY <1>1
    <3> QED  BY <3>1 DEF Names, Labels, LayerNames
  <2>3. IsLayer(s[i], H, name, N, K, 0)  BY <1>1, <2>1, <2>2 DEF IsLayer
  <2> HIDE DEF s, N, K, H, name, n
  <2> QED  BY <2>3, Int8Item
<1>3. s = [i \in 1 .. n |-> s[i]]  BY Zenon DEF EncPart
<1> HIDE DEF s, N, K, H, n
<1>4. s \in [1 .. n -> ItemSpace]  BY <1>2, <1>3
<1>5. PackedSize(K, N) \in Nat  BY <1>1, PackedSizeNat
<1>6. Uniform(ItemSpace, n, s, QOf, PackedSize(K, N))  BY <1>1, <1>2, <1>4, <1>5, Measures DEF Uniform
<1>7. Uniform(ItemSpace, n, s, SOf, N)  BY <1>1, <1>2, <1>4, Measures DEF Uniform
<1>8. Uniform(ItemSpace, n, s, PreOf, 0)  BY <1>1, <1>2, <1>4, Measures DEF Uniform
<1>9. Uniform(ItemSpace, n, s, LayerOf, 1)  BY <1>1, <1>2, <1>4, Measures DEF Uniform
<1>10. \A it \in Held(s) : Fits(it, H)  BY <1>2, <1>4 DEF Held
<1>11. n * 0 = 0 /\ n * 1 = n  BY <1>1
<1>12. Walks(s, H, n * PackedSize(K, N), n * N, n * 0, n * 1)
  <2>1. s \in Seq(ItemSpace) /\ Total(QOf, s) = n * PackedSize(K, N)  BY <1>6, UniformTotal
  <2>2. Total(SOf, s) = n * N  BY <1>7, UniformTotal
  <2>3. Total(PreOf, s) = n * 0  BY <1>8, UniformTotal
  <2>4. Total(LayerOf, s) = n * 1  BY <1>9, UniformTotal
  <2> QED  BY <1>10, <2>1, <2>2, <2>3, <2>4 DEF Walks
<1> QED  BY <1>11, <1>12 DEF s, N, K, H, n

\* Two layers, five, and none.
LEMMA PairSplit ==
  ASSUME NEW S, NEW a \in S, NEW b \in S
  PROVE  <<a, b>> = <<a>> \o <<b>>
<1> DEFINE z == <<a>> \o <<b>>
<1>1. z \in Seq(S) /\ Len(z) = 2 /\ z[1] = a /\ z[2] = b  OBVIOUS
<1> HIDE DEF z
<1>2. z = <<a, b>>  BY <1>1
<1> QED  BY <1>2 DEF z

\* Two layers one after another.
LEMMA WalksTwo ==
  ASSUME NEW held, NEW x, NEW nx, NEW Nx, NEW Kx, NEW px, IsLayer(x, held, nx, Nx, Kx, px),
         NEW y, NEW ny, NEW Ny, NEW Ky, NEW py, IsLayer(y, held, ny, Ny, Ky, py)
  PROVE  Walks(<<x, y>>, held, PackedSize(Kx, Nx) + PackedSize(Ky, Ny), Nx + Ny, px + py, 2)
<1>1. Walks(<<x>>, held, PackedSize(Kx, Nx), Nx, px, 1)  BY WalksInt8
<1>2. Walks(<<y>>, held, PackedSize(Ky, Ny), Ny, py, 1)  BY WalksInt8
<1>3. x \in ItemSpace /\ y \in ItemSpace  BY Int8Item
<1>4. <<x, y>> = <<x>> \o <<y>>  BY <1>3, PairSplit
<1>5. Walks(<<x>> \o <<y>>, held, PackedSize(Kx, Nx) + PackedSize(Ky, Ny), Nx + Ny, px + py, 1 + 1)
  BY <1>1, <1>2, WalksConcat
<1>6. 1 + 1 = 2  OBVIOUS
<1> QED  BY <1>4, <1>5, <1>6

\* No item moves no cursor.
LEMMA WalksNone ==
  ASSUME NEW held
  PROVE  Walks(<<>>, held, 0, 0, 0, 0)
<1>1. <<>> \in Seq(ItemSpace) /\ Held(<<>>) = {} /\ Len(<<>>) = 0  BY DEF Held
<1>2. \A g : Total(g, <<>>) = 0
  <2> TAKE g
  <2>1. SumTo(0, [i \in Nat |-> g[<<>>[i + 1]]]) = 0  BY SumToStep
  <2> QED  BY <1>1, <2>1 DEF Total
<1>3. Total(QOf, <<>>) = 0 /\ Total(SOf, <<>>) = 0 /\ Total(PreOf, <<>>) = 0
      /\ Total(LayerOf, <<>>) = 0
  BY <1>2
<1> QED  BY <1>1, <1>3 DEF Walks

\* Five layers one after another.
LEMMA WalksFive ==
  ASSUME NEW held,
         NEW a, NEW na, NEW Na, NEW Ka, NEW pa, IsLayer(a, held, na, Na, Ka, pa),
         NEW b, NEW nb, NEW Nb, NEW Kb, NEW pb, IsLayer(b, held, nb, Nb, Kb, pb),
         NEW c, NEW nc, NEW Nc, NEW Kc, NEW pc, IsLayer(c, held, nc, Nc, Kc, pc),
         NEW d, NEW nd, NEW Nd, NEW Kd, NEW pd, IsLayer(d, held, nd, Nd, Kd, pd),
         NEW e, NEW ne, NEW Ne, NEW Ke, NEW pe, IsLayer(e, held, ne, Ne, Ke, pe)
  PROVE  Walks(<<a, b, c, d, e>>, held,
               PackedSize(Ka, Na) + PackedSize(Kb, Nb) + PackedSize(Kc, Nc)
                 + (PackedSize(Kd, Nd) + PackedSize(Ke, Ne)),
               Na + Nb + Nc + (Nd + Ne), pa + pb + pc + (pd + pe), 5)
<1>1. /\ Walks(<<a, b>>, held, PackedSize(Ka, Na) + PackedSize(Kb, Nb), Na + Nb, pa + pb, 2)
      /\ Walks(<<d, e>>, held, PackedSize(Kd, Nd) + PackedSize(Ke, Ne), Nd + Ne, pd + pe, 2)
  BY WalksTwo
<1>2. Walks(<<c>>, held, PackedSize(Kc, Nc), Nc, pc, 1)  BY WalksInt8
<1>3. Walks(<<a, b>> \o <<c>>, held,
            PackedSize(Ka, Na) + PackedSize(Kb, Nb) + PackedSize(Kc, Nc),
            Na + Nb + Nc, pa + pb + pc, 2 + 1)
  BY <1>1, <1>2, WalksConcat
<1>4. Walks((<<a, b>> \o <<c>>) \o <<d, e>>, held,
            PackedSize(Ka, Na) + PackedSize(Kb, Nb) + PackedSize(Kc, Nc)
              + (PackedSize(Kd, Nd) + PackedSize(Ke, Ne)),
            Na + Nb + Nc + (Nd + Ne), pa + pb + pc + (pd + pe), 2 + 1 + 2)
  BY <1>1, <1>3, WalksConcat
<1>5. a \in ItemSpace /\ b \in ItemSpace /\ c \in ItemSpace /\ d \in ItemSpace /\ e \in ItemSpace
  BY Int8Item
<1>6. <<a, b, c, d, e>> = (<<a, b>> \o <<c>>) \o <<d, e>>
  <2> DEFINE z == <<a, b>> \o <<c>>
  <2>1. z \in Seq(ItemSpace) /\ Len(z) = 3 /\ z[1] = a /\ z[2] = b /\ z[3] = c  BY <1>5
  <2>2. <<a, b, c, d, e>> = <<a, b, c>> \o <<d, e>>  BY <1>5
  <2> HIDE DEF z
  <2>3. z = <<a, b, c>>  BY <2>1
  <2> QED  BY <2>2, <2>3 DEF z
<1>7. 2 + 1 + 2 = 5  OBVIOUS
<1> QED  BY <1>4, <1>6, <1>7

\* The other parts of the file.
PrePart(d) ==
  <<Fp(<<"enc_pre", 0>>, d.C1 * (2 * d.stride) * (BLOB_K0 \div d.stride), 0),
    Fp(<<"enc_pre bias", 0>>, d.C1, SgemmFloats(PreK(d), d.C1))>>
RfPre(d) ==
  <<Int8(<<"rf_pre_lin", 0>>, d.F2, d.F1, FALSE, d.F2, d.F1, 0),
    Int8(<<"rf_pre_conv", 0>>, d.C2, d.C1, TRUE, d.C2, d.C1 * 1, 0)>>
RfPost(d) ==
  <<Int8(<<"rf_post_lin", 0>>, d.F1, d.F2, FALSE, d.F1, d.F2, 0),
    Int8(<<"rf_post_conv", 0>>, d.C1, d.C2, TRUE, d.C1, d.C2 * 1, 0)>>
DecPost(d) ==
  <<Int8(<<"dec_post_1x1", 0>>, d.C1, 2 * d.C1, TRUE, d.C1, 2 * d.C1 * 1, 0),
    Fp(<<"dec_post_up", 0>>, d.C1 * 2 * BLOB_K0, 0),
    Fp(<<"dec_post_up bias", 0>>, 2, 0)>>

\* The file is its parts one after another.
LEMMA FileParts ==
  ASSUME NEW d
  PROVE  FileItems(d) =
           PrePart(d) \o EncPart(d) \o RfPre(d)
             \o Ext!FlattenSeq([b \in 1 .. d.rf |-> RfItems(d, b - 1)]) \o RfPost(d)
             \o Ext!FlattenSeq([i \in 1 .. d.enc |-> DecItems(d, i - 1)]) \o DecPost(d)
BY Zenon DEF FileItems, PrePart, EncPart, RfPre, RfPost, DecPost

\* The first convolution has no int8 layer; its packed copy is made with its bias.
LEMMA WalksPre ==
  ASSUME NEW d, Dimensions(d), NEW H
  PROVE  Walks(PrePart(d), H, 0, 0, SgemmFloats(PreK(d), d.C1), 0)
<1> DEFINE x == Fp(<<"enc_pre", 0>>, d.C1 * (2 * d.stride) * (BLOB_K0 \div d.stride), 0)
           p == SgemmFloats(PreK(d), d.C1)
           y == Fp(<<"enc_pre bias", 0>>, d.C1, p)
<1>1. <<"enc_pre", 0>> \in Names /\ <<"enc_pre bias", 0>> \in Names  BY DEF Names, Labels
<1>2. d.C1 * (2 * d.stride) * (BLOB_K0 \div d.stride) \in Nat
  <2>1. d.stride = 4 /\ d.C1 \in Nat  BY DEF Dimensions, BLOB_K0
  <2>2. BLOB_K0 \div d.stride = 2  BY <2>1 DEF BLOB_K0
  <2> QED  BY <2>1, <2>2
<1>3. p \in Nat
  <2>1. PreK(d) \in Nat /\ d.C1 \in Nat  BY DEF Dimensions, PreK
  <2> QED  BY <2>1, PackedSizeNat
<1> HIDE DEF p
<1>4. x \in ItemSpace /\ Walks(<<x>>, H, 0, 0, 0, 0)
  <2> DEFINE n == d.C1 * (2 * d.stride) * (BLOB_K0 \div d.stride)
             name == <<"enc_pre", 0>>
  <2>1. n \in Nat /\ name \in Names /\ 0 \in Nat  BY <1>1, <1>2
  <2> HIDE DEF n, name
  <2>2. Fp(name, n, 0) \in ItemSpace /\ Walks(<<Fp(name, n, 0)>>, H, 0, 0, 0, 0)
    BY <2>1, WalksFp
  <2> QED  BY <2>2 DEF n, name
<1>5. y \in ItemSpace /\ Walks(<<y>>, H, 0, 0, p, 0)
  <2> DEFINE name == <<"enc_pre bias", 0>>
  <2>1. d.C1 \in Nat /\ name \in Names  BY <1>1 DEF Dimensions
  <2> HIDE DEF name
  <2>2. Fp(name, d.C1, p) \in ItemSpace /\ Walks(<<Fp(name, d.C1, p)>>, H, 0, 0, p, 0)
    BY <1>3, <2>1, WalksFp
  <2> QED  BY <2>2 DEF name
<1>6. PrePart(d) = <<x, y>>  BY DEF PrePart, p
<1> HIDE DEF x, y
<1>7. <<x, y>> = <<x>> \o <<y>>  BY <1>4, <1>5, PairSplit
<1>8. Walks(<<x>> \o <<y>>, H, 0 + 0, 0 + 0, 0 + p, 0 + 0)  BY <1>4, <1>5, WalksConcat
<1>9. 0 + p = p /\ 0 + 0 = 0  BY <1>3
<1>10. Walks(PrePart(d), H, 0, 0, p, 0)  BY <1>6, <1>7, <1>8, <1>9
<1> QED  BY <1>10 DEF p

\* A layer of the configuration by its name.
LEMMA NamedOnce ==
  ASSUME NEW d,
         NEW name \in {"rf_pre_lin", "rf_post_lin", "rf_pre_conv", "rf_post_conv", "dec_post_1x1"}
  PROVE  <<name, 0>> \in Names /\ <<name, 0>> \in LayerNames(d)
<1>1. name \in Labels  BY DEF Labels
<1>2. <<name, 0>> \in Names  BY <1>1 DEF Names
<1>3. <<name, 0>> \in LayerNames(d)  BY DEF LayerNames
<1> QED  BY <1>2, <1>3

\* A layer of a block or of the encoder and decoder by its name.
LEMMA NamedEach ==
  ASSUME NEW d, d.enc \in Nat, d.rf \in Nat, NEW name, NEW b,
         \/ name \in {"rnn_fc", "attn_fc", "qkv", "gru_ih", "gru_hh"} /\ b \in 0 .. d.rf - 1
         \/ name \in {"enc", "dec_1x1", "dec_3x3"} /\ b \in 0 .. d.enc - 1
  PROVE  <<name, b>> \in Names /\ <<name, b>> \in LayerNames(d)
<1>1. name \in Labels
  <2>1. CASE name \in {"rnn_fc", "attn_fc", "qkv", "gru_ih", "gru_hh"}  BY <2>1 DEF Labels
  <2>2. CASE name \in {"enc", "dec_1x1", "dec_3x3"}  BY <2>2 DEF Labels
  <2> QED  BY <2>1, <2>2
<1>2. b \in Nat
  <2>1. 0 .. d.rf - 1 \subseteq Nat /\ 0 .. d.enc - 1 \subseteq Nat  OBVIOUS
  <2> QED  BY <2>1
<1>3. <<name, b>> \in Names  BY <1>1, <1>2 DEF Names
<1>4. <<name, b>> \in LayerNames(d)  BY DEF LayerNames
<1> QED  BY <1>3, <1>4

\* The two layers before the blocks.
LEMMA WalksRfPre ==
  ASSUME NEW d, Dimensions(d)
  PROVE  Walks(RfPre(d), LayerNames(d), PackedSize(d.F1, d.F2) + PackedSize(d.C1, d.C2),
               d.F2 + d.C2, 0, 2)
<1> DEFINE H == LayerNames(d)
           nx == <<"rf_pre_lin", 0>>
           ny == <<"rf_pre_conv", 0>>
           x == Int8(nx, d.F2, d.F1, FALSE, d.F2, d.F1, 0)
           y == Int8(ny, d.C2, d.C1, TRUE, d.C2, d.C1, 0)
<1>1. nx \in Names /\ nx \in H /\ ny \in Names /\ ny \in H  BY NamedOnce
<1>2. {d.C1, d.C2, d.F1, d.F2, 0} \subseteq Nat /\ d.C1 * 1 = d.C1  BY DEF Dimensions
<1>3. RfPre(d) = <<x, y>>  BY <1>2 DEF RfPre
<1> HIDE DEF H, nx, ny
<1>4. IsLayer(x, H, nx, d.F2, d.F1, 0) /\ IsLayer(y, H, ny, d.C2, d.C1, 0)
  BY <1>1, <1>2 DEF IsLayer
<1> HIDE DEF x, y
<1>5. Walks(<<x, y>>, H, PackedSize(d.F1, d.F2) + PackedSize(d.C1, d.C2), d.F2 + d.C2, 0 + 0, 2)
  BY <1>4, WalksTwo
<1>6. 0 + 0 = 0  OBVIOUS
<1> QED  BY <1>3, <1>5, <1>6 DEF H

\* The two layers after the blocks.
LEMMA WalksRfPost ==
  ASSUME NEW d, Dimensions(d)
  PROVE  Walks(RfPost(d), LayerNames(d), PackedSize(d.F2, d.F1) + PackedSize(d.C2, d.C1),
               d.F1 + d.C1, 0, 2)
<1> DEFINE H == LayerNames(d)
           nx == <<"rf_post_lin", 0>>
           ny == <<"rf_post_conv", 0>>
           x == Int8(nx, d.F1, d.F2, FALSE, d.F1, d.F2, 0)
           y == Int8(ny, d.C1, d.C2, TRUE, d.C1, d.C2, 0)
<1>1. nx \in Names /\ nx \in H /\ ny \in Names /\ ny \in H  BY NamedOnce
<1>2. {d.C1, d.C2, d.F1, d.F2, 0} \subseteq Nat /\ d.C2 * 1 = d.C2  BY DEF Dimensions
<1>3. RfPost(d) = <<x, y>>  BY <1>2 DEF RfPost
<1> HIDE DEF H, nx, ny
<1>4. IsLayer(x, H, nx, d.F1, d.F2, 0) /\ IsLayer(y, H, ny, d.C1, d.C2, 0)
  BY <1>1, <1>2 DEF IsLayer
<1> HIDE DEF x, y
<1>5. Walks(<<x, y>>, H, PackedSize(d.F2, d.F1) + PackedSize(d.C2, d.C1), d.F1 + d.C1, 0 + 0, 2)
  BY <1>4, WalksTwo
<1>6. 0 + 0 = 0  OBVIOUS
<1> QED  BY <1>3, <1>5, <1>6 DEF H

\* The two layers of a level of the decoder.
LEMMA WalksDec ==
  ASSUME NEW d, Dimensions(d), NEW b \in 0 .. d.enc - 1
  PROVE  Walks(DecItems(d, b), LayerNames(d),
               PackedSize(2 * d.C1, d.C1) + PackedSize(d.C1 * BLOB_K, d.C1), d.C1 + d.C1, 0, 2)
<1> DEFINE H == LayerNames(d)
           nx == <<"dec_1x1", b>>
           ny == <<"dec_3x3", b>>
           K == 2 * d.C1
           L == d.C1 * BLOB_K
           x == Int8(nx, d.C1, K, TRUE, d.C1, K, 0)
           y == Int8(ny, d.C1, L, TRUE, d.C1, L, 0)
<1>1. nx \in Names /\ nx \in H /\ ny \in Names /\ ny \in H
  <2>1. d.enc \in Nat /\ d.rf \in Nat  BY DEF Dimensions
  <2> QED  BY <2>1, NamedEach
<1>2. {d.C1, K, L, 0} \subseteq Nat /\ 2 * d.C1 * 1 = K  BY DEF Dimensions, BLOB_K
<1>3. DecItems(d, b) = <<x, y>>  BY <1>2 DEF DecItems
<1> HIDE DEF H, nx, ny, K, L
<1>4. IsLayer(x, H, nx, d.C1, K, 0) /\ IsLayer(y, H, ny, d.C1, L, 0)
  BY <1>1, <1>2 DEF IsLayer
<1> HIDE DEF x, y
<1>5. Walks(<<x, y>>, H, PackedSize(K, d.C1) + PackedSize(L, d.C1), d.C1 + d.C1, 0 + 0, 2)
  BY <1>4, WalksTwo
<1>6. 0 + 0 = 0  OBVIOUS
<1> QED  BY <1>3, <1>5, <1>6 DEF H, K, L

\* The last layer, and the fp32 up-sampling after it.
LEMMA WalksPost ==
  ASSUME NEW d, Dimensions(d)
  PROVE  Walks(DecPost(d), LayerNames(d), PackedSize(2 * d.C1, d.C1), d.C1, 0, 1)
<1> DEFINE H == LayerNames(d)
           nx == <<"dec_post_1x1", 0>>
           ny == <<"dec_post_up", 0>>
           nz == <<"dec_post_up bias", 0>>
           K == 2 * d.C1
           n == d.C1 * 2 * BLOB_K0
           x == Int8(nx, d.C1, K, TRUE, d.C1, K, 0)
           y == Fp(ny, n, 0)
           z == Fp(nz, 2, 0)
           p == PackedSize(K, d.C1)
<1>1. nx \in Names /\ nx \in H  BY NamedOnce
<1>2. ny \in Names /\ nz \in Names  BY DEF Names, Labels
<1>3. {d.C1, K, n, 2, 0} \subseteq Nat /\ 2 * d.C1 * 1 = K  BY DEF Dimensions, BLOB_K0
<1>4. DecPost(d) = <<x, y, z>>  BY <1>3 DEF DecPost
<1> HIDE DEF H, nx, ny, nz, K, n
<1>5. IsLayer(x, H, nx, d.C1, K, 0)  BY <1>1, <1>3 DEF IsLayer
<1>6. x \in ItemSpace /\ Walks(<<x>>, H, p, d.C1, 0, 1)
  <2> HIDE DEF x
  <2> QED  BY <1>5, Int8Item, WalksInt8
<1>7. y \in ItemSpace /\ Walks(<<y>>, H, 0, 0, 0, 0)  BY <1>2, <1>3, WalksFp
<1>8. z \in ItemSpace /\ Walks(<<z>>, H, 0, 0, 0, 0)  BY <1>2, <1>3, WalksFp
<1>9. p \in Nat  BY <1>3, PackedSizeNat
<1> HIDE DEF x, y, z, p
<1>10. <<x, y, z>> = (<<x>> \o <<y>>) \o <<z>>
  <2> DEFINE w == <<x, y>> \o <<z>>
  <2>1. w \in Seq(ItemSpace) /\ Len(w) = 3 /\ w[1] = x /\ w[2] = y /\ w[3] = z
    BY <1>6, <1>7, <1>8
  <2> HIDE DEF w
  <2>2. w = <<x, y, z>>  BY <2>1
  <2>3. <<x, y>> = <<x>> \o <<y>>  BY <1>6, <1>7, PairSplit
  <2> QED  BY <2>2, <2>3 DEF w
<1>11. Walks(<<x>> \o <<y>>, H, p + 0, d.C1 + 0, 0 + 0, 1 + 0)  BY <1>6, <1>7, WalksConcat
<1>12. Walks((<<x>> \o <<y>>) \o <<z>>, H, p + 0 + 0, d.C1 + 0 + 0, 0 + 0 + 0, 1 + 0 + 0)
  BY <1>8, <1>11, WalksConcat
<1>13. p + 0 + 0 = p /\ d.C1 + 0 + 0 = d.C1 /\ 0 + 0 + 0 = 0 /\ 1 + 0 + 0 = 1  BY <1>3, <1>9
<1> QED  BY <1>4, <1>10, <1>12, <1>13 DEF H, p, K

\* The five layers of a block, and the positional encoding of the first.
LEMMA WalksRf ==
  ASSUME NEW d, Dimensions(d), NEW b \in 0 .. d.rf - 1
  PROVE  Walks(RfItems(d, b), LayerNames(d),
               PackedSize(d.D, 3 * d.D) + PackedSize(d.D, 3 * d.D) + PackedSize(d.C2, d.C2)
                 + (PackedSize(d.C2, 3 * d.C2) + PackedSize(d.C2, d.C2)),
               3 * d.D + 3 * d.D + d.C2 + (3 * d.C2 + d.C2), 3 * d.D, 5)
<1> DEFINE H == LayerNames(d)
           n1 == <<"gru_ih", b>>
           n2 == <<"gru_hh", b>>
           n3 == <<"rnn_fc", b>>
           n4 == <<"qkv", b>>
           n5 == <<"attn_fc", b>>
           D == d.D
           G == 3 * d.D
           C == d.C2
           Q == 3 * d.C2
           x1 == Int8(n1, G, D, TRUE, G, D, 0)
           x2 == Int8(n2, G, D, TRUE, G, D, G)
           x3 == Int8(n3, C, C, TRUE, C, C, 0)
           x4 == Int8(n4, Q, C, FALSE, Q, C, 0)
           x5 == Int8(n5, C, C, TRUE, C, C, 0)
           five == <<x1, x2, x3, x4, x5>>
           pe == IF b = 0 THEN <<Fp(<<"pe", 0>>, d.F2 * d.C2, 0)>> ELSE <<>>
           q == PackedSize(D, G) + PackedSize(D, G) + PackedSize(C, C)
                  + (PackedSize(C, Q) + PackedSize(C, C))
           m == G + G + C + (Q + C)
<1>1. /\ n1 \in Names /\ n1 \in H /\ n2 \in Names /\ n2 \in H /\ n3 \in Names /\ n3 \in H
      /\ n4 \in Names /\ n4 \in H /\ n5 \in Names /\ n5 \in H
  <2>1. d.enc \in Nat /\ d.rf \in Nat  BY DEF Dimensions
  <2> QED  BY <2>1, NamedEach
<1>2. D \in Nat /\ G \in Nat /\ C \in Nat /\ Q \in Nat /\ 0 \in Nat  BY DEF Dimensions
<1>3. RfItems(d, b) = five \o pe  BY Zenon DEF RfItems
<1>4. Walks(pe, H, 0, 0, 0, 0)
  <2>1. CASE b # 0  BY <2>1, WalksNone
  <2>2. CASE b = 0
    <3> DEFINE name == <<"pe", 0>>
               k == d.F2 * d.C2
    <3>1. name \in Names /\ k \in Nat
      <4>1. name \in Names  BY DEF Names, Labels
      <4>2. d.F2 \in Nat /\ d.C2 \in Nat  BY DEF Dimensions
      <4> QED  BY <4>1, <4>2
    <3> HIDE DEF name, k
    <3>2. Walks(<<Fp(name, k, 0)>>, H, 0, 0, 0, 0)  BY <1>2, <3>1, WalksFp
    <3>3. pe = <<Fp(name, k, 0)>>  BY <2>2 DEF name, k
    <3> QED  BY <3>2, <3>3
  <2> QED  BY <2>1, <2>2
<1> HIDE DEF H, n1, n2, n3, n4, n5, D, G, C, Q, pe
<1>5. /\ IsLayer(x1, H, n1, G, D, 0) /\ IsLayer(x2, H, n2, G, D, G) /\ IsLayer(x3, H, n3, C, C, 0)
      /\ IsLayer(x4, H, n4, Q, C, 0) /\ IsLayer(x5, H, n5, C, C, 0)
  BY <1>1, <1>2 DEF IsLayer
<1> HIDE DEF x1, x2, x3, x4, x5
<1>6. Walks(five, H, q, m, 0 + G + 0 + (0 + 0), 5)  BY <1>5, WalksFive
<1>7. 0 + G + 0 + (0 + 0) = G /\ G + 0 = G /\ m + 0 = m /\ 5 + 0 = 5  BY <1>2
<1>8. q + 0 = q
  <2>1. /\ PackedSize(D, G) \in Nat /\ PackedSize(C, C) \in Nat /\ PackedSize(C, Q) \in Nat
    BY <1>2, PackedSizeNat
  <2> QED  BY <2>1
<1> HIDE DEF q, m, five
<1>9. Walks(five, H, q, m, G, 5)  BY <1>6, <1>7
<1>10. Walks(five \o pe, H, q + 0, m + 0, G + 0, 5 + 0)  BY <1>4, <1>9, WalksConcat
<1>11. Walks(RfItems(d, b), H, q, m, G, 5)  BY <1>3, <1>7, <1>8, <1>10
<1> QED  BY <1>11 DEF H, q, m, G, D, C, Q

\* What the whole file moves the cursors by.
RfQ(d) == PackedSize(d.D, 3 * d.D) + PackedSize(d.D, 3 * d.D) + PackedSize(d.C2, d.C2)
            + (PackedSize(d.C2, 3 * d.C2) + PackedSize(d.C2, d.C2))
RfN(d) == 3 * d.D + 3 * d.D + d.C2 + (3 * d.C2 + d.C2)
DecQ(d) == PackedSize(2 * d.C1, d.C1) + PackedSize(d.C1 * BLOB_K, d.C1)
FileQ(d) ==
  d.enc * PackedSize(d.C1 * BLOB_K, d.C1) + (PackedSize(d.F1, d.F2) + PackedSize(d.C1, d.C2))
    + d.rf * RfQ(d) + (PackedSize(d.F2, d.F1) + PackedSize(d.C2, d.C1)) + d.enc * DecQ(d)
    + PackedSize(2 * d.C1, d.C1)
FileN(d) ==
  d.enc * d.C1 + (d.F2 + d.C2) + d.rf * RfN(d) + (d.F1 + d.C1) + d.enc * (d.C1 + d.C1) + d.C1
FilePre(d) == SgemmFloats(PreK(d), d.C1) + d.rf * (3 * d.D)
FileLayers(d) == 3 * d.enc + 5 * d.rf + 5

\* The sizes of the parts are naturals.
LEMMA PartSizes ==
  ASSUME NEW d, Dimensions(d)
  PROVE  /\ RfQ(d) \in Nat /\ RfN(d) \in Nat /\ DecQ(d) \in Nat
         /\ SgemmFloats(PreK(d), d.C1) \in Nat /\ PackedSize(d.C1 * BLOB_K, d.C1) \in Nat
<1>1. /\ d.C1 \in Nat /\ d.C2 \in Nat /\ d.D \in Nat /\ d.stride \in Nat  BY DEF Dimensions
<1>2. /\ 3 * d.D \in Nat /\ 3 * d.C2 \in Nat /\ 2 * d.C1 \in Nat /\ d.C1 * BLOB_K \in Nat
      /\ PreK(d) \in Nat
  BY <1>1 DEF BLOB_K, PreK
<1>3. /\ PackedSize(d.D, 3 * d.D) \in Nat /\ PackedSize(d.C2, d.C2) \in Nat
      /\ PackedSize(d.C2, 3 * d.C2) \in Nat /\ PackedSize(2 * d.C1, d.C1) \in Nat
      /\ PackedSize(d.C1 * BLOB_K, d.C1) \in Nat /\ SgemmFloats(PreK(d), d.C1) \in Nat
  BY <1>1, <1>2, PackedSizeNat
<1>4. RfQ(d) \in Nat  BY <1>3 DEF RfQ
<1>5. RfN(d) \in Nat  BY <1>1 DEF RfN
<1>6. DecQ(d) \in Nat  BY <1>3 DEF DecQ
<1> QED  BY <1>3, <1>4, <1>5, <1>6

\* The items of the file, taken one after another.
LEMMA FileWalks ==
  ASSUME NEW d, Dimensions(d)
  PROVE  Walks(FileItems(d), LayerNames(d), FileQ(d), FileN(d), FilePre(d), FileLayers(d))
<1> DEFINE H == LayerNames(d)
           E == PackedSize(d.C1 * BLOB_K, d.C1)
           p == SgemmFloats(PreK(d), d.C1)
           rs == [b \in 1 .. d.rf |-> RfItems(d, b - 1)]
           ds == [i \in 1 .. d.enc |-> DecItems(d, i - 1)]
           a == PackedSize(d.F1, d.F2) + PackedSize(d.C1, d.C2)
           b == PackedSize(d.F2, d.F1) + PackedSize(d.C2, d.C1)
           c == PackedSize(2 * d.C1, d.C1)
<1>1. /\ d.enc \in Nat /\ d.rf \in Nat /\ d.C1 \in Nat /\ 3 * d.D \in Nat /\ d.C1 + d.C1 \in Nat
  BY DEF Dimensions
<1>2. /\ RfQ(d) \in Nat /\ RfN(d) \in Nat /\ DecQ(d) \in Nat /\ p \in Nat /\ E \in Nat  BY PartSizes
<1>3. Walks(PrePart(d), H, 0, 0, p, 0)  BY WalksPre
<1>4. Walks(EncPart(d), H, d.enc * E, d.enc * d.C1, 0, d.enc)  BY WalksEnc
<1>5. Walks(RfPre(d), H, a, d.F2 + d.C2, 0, 2)  BY WalksRfPre
<1>6. Walks(RfPost(d), H, b, d.F1 + d.C1, 0, 2)  BY WalksRfPost
<1>7. Walks(DecPost(d), H, c, d.C1, 0, 1)  BY WalksPost
<1>8. Walks(Ext!FlattenSeq(rs), H, d.rf * RfQ(d), d.rf * RfN(d), d.rf * (3 * d.D), d.rf * 5)
  <2>1. ASSUME NEW k \in 1 .. d.rf PROVE Walks(rs[k], H, RfQ(d), RfN(d), 3 * d.D, 5)
    <3>1. k - 1 \in 0 .. d.rf - 1  BY <1>1
    <3>2. Walks(RfItems(d, k - 1), H, RfQ(d), RfN(d), 3 * d.D, 5)
      BY <3>1, WalksRf DEF RfQ, RfN
    <3>3. rs[k] = RfItems(d, k - 1)  OBVIOUS
    <3> QED  BY <3>2, <3>3
  <2>2. rs = [k \in 1 .. d.rf |-> rs[k]] /\ 5 \in Nat  OBVIOUS
  <2> HIDE DEF rs, H
  <2> QED  BY <1>1, <1>2, <2>1, <2>2, WalksParts
<1>9. Walks(Ext!FlattenSeq(ds), H, d.enc * DecQ(d), d.enc * (d.C1 + d.C1), d.enc * 0, d.enc * 2)
  <2>1. ASSUME NEW k \in 1 .. d.enc PROVE Walks(ds[k], H, DecQ(d), d.C1 + d.C1, 0, 2)
    <3>1. k - 1 \in 0 .. d.enc - 1  BY <1>1
    <3>2. Walks(DecItems(d, k - 1), H, DecQ(d), d.C1 + d.C1, 0, 2)  BY <3>1, WalksDec DEF DecQ
    <3>3. ds[k] = DecItems(d, k - 1)  OBVIOUS
    <3> QED  BY <3>2, <3>3
  <2>2. ds = [k \in 1 .. d.enc |-> ds[k]] /\ 2 \in Nat /\ 0 \in Nat  OBVIOUS
  <2> HIDE DEF ds, H
  <2> QED  BY <1>1, <1>2, <2>1, <2>2, WalksParts
<1>10. FileItems(d) = PrePart(d) \o EncPart(d) \o RfPre(d) \o Ext!FlattenSeq(rs) \o RfPost(d)
                        \o Ext!FlattenSeq(ds) \o DecPost(d)
  BY FileParts
<1> HIDE DEF H, E, p, rs, ds, a, b, c
<1>11. Walks(PrePart(d) \o EncPart(d), H, 0 + d.enc * E, 0 + d.enc * d.C1, p + 0, 0 + d.enc)
  BY <1>3, <1>4, WalksConcat
<1>12. Walks(PrePart(d) \o EncPart(d) \o RfPre(d), H, 0 + d.enc * E + a,
             0 + d.enc * d.C1 + (d.F2 + d.C2), p + 0 + 0, 0 + d.enc + 2)
  BY <1>5, <1>11, WalksConcat
<1>13. Walks(PrePart(d) \o EncPart(d) \o RfPre(d) \o Ext!FlattenSeq(rs), H,
             0 + d.enc * E + a + d.rf * RfQ(d),
             0 + d.enc * d.C1 + (d.F2 + d.C2) + d.rf * RfN(d),
             p + 0 + 0 + d.rf * (3 * d.D), 0 + d.enc + 2 + d.rf * 5)
  BY <1>8, <1>12, WalksConcat
<1>14. Walks(PrePart(d) \o EncPart(d) \o RfPre(d) \o Ext!FlattenSeq(rs) \o RfPost(d), H,
             0 + d.enc * E + a + d.rf * RfQ(d) + b,
             0 + d.enc * d.C1 + (d.F2 + d.C2) + d.rf * RfN(d) + (d.F1 + d.C1),
             p + 0 + 0 + d.rf * (3 * d.D) + 0, 0 + d.enc + 2 + d.rf * 5 + 2)
  BY <1>6, <1>13, WalksConcat
<1>15. Walks(PrePart(d) \o EncPart(d) \o RfPre(d) \o Ext!FlattenSeq(rs) \o RfPost(d)
               \o Ext!FlattenSeq(ds), H,
             0 + d.enc * E + a + d.rf * RfQ(d) + b + d.enc * DecQ(d),
             0 + d.enc * d.C1 + (d.F2 + d.C2) + d.rf * RfN(d) + (d.F1 + d.C1)
               + d.enc * (d.C1 + d.C1),
             p + 0 + 0 + d.rf * (3 * d.D) + 0 + d.enc * 0,
             0 + d.enc + 2 + d.rf * 5 + 2 + d.enc * 2)
  BY <1>9, <1>14, WalksConcat
<1>16. Walks(PrePart(d) \o EncPart(d) \o RfPre(d) \o Ext!FlattenSeq(rs) \o RfPost(d)
               \o Ext!FlattenSeq(ds) \o DecPost(d), H,
             0 + d.enc * E + a + d.rf * RfQ(d) + b + d.enc * DecQ(d) + c,
             0 + d.enc * d.C1 + (d.F2 + d.C2) + d.rf * RfN(d) + (d.F1 + d.C1)
               + d.enc * (d.C1 + d.C1) + d.C1,
             p + 0 + 0 + d.rf * (3 * d.D) + 0 + d.enc * 0 + 0,
             0 + d.enc + 2 + d.rf * 5 + 2 + d.enc * 2 + 1)
  BY <1>7, <1>15, WalksConcat
<1>17. 0 + d.enc * E = d.enc * E /\ 0 + d.enc * d.C1 = d.enc * d.C1
  <2>1. d.enc * E \in Nat /\ d.enc * d.C1 \in Nat  BY <1>1, <1>2
  <2> QED  BY <2>1
<1>18. p + 0 + 0 + d.rf * (3 * d.D) + 0 + d.enc * 0 + 0 = p + d.rf * (3 * d.D)
  <2> DEFINE z == d.rf * (3 * d.D)
  <2>1. z \in Nat /\ d.enc * 0 = 0  BY <1>1
  <2> HIDE DEF z
  <2>2. p + 0 + 0 + z + 0 + d.enc * 0 + 0 = p + z  BY <1>2, <2>1
  <2> QED  BY <2>2 DEF z
<1>19. 0 + d.enc + 2 + d.rf * 5 + 2 + d.enc * 2 + 1 = 3 * d.enc + 5 * d.rf + 5  BY <1>1
<1> QED  BY <1>10, <1>16, <1>17, <1>18, <1>19
    DEF FileQ, FileN, FilePre, FileLayers, H, E, p, a, b, c

\* The first item is the packed weight of enc_pre, long enough for its reader.
Opens(s, x) == s \in Seq(ItemSpace) /\ Len(s) > 0 /\ s[1] = x

\* What follows a list does not change its first item.
LEMMA OpensConcat ==
  ASSUME NEW s, NEW x, Opens(s, x), NEW t \in Seq(ItemSpace)
  PROVE  Opens(s \o t, x)
BY DEF Opens

\* The packed fp32 layer reads no more than was taken for it.
LEMMA FileFirst ==
  ASSUME NEW d, Dimensions(d)
  PROVE  Len(FileItems(d)) > 0 /\ d.C1 * PreK(d) <= FileItems(d)[1].n
<1> DEFINE n == d.C1 * (2 * d.stride) * (BLOB_K0 \div d.stride)
           x == Fp(<<"enc_pre", 0>>, n, 0)
           rs == [b \in 1 .. d.rf |-> RfItems(d, b - 1)]
           ds == [i \in 1 .. d.enc |-> DecItems(d, i - 1)]
<1>1. /\ PrePart(d) \in Seq(ItemSpace) /\ EncPart(d) \in Seq(ItemSpace)
      /\ RfPre(d) \in Seq(ItemSpace) /\ RfPost(d) \in Seq(ItemSpace)
      /\ DecPost(d) \in Seq(ItemSpace)
  BY WalksPre, WalksEnc, WalksRfPre, WalksRfPost, WalksPost, Zenon DEF Walks
<1>2. Ext!FlattenSeq(rs) \in Seq(ItemSpace) /\ Ext!FlattenSeq(ds) \in Seq(ItemSpace)
  <2>1. d.rf \in Nat /\ d.enc \in Nat  BY DEF Dimensions
  <2>2. ASSUME NEW k \in 1 .. d.rf PROVE RfItems(d, k - 1) \in Seq(ItemSpace)
    <3>1. k - 1 \in 0 .. d.rf - 1  BY <2>1
    <3> QED  BY <3>1, WalksRf, Zenon DEF Walks
  <2>3. ASSUME NEW k \in 1 .. d.enc PROVE DecItems(d, k - 1) \in Seq(ItemSpace)
    <3>1. k - 1 \in 0 .. d.enc - 1  BY <2>1
    <3> QED  BY <3>1, WalksDec, Zenon DEF Walks
  <2>4. rs \in [1 .. d.rf -> Seq(ItemSpace)] /\ ds \in [1 .. d.enc -> Seq(ItemSpace)]
    BY <2>2, <2>3
  <2> HIDE DEF rs, ds
  <2> QED  BY <2>1, <2>4, Flattened, Zenon
<1>3. Opens(PrePart(d), x)
  <2>1. PrePart(d)[1] = x /\ Len(PrePart(d)) = 2  BY DEF PrePart
  <2> HIDE DEF x
  <2> QED  BY <1>1, <2>1 DEF Opens
<1>4. FileItems(d) = PrePart(d) \o EncPart(d) \o RfPre(d) \o Ext!FlattenSeq(rs) \o RfPost(d)
                       \o Ext!FlattenSeq(ds) \o DecPost(d)
  BY FileParts
<1>5. x.n = n  BY DEF Fp
<1>6. d.C1 * PreK(d) <= n
  <2>1. d.stride = 4 /\ d.C1 \in Nat  BY DEF Dimensions, BLOB_K0
  <2>2. BLOB_K0 \div d.stride = 2 /\ PreK(d) = 16  BY <2>1 DEF BLOB_K0, PreK
  <2> QED  BY <2>1, <2>2
<1> HIDE DEF x, rs, ds, n
<1>7. Opens(PrePart(d) \o EncPart(d), x)  BY <1>1, <1>3, OpensConcat
<1>8. Opens(PrePart(d) \o EncPart(d) \o RfPre(d), x)  BY <1>1, <1>7, OpensConcat
<1>9. Opens(PrePart(d) \o EncPart(d) \o RfPre(d) \o Ext!FlattenSeq(rs), x)
  BY <1>2, <1>8, OpensConcat
<1>10. Opens(PrePart(d) \o EncPart(d) \o RfPre(d) \o Ext!FlattenSeq(rs) \o RfPost(d), x)
  BY <1>1, <1>9, OpensConcat
<1>11. Opens(PrePart(d) \o EncPart(d) \o RfPre(d) \o Ext!FlattenSeq(rs) \o RfPost(d)
               \o Ext!FlattenSeq(ds), x)
  BY <1>2, <1>10, OpensConcat
<1>12. Opens(FileItems(d), x)  BY <1>1, <1>4, <1>11, OpensConcat
<1> QED  BY <1>5, <1>6, <1>12 DEF Opens

-----------------------------------------------------------------------------
(* The plan: its shapes, and what they need *)

\* A list of shapes <<N, K>>, with what is planned for it.
Shapes == Nat \X Nat
ShapeQ == [x \in Shapes |-> PackedSize(x[2], x[1])]
ShapeN == [x \in Shapes |-> x[1]]
Spans(s, q, m) == s \in Seq(Shapes) /\ Total(ShapeQ, s) = q /\ Total(ShapeN, s) = m
IsShape(x, N, K) == x = <<N, K>> /\ N \in Nat /\ K \in Nat

\* What is planned for a shape is a natural.
LEMMA ShapeMeasures ==
  ShapeQ \in [Shapes -> Nat] /\ ShapeN \in [Shapes -> Nat]
<1>1. ASSUME NEW x \in Shapes PROVE x[1] \in Nat /\ x[2] \in Nat  BY DEF Shapes
<1>2. ASSUME NEW x \in Shapes PROVE PackedSize(x[2], x[1]) \in Nat  BY <1>1, PackedSizeNat
<1>3. ShapeQ \in [Shapes -> Nat]  BY <1>2 DEF ShapeQ
<1>4. ShapeN \in [Shapes -> Nat]  BY <1>1 DEF ShapeN
<1> QED  BY <1>3, <1>4

\* What is planned for one shape.
LEMMA ShapeOf ==
  ASSUME NEW x, NEW N, NEW K, IsShape(x, N, K)
  PROVE  x \in Shapes /\ ShapeQ[x] = PackedSize(K, N) /\ ShapeN[x] = N
<1>1. x \in Shapes /\ x[1] = N /\ x[2] = K  BY DEF IsShape, Shapes
<1> QED  BY <1>1 DEF ShapeQ, ShapeN

\* One list of shapes after another needs the sum.
LEMMA SpansConcat ==
  ASSUME NEW s, NEW t, NEW q, NEW m, NEW q2, NEW m2, Spans(s, q, m), Spans(t, q2, m2)
  PROVE  Spans(s \o t, q + q2, m + m2)
<1>1. s \in Seq(Shapes) /\ t \in Seq(Shapes)  BY DEF Spans
<1>2. s \o t \in Seq(Shapes)  BY <1>1, HeldConcat
<1>3. Total(ShapeQ, s \o t) = Total(ShapeQ, s) + Total(ShapeQ, t)
  BY <1>1, ShapeMeasures, TotalConcat
<1>4. Total(ShapeN, s \o t) = Total(ShapeN, s) + Total(ShapeN, t)
  BY <1>1, ShapeMeasures, TotalConcat
<1> QED  BY <1>2, <1>3, <1>4 DEF Spans

\* A list of one shape.
LEMMA SpansOne ==
  ASSUME NEW x, NEW N, NEW K, IsShape(x, N, K)
  PROVE  Spans(<<x>>, PackedSize(K, N), N)
<1>1. x \in Shapes /\ ShapeQ[x] = PackedSize(K, N) /\ ShapeN[x] = N  BY ShapeOf
<1>2. <<x>> \in Seq(Shapes) /\ Total(ShapeQ, <<x>>) = ShapeQ[x]  BY <1>1, ShapeMeasures, Single
<1>3. Total(ShapeN, <<x>>) = ShapeN[x]  BY <1>1, ShapeMeasures, Single
<1> QED  BY <1>1, <1>2, <1>3 DEF Spans

\* Two shapes one after another.
LEMMA SpansTwo ==
  ASSUME NEW x, NEW Nx, NEW Kx, IsShape(x, Nx, Kx), NEW y, NEW Ny, NEW Ky, IsShape(y, Ny, Ky)
  PROVE  Spans(<<x, y>>, PackedSize(Kx, Nx) + PackedSize(Ky, Ny), Nx + Ny)
<1>1. Spans(<<x>>, PackedSize(Kx, Nx), Nx) /\ Spans(<<y>>, PackedSize(Ky, Ny), Ny)  BY SpansOne
<1>2. x \in Shapes /\ y \in Shapes  BY ShapeOf
<1>3. <<x, y>> = <<x>> \o <<y>>  BY <1>2, PairSplit
<1>4. Spans(<<x>> \o <<y>>, PackedSize(Kx, Nx) + PackedSize(Ky, Ny), Nx + Ny)
  BY <1>1, SpansConcat
<1> QED  BY <1>3, <1>4

\* Five shapes one after another.
LEMMA SpansFive ==
  ASSUME NEW a, NEW Na, NEW Ka, IsShape(a, Na, Ka), NEW b, NEW Nb, NEW Kb, IsShape(b, Nb, Kb),
         NEW c, NEW Nc, NEW Kc, IsShape(c, Nc, Kc), NEW d, NEW Nd, NEW Kd, IsShape(d, Nd, Kd),
         NEW e, NEW Ne, NEW Ke, IsShape(e, Ne, Ke)
  PROVE  Spans(<<a, b, c, d, e>>,
               PackedSize(Ka, Na) + PackedSize(Kb, Nb) + PackedSize(Kc, Nc)
                 + (PackedSize(Kd, Nd) + PackedSize(Ke, Ne)),
               Na + Nb + Nc + (Nd + Ne))
<1>1. /\ Spans(<<a, b>>, PackedSize(Ka, Na) + PackedSize(Kb, Nb), Na + Nb)
      /\ Spans(<<d, e>>, PackedSize(Kd, Nd) + PackedSize(Ke, Ne), Nd + Ne)
  BY SpansTwo
<1>2. Spans(<<c>>, PackedSize(Kc, Nc), Nc)  BY SpansOne
<1>3. Spans(<<a, b>> \o <<c>>, PackedSize(Ka, Na) + PackedSize(Kb, Nb) + PackedSize(Kc, Nc),
            Na + Nb + Nc)
  BY <1>1, <1>2, SpansConcat
<1>4. Spans((<<a, b>> \o <<c>>) \o <<d, e>>,
            PackedSize(Ka, Na) + PackedSize(Kb, Nb) + PackedSize(Kc, Nc)
              + (PackedSize(Kd, Nd) + PackedSize(Ke, Ne)),
            Na + Nb + Nc + (Nd + Ne))
  BY <1>1, <1>3, SpansConcat
<1>5. a \in Shapes /\ b \in Shapes /\ c \in Shapes /\ d \in Shapes /\ e \in Shapes  BY ShapeOf
<1>6. <<a, b, c, d, e>> = (<<a, b>> \o <<c>>) \o <<d, e>>
  <2> DEFINE z == <<a, b>> \o <<c>>
  <2>1. z \in Seq(Shapes) /\ Len(z) = 3 /\ z[1] = a /\ z[2] = b /\ z[3] = c  BY <1>5
  <2>2. <<a, b, c, d, e>> = <<a, b, c>> \o <<d, e>>  BY <1>5
  <2> HIDE DEF z
  <2>3. z = <<a, b, c>>  BY <2>1
  <2> QED  BY <2>2, <2>3 DEF z
<1> QED  BY <1>4, <1>6

\* A list for each block.
LEMMA SpansParts ==
  ASSUME NEW n \in Nat, NEW ss, ss = [i \in 1 .. n |-> ss[i]], NEW q \in Nat, NEW m \in Nat,
         \A i \in 1 .. n : Spans(ss[i], q, m)
  PROVE  Spans(Ext!FlattenSeq(ss), n * q, n * m)
<1>1. ss \in [1 .. n -> Seq(Shapes)]  BY DEF Spans
<1>2. Ext!FlattenSeq(ss) \in Seq(Shapes) /\ PartTotals(Shapes, ss, n)
  BY <1>1, Flattened, Zenon
<1>3. \A i \in 1 .. n : Total(ShapeQ, ss[i]) = q /\ Total(ShapeN, ss[i]) = m  BY DEF Spans
<1>4. /\ Total(ShapeQ, Ext!FlattenSeq(ss)) = n * q /\ Total(ShapeN, Ext!FlattenSeq(ss)) = n * m
  BY <1>2, <1>3, ShapeMeasures, Zenon DEF PartTotals
<1> QED  BY <1>2, <1>4 DEF Spans

\* The shapes planned for the encoder.
EncShapes(d) == [i \in 1 .. d.enc |-> <<d.C1, d.C1 * BLOB_K>>]
RfShapes(d) ==
  <<<<3 * d.C2, d.C2>>, <<3 * d.C2, d.C2>>, <<d.C2, d.C2>>, <<3 * d.C2, d.C2>>, <<d.C2, d.C2>>>>
DecShapes(d) == <<<<d.C1, 2 * d.C1>>, <<d.C1, d.C1 * BLOB_K>>>>

\* What is planned for the encoder.
LEMMA SpansEnc ==
  ASSUME NEW d, Dimensions(d)
  PROVE  Spans(EncShapes(d), d.enc * PackedSize(d.C1 * BLOB_K, d.C1), d.enc * d.C1)
<1> DEFINE n == d.enc
           s == EncShapes(d)
           N == d.C1
           K == d.C1 * BLOB_K
           x == <<N, K>>
<1>1. n \in Nat /\ N \in Nat /\ K \in Nat  BY DEF Dimensions, BLOB_K
<1>2. s = [i \in 1 .. n |-> x]  BY Zenon DEF EncShapes
<1>3. IsShape(x, N, K)
  <2> HIDE DEF N, K
  <2> QED  BY <1>1 DEF IsShape
<1>4. PackedSize(K, N) \in Nat  BY <1>1, PackedSizeNat
<1> HIDE DEF s, N, K, x, n
<1>5. x \in Shapes /\ ShapeQ[x] = PackedSize(K, N) /\ ShapeN[x] = N  BY <1>3, ShapeOf
<1>6. s \in [1 .. n -> Shapes] /\ \A i \in 1 .. n : s[i] = x  BY <1>2, <1>5
<1>7. Uniform(Shapes, n, s, ShapeQ, PackedSize(K, N))
  BY <1>1, <1>4, <1>5, <1>6, ShapeMeasures DEF Uniform
<1>8. Uniform(Shapes, n, s, ShapeN, N)  BY <1>1, <1>5, <1>6, ShapeMeasures DEF Uniform
<1>9. s \in Seq(Shapes) /\ Total(ShapeQ, s) = n * PackedSize(K, N)  BY <1>7, UniformTotal
<1>10. Total(ShapeN, s) = n * N  BY <1>8, UniformTotal
<1>11. Spans(s, n * PackedSize(K, N), n * N)  BY <1>9, <1>10 DEF Spans
<1> QED  BY <1>11 DEF s, N, K, n

\* What is planned for a block: as much as its layers take, the GRU being as wide
\* as the channels.
LEMMA SpansRf ==
  ASSUME NEW d, Dimensions(d)
  PROVE  Spans(RfShapes(d), RfQ(d), RfN(d))
<1> DEFINE C == d.C2
           G == 3 * d.C2
           x == <<G, C>>
           y == <<C, C>>
<1>1. C \in Nat /\ G \in Nat /\ d.D = C /\ 3 * d.D = G  BY DEF Dimensions
<1>2. RfShapes(d) = <<x, x, y, x, y>>  BY DEF RfShapes
<1>3. RfQ(d) = PackedSize(C, G) + PackedSize(C, G) + PackedSize(C, C)
                 + (PackedSize(C, G) + PackedSize(C, C))
  BY <1>1 DEF RfQ
<1>4. RfN(d) = G + G + C + (G + C)  BY <1>1 DEF RfN
<1> HIDE DEF C, G
<1>5. IsShape(x, G, C) /\ IsShape(y, C, C)  BY <1>1 DEF IsShape
<1> HIDE DEF x, y
<1>6. Spans(<<x, x, y, x, y>>,
            PackedSize(C, G) + PackedSize(C, G) + PackedSize(C, C)
              + (PackedSize(C, G) + PackedSize(C, C)), G + G + C + (G + C))
  BY <1>5, SpansFive
<1> QED  BY <1>2, <1>3, <1>4, <1>6

\* What is planned for a level of the decoder.
LEMMA SpansDec ==
  ASSUME NEW d, Dimensions(d)
  PROVE  Spans(DecShapes(d), DecQ(d), d.C1 + d.C1)
<1> DEFINE N == d.C1
           K == 2 * d.C1
           L == d.C1 * BLOB_K
           x == <<N, K>>
           y == <<N, L>>
<1>1. N \in Nat /\ K \in Nat /\ L \in Nat  BY DEF Dimensions, BLOB_K
<1>2. DecShapes(d) = <<x, y>> /\ DecQ(d) = PackedSize(K, N) + PackedSize(L, N) /\ d.C1 = N
  BY DEF DecShapes, DecQ
<1> HIDE DEF N, K, L
<1>3. IsShape(x, N, K) /\ IsShape(y, N, L)  BY <1>1 DEF IsShape
<1> HIDE DEF x, y
<1>4. Spans(<<x, y>>, PackedSize(K, N) + PackedSize(L, N), N + N)  BY <1>3, SpansTwo
<1> QED  BY <1>2, <1>4

\* What is planned is what the file moves the cursors by.
LEMMA PlanSpans ==
  ASSUME NEW d, Dimensions(d)
  PROVE  Spans(PlannedShapes(d), FileQ(d), FileN(d))
<1> DEFINE E == PackedSize(d.C1 * BLOB_K, d.C1)
           rs == [b \in 1 .. d.rf |-> RfShapes(d)]
           ds == [i \in 1 .. d.enc |-> DecShapes(d)]
           u == <<d.F2, d.F1>>
           v == <<d.C2, d.C1>>
           w == <<d.F1, d.F2>>
           x == <<d.C1, d.C2>>
           K == 2 * d.C1
           y == <<d.C1, K>>
           a == PackedSize(d.F1, d.F2) + PackedSize(d.C1, d.C2)
           b == PackedSize(d.F2, d.F1) + PackedSize(d.C2, d.C1)
           c == PackedSize(K, d.C1)
<1>1. /\ d.enc \in Nat /\ d.rf \in Nat /\ d.C1 \in Nat /\ d.C1 + d.C1 \in Nat
      /\ d.C2 \in Nat /\ d.F1 \in Nat /\ d.F2 \in Nat /\ K \in Nat
  BY DEF Dimensions
<1>2. RfQ(d) \in Nat /\ RfN(d) \in Nat /\ DecQ(d) \in Nat  BY PartSizes
<1>3. Spans(EncShapes(d), d.enc * E, d.enc * d.C1)  BY SpansEnc
<1>4. /\ IsShape(u, d.F2, d.F1) /\ IsShape(v, d.C2, d.C1) /\ IsShape(w, d.F1, d.F2)
      /\ IsShape(x, d.C1, d.C2) /\ IsShape(y, d.C1, K)
  <2> HIDE DEF K
  <2> QED  BY <1>1 DEF IsShape
<1>5. Spans(Ext!FlattenSeq(rs), d.rf * RfQ(d), d.rf * RfN(d))
  <2>1. \A k \in 1 .. d.rf : Spans(rs[k], RfQ(d), RfN(d))  BY SpansRf
  <2>2. rs = [k \in 1 .. d.rf |-> rs[k]]  OBVIOUS
  <2> HIDE DEF rs
  <2> QED  BY <1>1, <1>2, <2>1, <2>2, SpansParts
<1>6. Spans(Ext!FlattenSeq(ds), d.enc * DecQ(d), d.enc * (d.C1 + d.C1))
  <2>1. \A k \in 1 .. d.enc : Spans(ds[k], DecQ(d), d.C1 + d.C1)  BY SpansDec
  <2>2. ds = [k \in 1 .. d.enc |-> ds[k]]  OBVIOUS
  <2> HIDE DEF ds
  <2> QED  BY <1>1, <1>2, <2>1, <2>2, SpansParts
<1>7. PlannedShapes(d) = EncShapes(d) \o <<u, v>> \o Ext!FlattenSeq(rs) \o <<w, x>>
                           \o Ext!FlattenSeq(ds) \o <<y>>
  BY Zenon DEF PlannedShapes, PlannedBlocks, EncShapes, RfShapes, DecShapes
<1> HIDE DEF E, rs, ds, u, v, w, x, y, K, a, b, c
<1>8. Spans(<<u, v>>, a, d.F2 + d.C2) /\ Spans(<<w, x>>, b, d.F1 + d.C1)
  BY <1>4, SpansTwo DEF a, b
<1>9. Spans(<<y>>, c, d.C1)  BY <1>4, SpansOne DEF c
<1>10. Spans(EncShapes(d) \o <<u, v>>, d.enc * E + a, d.enc * d.C1 + (d.F2 + d.C2))
  BY <1>3, <1>8, SpansConcat
<1>11. Spans(EncShapes(d) \o <<u, v>> \o Ext!FlattenSeq(rs), d.enc * E + a + d.rf * RfQ(d),
             d.enc * d.C1 + (d.F2 + d.C2) + d.rf * RfN(d))
  BY <1>5, <1>10, SpansConcat
<1>12. Spans(EncShapes(d) \o <<u, v>> \o Ext!FlattenSeq(rs) \o <<w, x>>,
             d.enc * E + a + d.rf * RfQ(d) + b,
             d.enc * d.C1 + (d.F2 + d.C2) + d.rf * RfN(d) + (d.F1 + d.C1))
  BY <1>8, <1>11, SpansConcat
<1>13. Spans(EncShapes(d) \o <<u, v>> \o Ext!FlattenSeq(rs) \o <<w, x>> \o Ext!FlattenSeq(ds),
             d.enc * E + a + d.rf * RfQ(d) + b + d.enc * DecQ(d),
             d.enc * d.C1 + (d.F2 + d.C2) + d.rf * RfN(d) + (d.F1 + d.C1) + d.enc * (d.C1 + d.C1))
  BY <1>6, <1>12, SpansConcat
<1>14. Spans(PlannedShapes(d),
             d.enc * E + a + d.rf * RfQ(d) + b + d.enc * DecQ(d) + c,
             d.enc * d.C1 + (d.F2 + d.C2) + d.rf * RfN(d) + (d.F1 + d.C1) + d.enc * (d.C1 + d.C1)
               + d.C1)
  BY <1>7, <1>9, <1>13, SpansConcat
<1> QED  BY <1>14 DEF FileQ, FileN, E, a, b, c, K

\* The buffers are planned as large as the file fills them.
LEMMA PlanSizes ==
  ASSUME NEW d, Dimensions(d)
  PROVE  /\ Plan(d).q = FileQ(d) /\ Plan(d).s = FileN(d) /\ Plan(d).pre = FilePre(d)
         /\ Plan(d).wino \in Nat /\ Plan(d).ws \in Nat
         /\ Plan(d).wino = (d.enc + d.enc) * 4 * PackedSize(d.C1, d.C1)
         /\ Plan(d).ws = (d.enc + d.enc) * 4 * d.C1
<1> DEFINE p == PlannedShapes(d)
           t == [i \in Nat |-> PackedSize(p[i + 1][2], p[i + 1][1])]
           u == [i \in Nat |-> p[i + 1][1]]
<1>1. Spans(p, FileQ(d), FileN(d))  BY PlanSpans
<1>2. Plan(d).q = SumTo(Len(p), t) /\ Plan(d).s = SumTo(Len(p), u)  BY DEF Plan
<1>3. Plan(d).pre = d.rf * 3 * d.D + SgemmFloats(PreK(d), d.C1)
      /\ Plan(d).wino = 2 * d.enc * 4 * PackedSize(d.C1, d.C1)
      /\ Plan(d).ws = 2 * d.enc * 4 * d.C1
  BY DEF Plan
<1> HIDE DEF p
<1>4. p \in Seq(Shapes) /\ Len(p) \in Nat  BY <1>1 DEF Spans
<1>5. \A i \in 0 .. Len(p) - 1 : p[i + 1] \in Shapes  BY <1>4
<1>6. \A i \in 0 .. Len(p) - 1 : t[i] = [j \in Nat |-> ShapeQ[p[j + 1]]][i]
  BY <1>4, <1>5 DEF ShapeQ
<1>7. \A i \in 0 .. Len(p) - 1 : u[i] = [j \in Nat |-> ShapeN[p[j + 1]]][i]
  BY <1>4, <1>5 DEF ShapeN
<1>8. SumTo(Len(p), t) = Total(ShapeQ, p)  BY <1>4, <1>6, SumToSame DEF Total
<1>9. SumTo(Len(p), u) = Total(ShapeN, p)  BY <1>4, <1>7, SumToSame DEF Total
<1>10. Plan(d).q = FileQ(d) /\ Plan(d).s = FileN(d)  BY <1>1, <1>2, <1>8, <1>9 DEF Spans
<1>11. /\ d.rf \in Nat /\ d.D \in Nat /\ d.enc \in Nat /\ d.C1 \in Nat
       /\ PackedSize(d.C1, d.C1) \in Nat /\ SgemmFloats(PreK(d), d.C1) \in Nat
  <2>1. d.rf \in Nat /\ d.D \in Nat /\ d.enc \in Nat /\ d.C1 \in Nat  BY DEF Dimensions
  <2> QED  BY <2>1, PackedSizeNat, PartSizes
<1>12. Plan(d).pre = FilePre(d)
  <2> DEFINE z == d.rf * (3 * d.D)
  <2>1. d.rf * 3 * d.D = z /\ z \in Nat  BY <1>11
  <2> HIDE DEF z
  <2>2. d.rf * 3 * d.D + SgemmFloats(PreK(d), d.C1) = SgemmFloats(PreK(d), d.C1) + z
    BY <1>11, <2>1
  <2> QED  BY <1>3, <2>2 DEF FilePre, z
<1>13. 2 * d.enc = d.enc + d.enc /\ (d.enc + d.enc) * 4 \in Nat  BY <1>11
<1>14. (d.enc + d.enc) * 4 * PackedSize(d.C1, d.C1) \in Nat /\ (d.enc + d.enc) * 4 * d.C1 \in Nat
  BY <1>11, <1>13
<1> QED  BY <1>3, <1>10, <1>12, <1>13, <1>14
==============================================================================
