--------------------------- MODULE StreamStftProofs ---------------------------
(***************************************************************************)
(* Proofs about StreamStft for every transform length N and hop H <= N:    *)
(* the alignment delay is N - H samples, the overlap-add is normalised     *)
(* exactly though H need not divide N, and fold[] is long enough.          *)
(***************************************************************************)
EXTENDS StreamStft, TLAPS

\* K = (N + H - 1) / H is the number of hops that cover a frame.
LEMMA HopsCoverFrame == K \in Nat /\ K >= 1 /\ (K - 1) * H < N /\ N <= K * H
<1>1. N \in Nat /\ N >= 1 /\ H \in Nat /\ H >= 1 /\ H <= N
  BY GeometryAssumption
<1>2. N + H - 1 \in Nat /\ N + H - 1 >= H
  BY <1>1
<1>3. \A a, b \in Nat : b >= 1 => a \div b \in Nat /\ b * (a \div b) <= a /\ a < b * (a \div b) + b
  OBVIOUS
<1>4. /\ K \in Nat /\ H * K <= N + H - 1 /\ N + H - 1 < H * K + H
  BY <1>1, <1>2, <1>3 DEF K
<1>5. H * K = K * H /\ (K - 1) * H = K * H - H /\ K * H \in Nat
  BY <1>1, <1>4
<1>6. K * H >= N /\ (K - 1) * H < N
  BY <1>1, <1>4, <1>5
<1>7. K # 0
  BY <1>1, <1>6
<1> QED  BY <1>4, <1>6, <1>7

\* fe_stft_init never writes past fold[4 * FE_N_FFT], whatever the hop.
THEOREM FoldFits == FoldTop <= FoldLen
<1>1. N \in Nat /\ H \in Nat  BY GeometryAssumption
<1>2. K \in Nat /\ (K - 1) * H < N  BY HopsCoverFrame
<1>3. (2 * K - 2) * H = 2 * ((K - 1) * H)  BY <1>1, <1>2
<1>4. (K - 1) * H \in Int  BY <1>1, <1>2
<1> QED  BY <1>1, <1>2, <1>3, <1>4 DEF FoldTop, FoldLen

\* What fold[] collects for a window position is every position a whole number
\* of hops away from it.
LEMMA NormaliserIsSpaced ==
  ASSUME NEW i \in 1 .. H, NEW n \in Spaced(i, 0)
  PROVE  Normaliser(n) = Spaced(i, 0)
<1>1. N \in Nat /\ N >= 1 /\ H \in Nat /\ H >= 1 /\ i \in Nat /\ i >= 1 /\ i <= H
  BY GeometryAssumption
<1>2. K \in Nat /\ K >= 1 /\ (K - 1) * H < N /\ N <= K * H
  BY HopsCoverFrame
<1>3. PICK k \in 0 .. N : n = i + k * H
  BY DEF Spaced
<1>4. n \in 1 .. N
  BY DEF Spaced
<1>5. k <= K - 1
  <2>1. SUFFICES ASSUME k >= K  PROVE FALSE
    BY <1>2
  <2>2. k * H >= K * H
    BY <2>1, <1>1, <1>2
  <2> QED  BY <1>1, <1>2, <1>3, <1>4, <2>2
<1>6. ASSUME NEW m \in Normaliser(n)  PROVE m \in Spaced(i, 0)
  <2>1. PICK f \in 0 .. 2 * K - 2 : f * H + m = (K - 1) * H + n
    BY DEF Normaliser
  <2>2. m \in 1 .. N
    BY DEF Normaliser
  <2> DEFINE l == k + K - 1 - f
  <2>3. l \in Int
    BY <1>2
  <2>4. m = i + l * H
    <3>1. m = (K - 1) * H + (i + k * H) - f * H
      BY <1>1, <1>2, <1>3, <2>1, <2>2
    <3>2. l * H = k * H + (K - 1) * H - f * H
      BY <1>1, <1>2
    <3> QED  BY <1>1, <1>2, <3>1, <3>2
  <2> HIDE DEF l
  <2>5. l >= 0
    <3>1. SUFFICES ASSUME l <= -1  PROVE FALSE
      BY <2>3
    <3>2. l * H <= -H
      BY <3>1, <2>3, <1>1
    <3> QED  BY <3>2, <2>2, <2>3, <2>4, <1>1
  <2>6. l <= N
    <3>1. l * H >= l
      BY <2>3, <2>5, <1>1
    <3> QED  BY <3>1, <2>2, <2>3, <2>4, <1>1
  <2> QED  BY <2>2, <2>3, <2>4, <2>5, <2>6, <1>1 DEF Spaced
<1>7. ASSUME NEW m \in Spaced(i, 0)  PROVE m \in Normaliser(n)
  <2>1. PICK l \in 0 .. N : m = i + l * H
    BY DEF Spaced
  <2>2. m \in 1 .. N
    BY DEF Spaced
  <2>3. l <= K - 1
    <3>1. SUFFICES ASSUME l >= K  PROVE FALSE
      BY <1>2
    <3>2. l * H >= K * H
      BY <3>1, <1>1, <1>2
    <3> QED  BY <1>1, <1>2, <2>1, <2>2, <3>2
  <2> DEFINE f == k + K - 1 - l
  <2>4. f \in 0 .. 2 * K - 2
    BY <1>2, <1>5, <2>3
  <2>5. f * H + m = (K - 1) * H + n
    <3>1. f * H = k * H + (K - 1) * H - l * H
      BY <1>1, <1>2
    <3> QED  BY <1>1, <1>2, <1>3, <2>1, <3>1
  <2> HIDE DEF f
  <2> QED  BY <2>2, <2>4, <2>5 DEF Normaliser
<1> QED  BY <1>6, <1>7

\* One more hop: the positions spaced from j + H on are those from j on, but
\* for j + H itself at the head.
LEMMA SpacedShift ==
  ASSUME NEW j \in Nat, NEW k \in Nat, j >= 1
  PROVE  /\ j + H <= N => Spaced(j, 1) = {j + H} \cup Spaced(j + H, 1)
         /\ j <= N => Spaced(j, 0) = {j} \cup Spaced(j, 1)
         /\ j + H > N => Spaced(j, 1) = {}
<1>1. N \in Nat /\ N >= 1 /\ H \in Nat /\ H >= 1 /\ H <= N
  BY GeometryAssumption
<1>2. ASSUME j + H <= N  PROVE Spaced(j, 1) = {j + H} \cup Spaced(j + H, 1)
  <2>1. ASSUME NEW m \in Spaced(j, 1), m # j + H  PROVE m \in Spaced(j + H, 1)
    <3>1. PICK l \in 1 .. N : m = j + l * H
      BY DEF Spaced
    <3>2. l # 1
      BY <2>1, <3>1, <1>1
    <3>3. m = j + H + (l - 1) * H /\ l - 1 \in 1 .. N
      BY <3>1, <3>2, <1>1
    <3>4. m \in 1 .. N
      BY DEF Spaced
    <3> QED  BY <3>3, <3>4 DEF Spaced
  <2>2. j + H \in Spaced(j, 1)
    <3>1. j + H = j + 1 * H /\ 1 \in 1 .. N /\ j + H \in 1 .. N
      BY <1>1, <1>2
    <3> QED  BY <3>1 DEF Spaced
  <2>3. ASSUME NEW m \in Spaced(j + H, 1)  PROVE m \in Spaced(j, 1)
    <3>1. PICK l \in 1 .. N : m = j + H + l * H
      BY DEF Spaced
    <3>2. m \in 1 .. N
      BY DEF Spaced
    <3>3. m = j + (l + 1) * H /\ l + 1 \in Nat
      BY <3>1, <1>1
    <3>4. (l + 1) * H >= l + 1
      BY <1>1
    <3>5. l + 1 \in 1 .. N
      BY <3>2, <3>3, <3>4, <1>1
    <3> QED  BY <3>2, <3>3, <3>5 DEF Spaced
  <2> QED  BY <2>1, <2>2, <2>3
<1>3. ASSUME j <= N  PROVE Spaced(j, 0) = {j} \cup Spaced(j, 1)
  <2>1. ASSUME NEW m \in Spaced(j, 0), m # j  PROVE m \in Spaced(j, 1)
    <3>1. PICK l \in 0 .. N : m = j + l * H
      BY DEF Spaced
    <3>2. l # 0
      BY <2>1, <3>1, <1>1
    <3>3. m \in 1 .. N /\ l \in 1 .. N
      BY <3>1, <3>2, <1>1 DEF Spaced
    <3> QED  BY <3>1, <3>3 DEF Spaced
  <2>2. j \in Spaced(j, 0)
    <3>1. j = j + 0 * H /\ 0 \in 0 .. N /\ j \in 1 .. N
      BY <1>1, <1>3
    <3> QED  BY <3>1 DEF Spaced
  <2>3. Spaced(j, 1) \subseteq Spaced(j, 0)
    BY <1>1 DEF Spaced
  <2> QED  BY <2>1, <2>2, <2>3
<1>4. ASSUME j + H > N  PROVE Spaced(j, 1) = {}
  <2>1. ASSUME NEW m \in Spaced(j, 1)  PROVE FALSE
    <3>1. PICK l \in 1 .. N : m = j + l * H
      BY DEF Spaced
    <3>2. l * H >= H
      BY <1>1
    <3> QED  BY <1>1, <1>4, <3>1, <3>2 DEF Spaced
  <2> QED  BY <2>1
<1> QED  BY <1>2, <1>3, <1>4

-----------------------------------------------------------------------------

\* One frame keeps the closed form of both caches and of what was emitted.
LEMMA ProcessFrameKeepsInvariant == IInv /\ ProcessFrame => IInv'
<1> SUFFICES ASSUME IInv, ProcessFrame  PROVE IInv'
  OBVIOUS
<1>1. /\ N \in Nat /\ N >= 1 /\ H \in Nat /\ H >= 1 /\ H <= N
      /\ CL = N - H /\ CL \in Nat
  BY GeometryAssumption DEF CL
<1>2. /\ fed \in Nat /\ base \in 0 .. fed /\ base \in Nat
      /\ fed' = fed + 1 /\ base' = base
      /\ fed * H \in Nat /\ base * H \in Nat
      /\ (fed + 1) * H = fed * H + H /\ base * H <= fed * H
  BY <1>1 DEF IInv, ProcessFrame
<1>3. \A p : InStream(p)' = InStream(p)
  BY <1>2 DEF InStream
<1>4. \A n \in 1 .. N : AnalysisFrame[n] = InStream(fed * H + n - CL)
  <2> TAKE n \in 1 .. N
  <2>1. CASE n <= CL
    <3>1. n \in 1 .. CL  BY <2>1, <1>1
    <3> QED  BY <2>1, <3>1 DEF AnalysisFrame, IInv
  <2>2. CASE n > CL
    <3>1. AnalysisFrame[n] = fed * H + (n - CL)
      BY <2>2, <1>1 DEF AnalysisFrame
    <3>2. fed * H + n - CL > base * H /\ fed * H + (n - CL) = fed * H + n - CL
      BY <2>2, <1>1, <1>2
    <3> QED  BY <3>1, <3>2 DEF InStream
  <2> QED  BY <2>1, <2>2, <1>1
<1>5. \A n \in 1 .. N : OverlapAdd[n] = TermsOf(InStream(fed * H + n - CL), Spaced(n, 0))
  <2> TAKE n \in 1 .. N
  <2> DEFINE src == InStream(fed * H + n - CL)
  <2>1. Spaced(n, 0) = {n} \cup Spaced(n, 1)
    BY SpacedShift, <1>1
  <2>2. OverlapAdd[n] = Term(src, n) \cup (IF n <= CL THEN cacheIstft[n] ELSE {})
    BY <1>4 DEF OverlapAdd
  <2>3. (IF n <= CL THEN cacheIstft[n] ELSE {}) = TermsOf(src, Spaced(n, 1))
    <3>1. CASE n <= CL
      <4>1. n \in 1 .. CL  BY <3>1, <1>1
      <4> QED  BY <3>1, <4>1 DEF IInv
    <3>2. CASE n > CL
      <4>1. Spaced(n, 1) = {}
        BY <3>2, <1>1, SpacedShift
      <4> QED  BY <3>2, <4>1, <1>1 DEF TermsOf
    <3> QED  BY <3>1, <3>2, <1>1
  <2>4. Term(src, n) \cup TermsOf(src, Spaced(n, 1)) = TermsOf(src, {n} \cup Spaced(n, 1))
    <3> HIDE DEF src
    <3> QED  BY DEF Term, TermsOf
  <2> QED  BY <2>1, <2>2, <2>3, <2>4
<1>6. (cacheStft = [n \in 1 .. CL |-> InStream(fed * H + n - CL)])'
  <2>1. \A n \in 1 .. CL : AnalysisFrame[n + H] = InStream(fed' * H + n - CL)
    <3> TAKE n \in 1 .. CL
    <3>1. n + H \in 1 .. N /\ fed * H + (n + H) - CL = fed' * H + n - CL
      BY <1>1, <1>2
    <3> QED  BY <3>1, <1>4
  <2> QED  BY <2>1, <1>3 DEF ProcessFrame, CL
<1>7. (cacheIstft = [n \in 1 .. CL |-> TermsOf(InStream(fed * H + n - CL), Spaced(n, 1))])'
  <2>1. \A n \in 1 .. CL :
          OverlapAdd[n + H] = TermsOf(InStream(fed' * H + n - CL), Spaced(n, 1))
    <3> TAKE n \in 1 .. CL
    <3>1. n + H \in 1 .. N /\ fed * H + (n + H) - CL = fed' * H + n - CL
      BY <1>1, <1>2
    <3>2. n \in Nat /\ n >= 1 /\ n + H \in Nat /\ n + H >= 1 /\ n + H <= N
      BY <3>1, <1>1
    <3>3. Spaced(n, 1) = {n + H} \cup Spaced(n + H, 1)
      BY <3>2, SpacedShift
    <3>4. Spaced(n + H, 0) = {n + H} \cup Spaced(n + H, 1)
      BY <3>2, SpacedShift
    <3> QED  BY <3>1, <3>3, <3>4, <1>5
  <2> QED  BY <2>1, <1>3 DEF ProcessFrame, CL, TermsOf, Spaced
<1>8. (emitted = [i \in 1 .. H |-> TermsOf(InStream(Source(i)), Spaced(i, 0))])'
  <2>1. \A i \in 1 .. H : OverlapAdd[i] = TermsOf(InStream((fed' - 1) * H + i - CL), Spaced(i, 0))
    <3> TAKE i \in 1 .. H
    <3>1. i \in 1 .. N /\ (fed' - 1) * H = fed * H
      BY <1>1, <1>2
    <3> QED  BY <3>1, <1>5
  <2> QED  BY <2>1, <1>3 DEF ProcessFrame, CL, TermsOf, Spaced, Source
<1>9. fed' \in Nat /\ base' \in 0 .. fed'
  BY <1>2
<1> QED  BY <1>6, <1>7, <1>8, <1>9 DEF IInv

\* What two empty caches and the next frame stand for lies before a stream that
\* begins after f frames.
LEMMA BeforeStream ==
  ASSUME NEW f \in Nat
  PROVE  /\ \A n \in 1 .. CL : ~ (f * H + n - CL > f * H)
         /\ \A i \in 1 .. H : ~ ((f - 1) * H + i - CL > f * H)
<1>1. /\ N \in Nat /\ N >= 1 /\ H \in Nat /\ H >= 1 /\ H <= N
      /\ CL = N - H /\ CL \in Nat
  BY GeometryAssumption DEF CL
<1>2. f * H \in Nat /\ (f - 1) * H = f * H - H
  BY <1>1
<1> QED  BY <1>1, <1>2

\* No term is left of a sample that lies before the stream.
LEMMA NoTermsOfZero == \A ats : TermsOf(Zero, ats) = {}
  BY DEF TermsOf

\* The window positions and the one input sample of a set of terms.
LEMMA TermsOfSample ==
  ASSUME NEW src, NEW ats, src # Zero
  PROVE  /\ {d.at : d \in TermsOf(src, ats)} = ats
         /\ ats # {} => {d.src : d \in TermsOf(src, ats)} = {src}
<1> DEFINE T == {[src |-> src, at |-> m] : m \in ats}
<1>1. TermsOf(src, ats) = T
  BY DEF TermsOf
<1>2. \A d \in T : d.at \in ats /\ d.src = src
  OBVIOUS
<1>3. \A m \in ats : \E d \in T : d.at = m /\ d.src = src
  <2> TAKE m \in ats
  <2> WITNESS [src |-> src, at |-> m] \in T
  <2> QED  OBVIOUS
<1> HIDE DEF T
<1>4. {d.at : d \in T} = ats
  BY <1>2, <1>3
<1>5. ats # {} => {d.src : d \in T} = {src}
  BY <1>2, <1>3
<1> QED  BY <1>1, <1>4, <1>5

\* The caches of fe_stft.c in closed form, in every reachable state.
THEOREM StftInvariant == Spec => []IInv
<1>1. Init => IInv
  <2> SUFFICES ASSUME Init  PROVE IInv
    OBVIOUS
  <2>1. fed = 0 /\ base = fed /\ fed \in Nat
    BY DEF Init
  <2>2. /\ \A n \in 1 .. CL : InStream(fed * H + n - CL) = Zero
        /\ \A i \in 1 .. H : InStream(Source(i)) = Zero
    BY <2>1, BeforeStream DEF InStream, Source
  <2> QED  BY <2>1, <2>2, NoTermsOfZero DEF Init, IInv, NoFrame
<1>2. IInv /\ [Next]_vars => IInv'
  <2> SUFFICES ASSUME IInv, [Next]_vars  PROVE IInv'
    OBVIOUS
  <2>1. CASE ProcessFrame
    BY <2>1, ProcessFrameKeepsInvariant
  <2>2. CASE Reset
    <3>1. fed' = fed /\ base' = fed /\ fed \in Nat
      BY <2>2 DEF Reset, IInv
    <3>2. /\ \A n \in 1 .. CL : InStream(fed * H + n - CL)' = Zero
          /\ \A i \in 1 .. H : InStream(Source(i))' = Zero
      BY <3>1, BeforeStream DEF InStream, Source, CL
    <3>3. (cacheStft = [n \in 1 .. CL |-> InStream(fed * H + n - CL)])'
      BY <2>2, <3>2 DEF Reset, CL
    <3>4. (cacheIstft = [n \in 1 .. CL |-> TermsOf(InStream(fed * H + n - CL), Spaced(n, 1))])'
      BY <2>2, <3>2 DEF Reset, CL, TermsOf
    <3>5. (emitted = [i \in 1 .. H |-> TermsOf(InStream(Source(i)), Spaced(i, 0))])'
      BY <2>2, <3>2 DEF Reset, NoFrame, TermsOf
    <3>6. fed' \in Nat /\ base' \in 0 .. fed'
      BY <3>1
    <3> QED  BY <3>3, <3>4, <3>5, <3>6 DEF IInv
  <2>3. CASE UNCHANGED vars
    BY <2>3 DEF vars, IInv, InStream, Source, TermsOf, Spaced, CL
  <2> QED  BY <2>1, <2>2, <2>3 DEF Next
<1> QED  BY <1>1, <1>2, PTL DEF Spec

\* The alignment delay of fe.h is N - H samples, for every N and every H <= N,
\* and no sample crosses a reset.
THEOREM StftAligned == Spec => []Aligned
<1>1. IInv => Aligned
  <2> SUFFICES ASSUME IInv, NEW i \in 1 .. H
               PROVE {c.src : c \in emitted[i]} = IF Source(i) > base * H THEN {Source(i)} ELSE {}
    BY DEF Aligned
  <2>1. emitted[i] = TermsOf(InStream(Source(i)), Spaced(i, 0))
    BY DEF IInv
  <2>2. i \in Spaced(i, 0)
    <3>1. i \in Nat /\ i >= 1 /\ i <= N
      BY GeometryAssumption
    <3> QED  BY <3>1, SpacedShift
  <2>3. CASE Source(i) > base * H
    <3>1. Source(i) # Zero
      <4>1. H \in Nat /\ base \in Nat
        BY GeometryAssumption DEF IInv
      <4>2. base * H \in Nat /\ Source(i) \in Int
        BY <4>1, GeometryAssumption DEF Source, CL, IInv
      <4> QED  BY <2>3, <4>2 DEF Zero
    <3>2. emitted[i] = TermsOf(Source(i), Spaced(i, 0))
      BY <2>1, <2>3 DEF InStream
    <3> QED  BY <2>2, <2>3, <3>1, <3>2, TermsOfSample
  <2>4. CASE ~ (Source(i) > base * H)
    BY <2>1, <2>4 DEF InStream, TermsOf
  <2> QED  BY <2>3, <2>4
<1> QED  BY <1>1, StftInvariant, PTL

\* window_istft divides by exactly the squared weights that the overlap-add sums.
THEOREM StftReconstructs == Spec => []Reconstructs
<1>1. IInv => Reconstructs
  <2> SUFFICES ASSUME IInv, NEW i \in 1 .. H, NEW c \in emitted[i]
               PROVE {d.at : d \in emitted[i]} = Normaliser(c.at)
    BY DEF Reconstructs
  <2> DEFINE src == InStream(Source(i))
  <2>1. emitted[i] = TermsOf(src, Spaced(i, 0))
    BY DEF IInv
  <2> HIDE DEF src
  <2>2. src # Zero
    BY <2>1 DEF TermsOf
  <2>3. {d.at : d \in emitted[i]} = Spaced(i, 0)
    BY <2>1, <2>2, TermsOfSample
  <2>4. c.at \in Spaced(i, 0)
    BY <2>3
  <2> QED  BY <2>3, <2>4, NormaliserIsSpaced
<1> QED  BY <1>1, StftInvariant, PTL

\* The caches and the output frame hold samples of the input and terms of them only.
THEOREM StftTypeOK == Spec => []TypeOK
<1>1. ASSUME IInv  PROVE TypeOK
  <2>1. /\ fed \in Nat /\ base \in Nat /\ N \in Nat /\ H \in Nat /\ H >= 1 /\ H <= N
        /\ CL \in Nat /\ CL = N - H
    BY <1>1, GeometryAssumption DEF IInv, CL
  <2>2. base * H \in Nat /\ fed * H \in Nat /\ (fed - 1) * H \in Int  BY <2>1
  <2>3. \A p \in Int : InStream(p) \in Nat  BY <2>2 DEF InStream, Zero
  <2>4. ASSUME NEW p \in Int, NEW ats \in SUBSET (1 .. N)
        PROVE  TermsOf(InStream(p), ats) \in SUBSET Terms
    <3> DEFINE src == InStream(p)
    <3>1. src \in Nat  BY <2>3
    <3> HIDE DEF src
    <3>2. ASSUME NEW m \in IF src = Zero THEN {} ELSE ats  PROVE [src |-> src, at |-> m] \in Terms
      BY <3>1, <3>2 DEF Terms
    <3>3. TermsOf(src, ats) \in SUBSET Terms  BY <3>2, Zenon DEF TermsOf
    <3> QED  BY <3>3 DEF src
  <2>5. \A j, k : Spaced(j, k) \in SUBSET (1 .. N)  BY DEF Spaced
  <2>6. \A n \in 1 .. CL : fed * H + n - CL \in Int  BY <2>1, <2>2
  <2>7. \A i \in 1 .. H : Source(i) \in Int  BY <2>1, <2>2 DEF Source
  <2>8. cacheStft \in [1 .. CL -> Nat]
    BY <1>1, <2>3, <2>6 DEF IInv
  <2>9. \A n \in 1 .. CL :
          TermsOf(InStream(fed * H + n - CL), Spaced(n, 1)) \in SUBSET Terms
    BY <2>4, <2>5, <2>6
  <2>10. cacheIstft \in [1 .. CL -> SUBSET Terms]
    BY <1>1, <2>9 DEF IInv
  <2>11. \A i \in 1 .. H : TermsOf(InStream(Source(i)), Spaced(i, 0)) \in SUBSET Terms
    BY <2>4, <2>5, <2>7
  <2>12. emitted \in [1 .. H -> SUBSET Terms]
    BY <1>1, <2>11 DEF IInv
  <2> QED  BY <2>1, <2>8, <2>10, <2>12 DEF TypeOK
<1> QED  BY <1>1, StftInvariant, PTL
=============================================================================
