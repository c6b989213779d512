-------------------------------- MODULE FeFft --------------------------------
(***************************************************************************)
(* The 1024-point real FFT and its inverse (fe_fft.c, fft/): a 512-point   *)
(* Stockham transform of radix 4, 4, 4, 4, 2 between two passes over the   *)
(* real signal's packed halves.  Floats are stood for by the field of 8191 *)
(* elements, where Root is a 1024-th root of unity as cos - i sin is, so   *)
(* that sums and products of twiddles are exact; rounding is left out.     *)
(***************************************************************************)
EXTENDS KernelCall, Sequences

FFT_N == 1024
FFT_HALF == 512
FieldP == 8191
HalfOf == 4096              \* 0.5f
Root == <<6470, 4320>>      \* Root^256 = -i

\* Complex numbers are pairs <<re, im>>.
Fld(x) == x % FieldP
CAdd(a, b) == <<Fld(a[1] + b[1]), Fld(a[2] + b[2])>>
CSub(a, b) == <<Fld(a[1] - b[1]), Fld(a[2] - b[2])>>
CMul(a, b) == <<Fld(a[1] * b[1] - a[2] * b[2]), Fld(a[1] * b[2] + a[2] * b[1])>>
CConj(a) == <<a[1], Fld(-a[2])>>
MinusI(a) == <<a[2], Fld(-a[1])>>

Turns ==
  LET lo[k \in 0 .. 31] == IF k = 0 THEN <<1, 0>> ELSE CMul(lo[k - 1], Root)
      step == CMul(lo[31], Root)
      hi[k \in 0 .. 31] == IF k = 0 THEN <<1, 0>> ELSE CMul(hi[k - 1], step)
  IN  [k \in 0 .. FFT_N - 1 |-> CMul(lo[k % 32], hi[k \div 32])]

\* (cos, sin) of -2 pi num / den.
Twiddle(num, den) == Turns[(num * (FFT_N \div den)) % FFT_N]

\* A call's signal is real, amp[j] at the position at[j] for every j; Dft is the
\* definition of its bin k.
ASSUME SignalsAssumption ==
  \A c \in Calls :
    c.family = "fft" =>
      /\ c.tier \in {"neon", "avx2", "avx512"} /\ c.op \in {"forward", "inverse"}
      /\ c.at \in Seq(0 .. FFT_N - 1) /\ c.amp \in Seq(Int) /\ Len(c.amp) = Len(c.at)

Signal(n) ==
  Fld(SumTo(Len(call.at), [j \in Nat |-> IF call.at[j + 1] = n THEN call.amp[j + 1] ELSE 0]))
Dft(k) ==
  LET part(c) == SumTo(Len(call.at), [j \in Nat |->
                   call.amp[j + 1] * Twiddle(call.at[j + 1] * k, FFT_N)[c]])
  IN  <<Fld(part(1)), Fld(part(2))>>

FftStart ==
  \E c \in {d \in Calls : d.family = "fft"} : Starts(c, <<>>)

\* fe_fft_plan_init: a stage's three rows follow those of the stage before it.
R4Off == [s \in 0 .. 3 |-> SumTo(s, [r \in Nat |-> 3 * 4 ^ r])]
R4Stage(i) == CHOOSE s \in 0 .. 3 : R4Off[s] <= i /\ i < R4Off[s] + 3 * 4 ^ s

FftInit ==
  /\ call.family = "fft" /\ stage = "packed"
  /\ LET r4(i) == LET L == 4 ^ R4Stage(i)
                      e == i - R4Off[R4Stage(i)]
                  IN  Twiddle((e \div L + 1) * (e % L), 4 * L)
     IN  Continues("loaded", 0,
           [r4   |-> [i \in 0 .. 254 |-> r4(i)],
            r2   |-> [k \in 0 .. FFT_HALF \div 2 - 1 |-> Twiddle(k, FFT_HALF)],
            real |-> [k \in 0 .. FFT_HALF - 1 |-> Twiddle(k, FFT_N)],
            x    |-> IF call.op = "forward" THEN [n \in 0 .. FFT_N - 1 |-> <<Signal(n), 0>>]
                     ELSE [k \in 0 .. FFT_HALF |-> Dft(k)]])

(***************************************************************************)
(* The shuffles of vector registers, functions from 0 .. lanes - 1.        *)
(***************************************************************************)
Lanes(tier) == CASE tier = "neon" -> 4 [] tier = "avx2" -> 8 [] tier = "avx512" -> 16

\* unpacklo (h = 0) and unpackhi (h = 2), within each 128 bits.
Unpack(a, b, h) ==
  [i \in DOMAIN a |-> (IF (i % 2) = 0 THEN a ELSE b)[4 * (i \div 4) + h + (i % 4) \div 2]]
\* shuffle_ps: elements o and o + step of a, then of b, within each 128 bits.
Shuffle(a, b, o, step) ==
  [i \in DOMAIN a |-> (IF (i % 4) < 2 THEN a ELSE b)[4 * (i \div 4) + o + step * (i % 2)]]
\* permute2f128, shuffle_f32x4, permutex2var: 128-bit blocks of a, then of b.
Blocks(a, b, sel) ==
  [i \in DOMAIN a |->
     LET s == sel[(i \div 4) + 1]
     IN  IF s < Len(sel) THEN a[4 * s + (i % 4)] ELSE b[4 * (s - Len(sel)) + (i % 4)]]

\* permute4x64: 64-bit units in the order sel.
Quarters(a, sel) == [i \in DOMAIN a |-> a[2 * sel[(i \div 2) + 1] + (i % 2)]]

\* The evens (o = 0) or odds (o = 1) of two registers of input.
Deinterleaved(tier, a, b, o) ==
  IF tier = "avx2" THEN Quarters(Shuffle(a, b, o, 2), <<0, 2, 1, 3>>)
  ELSE [i \in DOMAIN a |-> IF 2 * i < Lanes(tier) THEN a[2 * i + o] ELSE b[2 * i + o - Lanes(tier)]]

\* The two registers of output that interleave a and b.
Interleaved(tier, a, b) ==
  IF tier = "avx2"
  THEN <<Blocks(Unpack(a, b, 0), Unpack(a, b, 2), <<0, 2>>), Blocks(Unpack(a, b, 0), Unpack(a, b, 2), <<1, 3>>)>>
  ELSE LET half(h) == [i \in DOMAIN a |-> (IF (i % 2) = 0 THEN a ELSE b)[(i + h) \div 2]]
       IN  <<half(0), half(Lanes(tier))>>

\* Stage 0 stores lane l of registers 1 to 4 as four neighbours.
Transposed(tier, o) ==
  LET r0 == Shuffle(Unpack(o[1], o[2], 0), Unpack(o[3], o[4], 0), 0, 1)
      r1 == Shuffle(Unpack(o[1], o[2], 0), Unpack(o[3], o[4], 0), 2, 1)
      r2 == Shuffle(Unpack(o[1], o[2], 2), Unpack(o[3], o[4], 2), 0, 1)
      r3 == Shuffle(Unpack(o[1], o[2], 2), Unpack(o[3], o[4], 2), 2, 1)
  IN  CASE tier = "neon" -> [r \in 1 .. 4 |-> [i \in 0 .. 3 |-> o[i + 1][r - 1]]]
        [] tier = "avx2" -> <<Blocks(r0, r1, <<0, 2>>), Blocks(r2, r3, <<0, 2>>),
                              Blocks(r0, r1, <<1, 3>>), Blocks(r2, r3, <<1, 3>>)>>
        [] tier = "avx512" ->
             LET lo(a, b) == Blocks(a, b, <<0, 4, 1, 5>>)
                 hi(a, b) == Blocks(a, b, <<2, 6, 3, 7>>)
             IN  <<Blocks(lo(r0, r1), lo(r2, r3), <<0, 1, 4, 5>>), Blocks(lo(r0, r1), lo(r2, r3), <<2, 3, 6, 7>>),
                   Blocks(hi(r0, r1), hi(r2, r3), <<0, 1, 4, 5>>), Blocks(hi(r0, r1), hi(r2, r3), <<2, 3, 6, 7>>)>>

\* The plan and x stay; buffers b come and go.
FftContinues(s, p, b) ==
  Continues(s, p, [r4 |-> mem.r4, r2 |-> mem.r2, real |-> mem.real, x |-> mem.x, buf |-> b])

\* Register of lanes base, base + 1, ... of array f.
Load(f, base) == [i \in 0 .. Lanes(call.tier) - 1 |-> f[base + i]]

\* pack_real: x[2k] + i x[2k + 1].
FftPackReal ==
  /\ call.family = "fft" /\ call.op = "forward" /\ stage = "loaded"
  /\ LET V == Lanes(call.tier)
         part(k, o) == Deinterleaved(call.tier, Load(mem.x, 2 * V * (k \div V)),
                                     Load(mem.x, 2 * V * (k \div V) + V), o)[k % V][1]
     IN  FftContinues("loop", 0, [k \in 0 .. FFT_HALF - 1 |-> <<part(k, 0), part(k, 1)>>])

\* Mutant: the forward twiddles for the inverse.
InverseTwiddle_forward(k) == mem.real[k]

InverseTwiddle(k) == CConj(mem.real[k])

\* real_pre_inverse, without the half, and the conjugation of its result.
FftPreInverse ==
  /\ call.family = "fft" /\ call.op = "inverse" /\ stage = "loaded"
  /\ LET x == mem.x
         sum(k) == CAdd(x[k], CConj(x[FFT_HALF - k]))
         d(k) == CMul(CSub(x[k], CConj(x[FFT_HALF - k])), InverseTwiddle(k))
         z(k) == IF k = 0 THEN <<Fld(x[0][1] + x[FFT_HALF][1]), Fld(x[0][1] - x[FFT_HALF][1])>>
                 ELSE CSub(sum(k), MinusI(d(k)))
     IN  FftContinues("loop", 0, [k \in 0 .. FFT_HALF - 1 |-> CConj(z(k))])

Butterfly(a, b1, b2, b3) ==
  LET t0 == CAdd(a, b2)
      t1 == CSub(a, b2)
      t2 == CAdd(b1, b3)
      t3 == MinusI(CSub(b1, b3))
  IN  <<CAdd(t0, t2), CAdd(t1, t3), CSub(t0, t2), CSub(t1, t3)>>

\* Stage 0 (L = 1) has no twiddles; a register of each output is transposed.
FftStage0 ==
  /\ call.family = "fft" /\ stage = "loop" /\ pos = 0
  /\ LET V == Lanes(call.tier)
         Q == FFT_HALF \div 4
         in == mem.buf
         quad == [j \in 0 .. Q - 1 |-> Butterfly(in[j], in[j + Q], in[j + 2 * Q], in[j + 3 * Q])]
         regs(j) == [q \in 1 .. 4 |-> [i \in 0 .. V - 1 |-> quad[j + i][q]]]
         rows == [g \in 0 .. Q \div V - 1 |-> Transposed(call.tier, regs(g * V))]
     IN  FftContinues("loop", 1,
           [e \in 0 .. FFT_HALF - 1 |-> rows[e \div (4 * V)][(e % (4 * V)) \div V + 1][e % V]])

\* Stages 1 to 3 (L = 4, 16, 64), between the two buffers in turn; a stage
\* narrower than the tier's registers runs in 128 bits.
FftRadix4 ==
  /\ call.family = "fft" /\ stage = "loop" /\ pos \in 1 .. 3
  /\ LET L == 4 ^ pos
         Q == FFT_HALF \div 4
         w(q, k) == mem.r4[R4Off[pos] + (q - 1) * L + k]
         in == mem.buf
         quad == [g \in 0 .. Q - 1 |->
                    Butterfly(in[g], CMul(in[g + Q], w(1, g % L)), CMul(in[g + 2 * Q], w(2, g % L)),
                              CMul(in[g + 3 * Q], w(3, g % L)))]
     IN  FftContinues("loop", pos + 1,
           [e \in 0 .. FFT_HALF - 1 |->
              quad[(e \div (4 * L)) * L + (e % L)][(e % (4 * L)) \div L + 1]])

FftRadix2 ==
  /\ call.family = "fft" /\ stage = "loop" /\ pos = 4
  /\ LET L == 256
         bw(k) == CMul(mem.buf[k + L], mem.r2[k])
     IN  FftContinues("loop", 5,
           [e \in 0 .. FFT_HALF - 1 |-> IF e < L THEN CAdd(mem.buf[e], bw(e)) ELSE CSub(mem.buf[e - L], bw(e - L))])

\* real_post_forward: 513 bins, the first and the last real.
FftPostForward ==
  /\ call.family = "fft" /\ call.op = "forward" /\ stage = "loop" /\ pos = 5
  /\ LET z == mem.buf
         half(c) == CMul(c, <<HalfOf, 0>>)
         sum(k) == half(CAdd(z[k], CConj(z[FFT_HALF - k])))
         d(k) == CMul(half(CSub(z[k], CConj(z[FFT_HALF - k]))), mem.real[k])
     IN  FftContinues("done", pos,
           [k \in 0 .. FFT_HALF |->
              CASE k = 0 -> <<Fld(z[0][1] + z[0][2]), 0>>
                [] k = FFT_HALF -> <<Fld(z[0][1] - z[0][2]), 0>>
                [] OTHER -> CAdd(sum(k), MinusI(d(k)))])

\* The result of the inverse, real and imaginary parts interleaved.
FftUnpack ==
  /\ call.family = "fft" /\ call.op = "inverse" /\ stage = "loop" /\ pos = 5
  /\ LET V == Lanes(call.tier)
         re == [k \in 0 .. FFT_HALF - 1 |-> mem.buf[k][1]]
         im == [k \in 0 .. FFT_HALF - 1 |-> CConj(mem.buf[k])[2]]
         rows == [g \in 0 .. FFT_HALF \div V - 1 |->
                    Interleaved(call.tier, Load(re, g * V), Load(im, g * V))]
     IN  FftContinues("done", pos,
           [n \in 0 .. FFT_N - 1 |-> rows[n \div (2 * V)][(n % (2 * V)) \div V + 1][n % V]])

FftNext == FftStart \/ FftInit \/ FftPackReal \/ FftPreInverse \/ FftStage0 \/ FftRadix4
           \/ FftRadix2 \/ FftPostForward \/ FftUnpack
===============================================================================
