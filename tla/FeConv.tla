-------------------------------- MODULE FeConv --------------------------------
(***************************************************************************)
(* The fp32 layers: the strided convolution at the encoder's entrance, run *)
(* as a GEMM on packed weights (fe_conv.c, fe_sgemm.c), and the transposed *)
(* convolution at the decoder's exit.  Numbers are integers.               *)
(***************************************************************************)
EXTENDS KernelCall

SGEMM_NR == 8
SGEMM_MR == 8
ENC_K0 == 8
ConvBias(n) == (2 * n) - 5

\* Integer weights and inputs; the strided kernel is two strides long (fe_conv.c:74).
\* The transposed one has 8 taps, which its interior loop stores as two groups of
\* four (fe_conv.c:147), and enough frames that the two edge loops, which run
\* independently of each other, take none twice: shorter inputs no layer has.
ASSUME ConvAssumption ==
  \A c \in Calls :
    c.family = "conv" =>
      LET weights(which, N, K) == \A n \in 0 .. N - 1, k \in 0 .. K - 1 : Weight(c.data, which, n, k) \in Int
          input(M, K) == \A m \in 0 .. M - 1, k \in 0 .. K - 1 : Code(c.data, 0, m, k) \in Int
      IN  /\ c.op = "strided" =>
               /\ {c.freq, c.ci, c.N, c.stride} \subseteq Nat \ {0} /\ 2 * c.stride = ENC_K0
               /\ weights(0, c.N, ENC_K0 * c.ci) /\ input(c.ci, c.freq)
          /\ c.op = "sgemm" =>
               /\ {c.M, c.N} \subseteq Nat \ {0} /\ c.K \in Nat
               /\ weights(0, c.N, c.K) /\ input(c.M, c.K)
          /\ c.op = "transposed" =>
               /\ {c.freq, c.ci, c.N, c.stride} \subseteq Nat \ {0} /\ c.K = 8 /\ c.stride <= c.K
               /\ LET pad == (c.K - c.stride) \div 2
                      first == (pad + c.stride - 1) \div c.stride
                      last == ((c.freq - 1) * c.stride - pad) \div c.stride
                  IN  first <= last + 1
               /\ weights(1, c.ci, c.N * c.K) /\ input(c.freq, c.ci)

\* fe_pack_W: blocks of 8 columns, k by k; columns past N are zero.
PackB(w, N, K) ==
  [e \in 0 .. ((N + SGEMM_NR - 1) \div SGEMM_NR) * SGEMM_NR * K - 1 |->
     LET n == (e \div (SGEMM_NR * K)) * SGEMM_NR + (e % SGEMM_NR)
     IN  IF n < N THEN w[n][(e % (SGEMM_NR * K)) \div SGEMM_NR] ELSE 0]

(***************************************************************************)
(* Strided convolution: call.ci channels of call.freq values in.           *)
(***************************************************************************)
InRow(ch, f) == Code(call.data, 0, ch, f)
StridedPad == (ENC_K0 - call.stride) \div 2
FNew == (call.freq + 2 * StridedPad) \div call.stride

\* Row ch + ci * phase of the reshaped input; zero outside of the valid range.
Reshaped(i, f) ==
  LET ch == i % call.ci
      phase == i \div call.ci
      first == Least(FNew, (StridedPad - phase + call.stride - 1) \div call.stride)
      last  == Greatest(first - 1,
                 Least(FNew - 1, (call.freq - 1 + StridedPad - phase) \div call.stride))
  IN  IF f \in first .. last THEN InRow(ch, f * call.stride + phase - StridedPad) ELSE 0

\* The weight is packed at load, [Co, Ci, 2] seen as [Co, 2 * Ci].
StridedStart ==
  \E c \in {d \in Calls : d.family = "conv" /\ d.op = "strided"} :
    Starts(c, [B |-> PackB([n \in Nat |-> [k \in Nat |-> Weight(c.data, 0, n, k)]], c.N, 2 * c.ci * c.stride)])

StridedIm2col ==
  /\ call.family = "conv" /\ call.op = "strided" /\ stage = "packed"
  /\ LET Ci == call.ci * call.stride
         M == FNew - (ENC_K0 \div call.stride) + 1
     IN  Continues("loop", 0,
           [B |-> mem.B, M |-> M, K |-> 2 * Ci, beta |-> 0, bias |-> TRUE,
            A |-> [e \in 0 .. M * 2 * Ci - 1 |->
                     Reshaped((e % (2 * Ci)) \div 2, (e \div (2 * Ci)) + (e % 2))],
            C |-> [e \in 0 .. M * call.N - 1 |-> ConvBias(e)]])

\* A GEMM without bias, onto what C holds when beta is 1.
SgemmStart ==
  \E c \in {d \in Calls : d.family = "conv" /\ d.op = "sgemm"} :
    Starts(c, [B |-> PackB([n \in Nat |-> [k \in Nat |-> Weight(c.data, 0, n, k)]], c.N, c.K)])

SgemmEnter ==
  /\ call.family = "conv" /\ call.op = "sgemm" /\ stage = "packed"
  /\ Continues("loop", 0,
       [B |-> mem.B, M |-> call.M, K |-> call.K, beta |-> call.beta, bias |-> FALSE,
        A |-> [e \in 0 .. call.M * call.K - 1 |-> Code(call.data, 0, e \div call.K, e % call.K)],
        C |-> [e \in 0 .. call.M * call.N - 1 |-> ConvBias(e)]])

(***************************************************************************)
(* The GEMM driver: bands of 8 rows, and in a band tiles of 8 columns.     *)
(***************************************************************************)
\* What a tile's accumulators start from: nothing or the bias.
TileSeed(n) == IF mem.bias THEN ConvBias(n) ELSE 0

\* The 8 x 8 kernels: row m of A and column n of its packed block.
TileCell(m, n) ==
  LET acc == SumTo(mem.K, [k \in Nat |->
               mem.A[m * mem.K + k]
               * mem.B[(n \div SGEMM_NR) * mem.K * SGEMM_NR + k * SGEMM_NR + (n % SGEMM_NR)]])
  IN  TileSeed(n) + acc + (IF mem.beta = 0 THEN 0 ELSE mem.C[m * call.N + n])

\* Tiles that are cut short run the reference kernel on C; with a bias, the
\* bias is broadcast there first and accumulated on.
TailCell(m, n) ==
  LET start == IF mem.bias THEN ConvBias(n) ELSE IF mem.beta = 0 THEN 0 ELSE mem.C[m * call.N + n]
  IN  start + SumTo(mem.K, [k \in Nat |->
        mem.A[m * mem.K + k]
        * mem.B[(n \div SGEMM_NR) * mem.K * SGEMM_NR + k * SGEMM_NR + (n % SGEMM_NR)]])

SgemmBand ==
  /\ call.family = "conv" /\ call.op \in {"strided", "sgemm"} /\ stage = "loop"
  /\ LET full == pos + SGEMM_MR <= mem.M
         end == IF full THEN pos + SGEMM_MR ELSE mem.M
         cell(m, n) == IF full /\ n < (call.N \div SGEMM_NR) * SGEMM_NR THEN TileCell(m, n) ELSE TailCell(m, n)
         C == [e \in DOMAIN mem.C |->
                 IF e \div call.N \in pos .. end - 1 THEN cell(e \div call.N, e % call.N) ELSE mem.C[e]]
     IN  Continues(IF end = mem.M THEN "done" ELSE "loop", end, [mem EXCEPT !.C = C])

(***************************************************************************)
(* Transposed convolution: call.freq rows of call.ci channels in.          *)
(***************************************************************************)
TransPad == (call.K - call.stride) \div 2
OutFreq == (call.freq - 1) * call.stride - 2 * TransPad + call.K
Tap(i, o, k) == Weight(call.data, 1, i, o * call.K + k)

TransStart ==
  \E c \in {d \in Calls : d.family = "conv" /\ d.op = "transposed"} : Starts(c, <<>>)

\* The rows of the output follow each other and start at their bias.
TransBias ==
  /\ call.family = "conv" /\ call.op = "transposed" /\ stage = "packed"
  /\ Continues("loop", 0, [C |-> [e \in 0 .. call.N * OutFreq - 1 |-> ConvBias(e \div OutFreq)]])

InnerFirst == (TransPad + call.stride - 1) \div call.stride

\* Mutant: one more input frame is taken to fit.
InnerLast_more == ((OutFreq - call.K + TransPad) \div call.stride) + 1

InnerLast == (OutFreq - call.K + TransPad) \div call.stride

\* Does frame f store to entry e as part of row o?  Of its 8 taps, the interior
\* loop stores all, the edge loops before and after it those within the row. One
\* loop takes each frame (ConvAssumption).
Stamped(o, f, e) ==
  LET p == e - o * OutFreq
  IN  p - (f * call.stride - TransPad) \in 0 .. call.K - 1
      /\ (f \in InnerFirst .. InnerLast \/ p \in 0 .. OutFreq - 1)

TransChannel ==
  /\ call.family = "conv" /\ call.op = "transposed" /\ stage = "loop"
  /\ LET add(e) == SumTo(call.N, [o \in Nat |-> SumTo(call.freq, [f \in Nat |->
                     IF Stamped(o, f, e)
                     THEN Tap(pos, o, e - o * OutFreq - (f * call.stride - TransPad)) * Code(call.data, 0, f, pos)
                     ELSE 0])])
     IN  Continues(IF pos + 1 = call.ci THEN "done" ELSE "loop", pos + 1,
           [C |-> [e \in DOMAIN mem.C |-> mem.C[e] + add(e)]])

ConvNext == StridedStart \/ StridedIm2col \/ SgemmStart \/ SgemmEnter \/ SgemmBand
            \/ TransStart \/ TransBias \/ TransChannel
===============================================================================
