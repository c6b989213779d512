------------------------------- MODULE Kernels -------------------------------
(***************************************************************************)
(* The kernels of the network, one call at a time, on every tier; what a   *)
(* call leaves behind is compared with the layer's definition.             *)
(***************************************************************************)
EXTENDS QgemmX86, ActQuant, Winograd, FeFft, FeConv, WeightBlob, FeAttention
Arm == INSTANCE QgemmArm

KNext ==
  \/ LoadLayer \/ SumAndRepack \/ PrepareGemm \/ PrepareGru
  \/ Arm!ArmNext \/ X86Next
  \/ QuantNext \/ WinoNext \/ FftNext \/ ConvNext \/ BlobNext \/ AttnNext \/ Return

KSpec == KInit /\ [][KNext]_kvars

(***************************************************************************)
(* Types.  Packed weights are int8 and never -128, activations may be; a   *)
(* VNNI tier's A and H are unsigned once its kernel runs.                  *)
(***************************************************************************)
KernelsTypeOK ==
  /\ call \in Calls \cup {NoCall} /\ stage \in Stages /\ pos \in Nat
  /\ (stage = "idle") <=> (call = NoCall)
  /\ call.family \in {"gemm", "gru"} =>
       /\ \A i \in DOMAIN mem.W : mem.W[i] \in -127 .. 127
       /\ stage \in {"loop", "done"} =>
            \A i \in DOMAIN mem.A : mem.A[i] \in IF call.tier \in {"avxvnni", "avx512"}
                                                 THEN 0 .. 255 ELSE -128 .. 127

(***************************************************************************)
(* Whatever layout, lane width, tile or zero-point trick its tier uses, a  *)
(* finished GEMM (qgemm_*.c) has in every cell the layer's product: codes  *)
(* corrected by 128 - zp times the quantised weights, through the epilogue *)
(* of the operation; a tracking kernel reports the largest magnitude.      *)
(***************************************************************************)
Quantised(which) ==
  LET w == Trained(call, which)
      top == [n \in 0 .. call.N - 1 |-> MaxTo(call.K, [k \in Nat |-> AbsOf(w[n][k])])]
  IN  [n \in 0 .. call.N - 1 |-> [k \in 0 .. call.K - 1 |-> WeightCode(w[n][k], top[n])]]

DotOf(which, zp, m, wq) ==
  SumTo(call.K, [k \in Nat |-> (Code(call.data, which, m, k) + 128 - zp) * wq[k]])

GemmCell(m, n, wq) ==
  LET v == (IF call.bias THEN Bias(n) ELSE 0) + Scale(n) * DotOf(0, call.zp, m, wq)
  IN  CASE call.op \in {"int32", "k20"} -> DotOf(0, 128, m, wq)
        [] call.op = "fused" -> IF call.silu THEN Silu(v) ELSE v
        [] call.op = "acc"   -> Start(m, n) + v
        [] call.op = "track" -> v

ProductExact ==
  stage = "done" /\ call.family = "gemm" =>
    LET wq == Quantised(0) IN
    /\ \A n \in 0 .. call.N - 1 : LET q == wq[n] IN \A m \in 0 .. call.M - 1 : mem.C[m][n] = GemmCell(m, n, q)
    /\ call.op = "track" =>
         mem.peak = MaxTo(call.M, [m \in Nat |-> MaxTo(call.N, [n \in Nat |-> AbsOf(mem.C[m][n])])])

(***************************************************************************)
(* fe_qgemm_tail_unsupported() is for shapes no layer has: with M and N    *)
(* multiples of 8 (arch_kernels.h:31) every kernel finishes, but the float *)
(* kernels of AVX-VNNI, whose 12-row tiles run past the last multiple of   *)
(* 24 and abort when 4 rows are left of them.                              *)
(***************************************************************************)
MultiplesOfEightRun ==
  stage = "aborted" /\ call.family = "gemm" =>
    \/ (call.M % 8) # 0 \/ (call.N % 8) # 0
    \/ call.tier = "avxvnni" /\ call.op \in {"fused", "acc", "track"} /\ (call.M % 24) = 16

(***************************************************************************)
(* A fused GRU kernel leaves in h and in its fp32 copy the cell of every   *)
(* row, computed from the codes and the state before the call, whatever    *)
(* order it runs gates and tiles in; the 12-row kernels (AVX2, AVX-VNNI)   *)
(* leave the rows past their last tile at the old state and say nothing.   *)
(***************************************************************************)
TileRows == IF call.tier \in {"avx2", "avxvnni"} THEN GruMR ELSE MR

GruExact ==
  stage = "done" /\ call.family = "gru" =>
    LET wih == Quantised(0)
        whh == Quantised(1)
        ih(m, j) == Scale(j) * DotOf(0, call.zp, m, wih[j])
        hh(m, j) == Scale(j) * DotOf(1, call.zpH, m, whh[j])
    IN  \A m \in 0 .. call.M - 1 :
          IF m < (call.M \div TileRows) * TileRows
          THEN /\ mem.out[m] = mem.h[m]
               /\ \A n \in 0 .. D - 1 :
                    mem.h[m][n] = GruCell([j \in Nat |-> ih(m, j)], [j \in Nat |-> hh(m, j)], HBefore(m, n), n)
          ELSE /\ mem.out[m] = <<>>
               /\ \A n \in 0 .. D - 1 : mem.h[m][n] = HBefore(m, n)

(***************************************************************************)
(* A quantised activation (qgemm_quant.c) decodes to within one and a half *)
(* steps of its value, at ranges that are empty or on one side of zero and *)
(* in tails as in vectors; zero decodes to zero, or to one step when the   *)
(* zero point is 0 and the code would be -128.                             *)
(***************************************************************************)
SourceOf(i) == IF call.op \in {"transposed", "transposed16"}
               THEN mem.x[(i % call.K) * call.M + i \div call.K] ELSE mem.x[i]

QuantiserBounds ==
  stage = "done" /\ call.family = "quant" =>
    /\ mem.q.zp \in 0 .. 255 /\ mem.q.num > 0
    /\ \A i \in 0 .. Elements - 1 :
         LET back == mem.out[i] + 128 - mem.q.zp IN
         /\ 2 * AbsOf(SourceOf(i) * mem.q.den - back * mem.q.num) <= 3 * mem.q.num
         /\ SourceOf(i) = 0 => back = 0 \/ (mem.q.zp = 0 /\ back = 1)

(***************************************************************************)
(* What the four Winograd components add up to is the k = 3 convolution of *)
(* the dequantised weights with the frame, edges padded by zero rows, up   *)
(* to the two quantisation errors of each component a row is made of.      *)
(***************************************************************************)
WinoParts(f) == IF (f % 2) = 0 THEN {0, 1, 2} ELSE {1, 2, 3}

Convolved(f, n) ==
  SumTo(3 * call.K, [j \in Nat |->
    PackedAt(mem.W, 3 * call.K, n, j) * Row(f + (j % 3) - 1, j \div 3)])

WinogradClose ==
  stage = "done" /\ call.family = "wino" =>
    \A f \in 0 .. call.M - 1, n \in 0 .. call.N - 1 :
      LET want == 2 * 127 * 127 * (Convolved(f, n) + IF call.bias THEN Bias3(n) ELSE 0)
          slack(i) == mem.peak[i] * mem.top[i][n] * call.K * 128
      IN  AbsOf(mem.y[f][n] - want) <= SumTo(4, [i \in Nat |-> IF i \in WinoParts(f) THEN slack(i) ELSE 0])

(***************************************************************************)
(* On every tier the forward transform (fft/) yields the 513 bins of the   *)
(* discrete Fourier transform, and the inverse returns the signal times N, *)
(* as the synthesis window expects it (fe_stft.c:56): twiddle offsets,     *)
(* stage strides and register shuffles agree with each other.              *)
(***************************************************************************)
FftExact ==
  stage = "done" /\ call.family = "fft" =>
    IF call.op = "forward" THEN \A k \in 0 .. FFT_HALF : mem.buf[k] = Dft(k)
    ELSE \A n \in 0 .. FFT_N - 1 : mem.buf[n] = Fld(FFT_N * Signal(n))

(***************************************************************************)
(* The fp32 layers compute their definitions: the strided convolution the  *)
(* k = 8 convolution whose weight was reshaped to k = 2 (fe_conv.c:74),    *)
(* the transposed one the sum of the taps inside each row, although the    *)
(* interior is stored unguarded and output rows adjoin, and the GEMM the   *)
(* product on tiles and on tails.                                          *)
(***************************************************************************)
StridedAt(f, o) ==
  ConvBias(o) + SumTo(call.ci, [ch \in Nat |-> SumTo(ENC_K0, [k \in Nat |->
    LET at == f * call.stride + k - StridedPad
    IN  IF at \in 0 .. call.freq - 1
        THEN Weight(call.data, 0, o, ((k % call.stride) * call.ci + ch) * 2 + k \div call.stride) * InRow(ch, at)
        ELSE 0])])

TransposedAt(o, p) ==
  ConvBias(o) + SumTo(call.ci, [i \in Nat |-> SumTo(call.freq, [f \in Nat |->
    LET k == p - f * call.stride + TransPad
    IN  IF k \in 0 .. call.K - 1 THEN Tap(i, o, k) * Code(call.data, 0, f, i) ELSE 0])])

ConvExact ==
  stage = "done" /\ call.family = "conv" =>
    \A e \in DOMAIN mem.C :
      mem.C[e] = CASE call.op = "strided" -> StridedAt(e \div call.N, e % call.N)
                   [] call.op = "transposed" -> TransposedAt(e \div OutFreq, e % OutFreq)
                   [] call.op = "sgemm" ->
                        (IF call.beta = 0 THEN 0 ELSE ConvBias(e))
                        + SumTo(call.K, [k \in Nat |-> Code(call.data, 0, e \div call.N, k)
                                                   * Weight(call.data, 0, e % call.N, k)])

(***************************************************************************)
(* The three lists of layers in fe_weights.c agree: no cursor ever passes  *)
(* the buffer planned for it, the blob is not read past its end, a blob    *)
(* that loads has filled every buffer and been read to its last byte, and  *)
(* the i8mm repack takes each int8 layer once, with the shape it was       *)
(* packed with; the packed fp32 layer reads no more than was taken.        *)
(***************************************************************************)
BlobConsumed ==
  call.family = "blob" =>
    LET plan == mem.plan IN
    /\ mem.q <= plan.q /\ mem.s <= plan.s /\ mem.pre <= plan.pre /\ mem.wino <= plan.wino /\ mem.ws <= plan.ws
    /\ stage \in {"loop", "ready"} => mem.off <= call.size
    /\ call.dims.C1 * PreK(call.dims) <= mem.items[1].n
    /\ stage = "done" /\ mem.result = 0 =>
         /\ mem.off = call.size /\ mem.wino = plan.wino /\ mem.ws = plan.ws
         /\ mem.q = plan.q /\ mem.s = plan.s /\ mem.pre = plan.pre
         /\ \A i \in DOMAIN mem.layers : <<mem.layers[i].out, mem.layers[i].in>> = <<mem.layers[i].N, mem.layers[i].K>>
         /\ Len(mem.repacked) = Len(mem.layers)
         /\ \A i \in DOMAIN mem.layers : \E j \in DOMAIN mem.repacked : mem.repacked[j] = mem.layers[i].name

(***************************************************************************)
(* Attention (fe_attention.c): on every tier each head mixes its own       *)
(* values by the softmax of its own queries and keys, whatever padding and *)
(* repacking its three packs went through.  The I8MM repack of K asks for  *)
(* HD % 8 = 0 (line 203) where the kernel's depth is HD_K: head sizes      *)
(* where only the second is a multiple of 8 are excepted.                  *)
(***************************************************************************)
ScoreRow(h, m) ==
  [n \in 0 .. call.F2 - 1 |-> SumTo(call.HD, [t \in Nat |-> Qkv(h, m, t) * Qkv(h, n, call.HD + t)])]

AttentionExact ==
  stage = "done" /\ call.family = "attn" /\ ~(call.tier = "i8mm" /\ (call.HD % 8) # 0 /\ (HD_K % 8) = 0) =>
    \A h \in Heads, m \in 0 .. call.F2 - 1 :
      LET row == ScoreRow(h, m) IN
      \A n \in 0 .. call.HD - 1 :
        mem.out[m * call.NH * call.HD + h * call.HD + n]
          = SumTo(call.F2, [k \in Nat |-> Softmax(row, k) * Qkv(h, k, 2 * call.HD + n)])
===============================================================================
