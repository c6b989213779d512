------------------------------- MODULE QgemmX86 -------------------------------
(***************************************************************************)
(* The kernels of the x86 tiers: AVX2 (A widened to 16 bits and vpmaddwd,  *)
(* with the vpsignb kernels as fallback), AVX-VNNI and AVX512-VNNI         *)
(* (vpdpbusd, which wants A unsigned: A is XORed with 128 in place and 128 *)
(* times the weights' sum subtracted).  Column blocks are the outer loop.  *)
(***************************************************************************)
EXTENDS QgemmGru

\* vpmaddwd of A in 16 bits and a k-pair-interleaved block: fe_avx2_i16_row_acc.
PairsAcc(a, w, K, m, n) ==
  SumTo(2 * (K \div 2), [k \in Nat |->
    a[m * K + k] * w[(n \div NR) * BlockBytes(K) + 16 * (k \div 2) + 2 * (n % NR) + (k % 2)]])

\* fe_avx2_row_acc: |a| as u8 times sign(a) * b, adjacent products added with
\* 16-bit saturation.
SignOf(x) == IF x > 0 THEN 1 ELSE IF x < 0 THEN -1 ELSE 0
SignAcc(a, w, K, m, n) ==
  LET Prod(k) == AbsOf(a[m * K + k])
                   * SignOf(a[m * K + k])
                   * PackedAt(w, K, n, k)
  IN  SumTo(2 * (K \div 4), [p \in Nat |-> Saturate16(Prod(2 * p) + Prod(2 * p + 1))])

\* fe_avxvnni_prexor128_a: a byte of A becomes the unsigned a + 128.
Xor128(a) == [i \in DOMAIN a |-> a[i] + 128]

\* fe_avxvnni_wsum_block: 128 times the sum of a packed column.
WSum(w, K, n) == SumTo(4 * K4(K), [k \in Nat |-> 128 * PackedAt(w, K, n, k)])

\* vpdpbusd of the unsigned A, less the column's wsum.
VnniAcc(a, w, K, m, n) ==
  SumTo(4 * (K \div 4), [k \in Nat |-> a[m * K + k] * PackedAt(w, K, n, k)]) - WSum(w, K, n)

Pairs == [m \in Nat |-> [n \in Nat |-> PairsAcc(mem.A, mem.B, call.K, m, n)]]
Signs == [m \in Nat |-> [n \in Nat |-> SignAcc(mem.A, mem.W, call.K, m, n)]]
Vnni == [m \in Nat |-> [n \in Nat |-> VnniAcc(mem.A, mem.W, call.K, m, n)]]

XOp(tier, op) == Runs("gemm", tier, op)

(***************************************************************************)
(* AVX2                                                                    *)
(***************************************************************************)
\* The i16 kernels serve an even K when A fits their static scratch.
UseI16 == (call.K % 2) = 0 /\ call.M * call.K <= MaxMK

AllPairs(w, N, K) ==
  LET B == BlockBytes(K)
      blk == [b \in 0 .. NBlocks(N) - 1 |-> KPairs(w, b * B, K)]
  IN  [i \in DOMAIN w |-> blk[i \div B][i % B]]

\* A expanded once; the blocks of B, repacked one at a time in the loop, are
\* repacked here at once: a block is read only after its own repack.
Avx2Enter ==
  /\ call.family = "gemm" /\ call.tier = "avx2" /\ stage = "ready"
  /\ Continues("loop", 0, [A |-> mem.A, W |-> mem.W, bias |-> mem.bias, C |-> mem.C, peak |-> mem.peak,
                           B |-> IF UseI16 THEN AllPairs(mem.W, call.N, call.K) ELSE <<>>])

\* i16: 12-row tiles up to the last multiple of 24, then 8-row tiles, then,
\* for int32 alone, a masked tail; vpsignb: 8-row tiles.
Avx2Loop(masked) ==
  \/ UseI16 /\ BlockLoop(AfterTwelves((call.M \div 24) * 24), masked, Pairs)
  \/ ~UseI16 /\ BlockLoop((call.M \div MR) * MR, FALSE, Signs)

Avx2Int32 == XOp("avx2", "int32") /\ Avx2Loop(TRUE)
Avx2Fused == XOp("avx2", "fused") /\ Avx2Loop(FALSE)
Avx2Accum == XOp("avx2", "acc")   /\ Avx2Loop(FALSE)
Avx2Track == XOp("avx2", "track") /\ Avx2Loop(FALSE)

\* Attention's K = 20 kernel walks rows outside, columns inside.
Avx2K20 ==
  /\ XOp("avx2", "k20")
  /\ \/ UseI16 /\ RowLoop(Pairs)
     \/ ~UseI16 /\ RowLoop(Signs)

Avx2GruEnter ==
  /\ call.family = "gru" /\ call.tier = "avx2" /\ stage = "ready"
  /\ Continues("loop", 0, [mem EXCEPT !.W = AllPairs(@, call.N, D), !.V = AllPairs(@, call.N, D)])

GruMR == 12    \* FE_QGEMM_GRU_MR
Avx2Gru ==
  Runs("gru", "avx2", "gru") /\ GruLoop(GruMR, [m \in Nat |-> [n \in Nat |-> PairsAcc(mem.A, mem.W, D, m, n)]],
                                               [m \in Nat |-> [n \in Nat |-> PairsAcc(mem.H, mem.V, D, m, n)]])

(***************************************************************************)
(* AVX-VNNI                                                                *)
(***************************************************************************)
\* Mutant: the caller's A is left signed.
VnniEnter_signed ==
  /\ call.family = "gemm" /\ call.tier \in {"avxvnni", "avx512"} /\ stage = "ready"
  /\ Continues("loop", 0, mem)

\* Both VNNI tiers turn the caller's A unsigned where it lies.
VnniEnter ==
  /\ call.family = "gemm" /\ call.tier \in {"avxvnni", "avx512"} /\ stage = "ready"
  /\ Continues("loop", 0, [mem EXCEPT !.A = Xor128(@)])

\* Mutant: the input is turned unsigned, the state is not.
VnniGruEnter_inputOnly ==
  /\ call.family = "gru" /\ call.tier \in {"avxvnni", "avx512"} /\ stage = "ready"
  /\ Continues("loop", 0, [mem EXCEPT !.A = Xor128(@)])

VnniGruEnter ==
  /\ call.family = "gru" /\ call.tier \in {"avxvnni", "avx512"} /\ stage = "ready"
  /\ Continues("loop", 0, [mem EXCEPT !.A = Xor128(@), !.H = Xor128(@)])

\* Float epilogues: 12-row tiles while they fit, then 8-row tiles, then abort.
AvxvnniInt32 ==
  XOp("avxvnni", "int32") /\ BlockLoop(AfterTwelves((call.M \div 24) * 24), TRUE, Vnni)
AvxvnniK20   ==
  XOp("avxvnni", "k20") /\ BlockLoop(AfterTwelves((call.M \div 24) * 24), TRUE, Vnni)
AvxvnniFused == XOp("avxvnni", "fused") /\ BlockLoop(AfterTwelves(call.M), FALSE, Vnni)
AvxvnniAccum == XOp("avxvnni", "acc")   /\ BlockLoop(AfterTwelves(call.M), FALSE, Vnni)
AvxvnniTrack == XOp("avxvnni", "track") /\ BlockLoop(AfterTwelves(call.M), FALSE, Vnni)

GruVnni == [m \in Nat |-> [n \in Nat |-> VnniAcc(mem.H, mem.V, D, m, n)]]
AvxvnniGru == Runs("gru", "avxvnni", "gru") /\ GruLoop(GruMR, Vnni, GruVnni)

(***************************************************************************)
(* AVX512-VNNI: pairs of column blocks, then one block left over, whose    *)
(* kernels have 8-row tiles only.                                          *)
(***************************************************************************)
PairLoop(covered, masked) ==
  /\ stage = "loop"
  /\ \/ pos + 2 * NR <= call.N /\ BlockStep(2 * NR, covered, masked, Vnni)
     \/ /\ pos + 2 * NR > call.N /\ pos + NR <= call.N
        /\ BlockStep(NR, (call.M \div MR) * MR, FALSE, Vnni)
     \/ /\ pos + NR > call.N
        /\ Continues(IF pos < call.N THEN "aborted" ELSE "done", pos, mem)

\* Mutant: 12-row tiles as long as they fit.
Avx512Rows_uncapped == AfterTwelves(call.M)

Avx512Rows == AfterTwelves((call.M \div 24) * 24)
Avx512Int32 == XOp("avx512", "int32") /\ PairLoop(Avx512Rows, TRUE)
Avx512K20   == XOp("avx512", "k20")   /\ PairLoop((call.M \div MR) * MR, FALSE)
Avx512Fused == XOp("avx512", "fused") /\ PairLoop(Avx512Rows, FALSE)
Avx512Accum == XOp("avx512", "acc")   /\ PairLoop(Avx512Rows, FALSE)
Avx512Track == XOp("avx512", "track") /\ PairLoop(Avx512Rows, FALSE)
Avx512Gru == Runs("gru", "avx512", "gru") /\ GruLoop(MR, Vnni, GruVnni)

X86Next ==
  \/ Avx2Enter \/ Avx2Int32 \/ Avx2K20 \/ Avx2Fused \/ Avx2Accum \/ Avx2Track
  \/ Avx2GruEnter \/ Avx2Gru \/ VnniEnter \/ VnniGruEnter
  \/ AvxvnniInt32 \/ AvxvnniK20 \/ AvxvnniFused \/ AvxvnniAccum \/ AvxvnniTrack \/ AvxvnniGru
  \/ Avx512Int32 \/ Avx512K20 \/ Avx512Fused \/ Avx512Accum \/ Avx512Track \/ Avx512Gru
===============================================================================
