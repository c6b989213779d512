------------------------------ MODULE QgemmPack ------------------------------
(***************************************************************************)
(* Memory layouts of an int8 GEMM's operands: the packed weights of        *)
(* qgemm_pack.c and the A and B repackers of the tiers.  A buffer is a     *)
(* function from byte offsets; w is a matrix of weights, w[n][k].          *)
(***************************************************************************)
EXTENDS Integers, KernelArith

NR == 8   \* FE_QGEMM_NR, columns of a packed block
MR == 8   \* FE_QGEMM_MR, rows of a tile

K4(K) == (K + 3) \div 4
NBlocks(N) == (N + NR - 1) \div NR
BlockBytes(K) == K4(K) * NR * 4

\* A weight row is scaled so that its largest magnitude m becomes 127.
RowMax(w, N, K) == [n \in 0 .. N - 1 |-> MaxTo(K, [k \in Nat |-> AbsOf(w[n][k])])]
WeightCode(x, m) == IF m = 0 THEN 0 ELSE Clamp(-127, 127, RoundAway(x * 127, m))

\* The column and the k of byte i, in layout [8 columns][4 k][column][k].
ColAt(K, i) == (i \div BlockBytes(K)) * NR + ((i % 32) \div 4)
KAt(K, i) == ((i % BlockBytes(K)) \div 32) * 4 + (i % 4)

\* Byte of column n and depth k.
PackedAt(w, K, n, k) == w[(n \div NR) * BlockBytes(K) + 32 * (k \div 4) + 4 * (n % NR) + (k % 4)]

\* fe_qgemm_pack_W: columns past N and depths past K are zero.
PackW(w, N, K) ==
  LET top == RowMax(w, N, K) IN
  [i \in 0 .. (NBlocks(N) * BlockBytes(K)) - 1 |->
     IF ColAt(K, i) < N /\ KAt(K, i) < K
     THEN WeightCode(w[ColAt(K, i)][KAt(K, i)], top[ColAt(K, i)]) ELSE 0]

\* fe_qgemm_compute_row_sums walks the packed bytes of a column, padding included.
RowSums(packed, N, K) ==
  [n \in 0 .. N - 1 |-> SumTo(4 * K4(K), [k \in Nat |-> PackedAt(packed, K, n, k)])]

\* fe_qgemm_i8mm_repack_block: 32-bit word j of an 8-k group is word j / 2 of
\* its even or odd 4-k group, the zip of the two.
RepackBlock(src, base, K) ==
  [i \in 0 .. (K \div 8) * 64 - 1 |->
     LET j == (i % 64) \div 4
     IN  src[base + (2 * (i \div 64) + (j % 2)) * 32 + (j \div 2) * 4 + (i % 4)]]

\* fe_qgemm_repack_i8mm: every full block in place; nothing when K % 8 # 0.
RepackI8mm(packed, N, K) ==
  LET B   == BlockBytes(K)
      blk == [b \in 0 .. (N \div NR) - 1 |-> RepackBlock(packed, b * B, K)]
  IN  IF (K % 8) # 0 THEN packed ELSE
      [i \in DOMAIN packed |-> IF i < (N \div NR) * B THEN blk[i \div B][i % B] ELSE packed[i]]

\* fe_dotprod_repack_a_rp: per 8-row tile and 4-k group, the rows' quads in turn.
RowQuads(A, M, K) ==
  [i \in 0 .. (M \div MR) * MR * K - 1 |->
     LET r == i % (MR * K)
     IN  A[((i \div (MR * K)) * MR + ((r % 32) \div 4)) * K + (r \div 32) * 4 + (r % 4)]]

\* fe_i8mm_repack_a_rp: per 8-row tile and 8-k group, four pairs of rows.
RowPairs(A, M, K) ==
  [i \in 0 .. (M \div MR) * MR * K - 1 |->
     LET r   == i % (MR * K)
         row == 2 * ((r % 64) \div 16) + ((r % 16) \div 8)
     IN  A[((i \div (MR * K)) * MR + row) * K + (r \div 64) * 8 + (r % 8)]]

\* fe_avx2_i16_repack_b: one block to [pair of k][column][k of the pair].
KPairs(W, base, K) ==
  [i \in 0 .. BlockBytes(K) - 1 |->
     LET kp == i \div 16
     IN  W[base + (kp \div 2) * 32 + ((i % 16) \div 2) * 4 + 2 * (kp % 2) + (i % 2)]]
==============================================================================
