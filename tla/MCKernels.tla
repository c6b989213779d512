------------------------------ MODULE MCKernels ------------------------------
(* Small layers for TLC: every kernel entry on shapes with and without       *)
(* 12-row tiles, column pairs, odd 4-k groups and tails, on mixed data and   *)
(* on the data that fills the narrow lanes.  The nonlinear functions are     *)
(* stand-ins that tell their arguments apart.                                *)
EXTENDS Kernels, CpuDetect

MCSilu(x) == x % 1009
MCSigmoid(x) == x % 7
MCSoftmax(row, n) == (row[n] + 3 * row[0]) % 128
MCTanh(x) == (x % 11) - 5

MCWeight(d, which, n, k) ==
  CASE d = "top" -> 127
    [] d = "bottom" -> -127
    [] d \in {"taps", "first"} -> IF k = 0 THEN 127 ELSE ((37 * n + 11 * k + 5 * n * k) % 251) - 125
    [] d = "mixed" -> ((37 * n + 11 * k + 5 * n * k + 53 * which) % 251) - 125
MCCode(d, which, m, k) ==
  CASE d = "taps" -> ((3 * m + 5 * k + m * k) % 11) - 5
    [] d = "first" -> IF m = 0 THEN 5 - k ELSE 0
    [] d = "mixed" -> ((29 * m + 13 * k + 3 * m * k + 71 * which) % 255) - 127
    [] d = "top" -> 127
    [] d = "bottom" -> -128

Gemm(tier, op, M, N, K, zp, bias, silu, data) ==
  [family |-> "gemm", tier |-> tier, op |-> op, M |-> M, N |-> N, K |-> K,
   zp |-> zp, bias |-> bias, silu |-> silu, data |-> data]
Gru(tier, M, K, zp, zpH) ==
  [family |-> "gru", tier |-> tier, op |-> "gru", M |-> M, N |-> 3 * K, K |-> K,
   zp |-> zp, zpH |-> zpH, data |-> "mixed"]

Tiers == {"neon", "dotprod", "i8mm", "avx2", "avxvnni", "avx512"}
Floats == {"fused", "acc", "track"}

GemmCalls ==
  {Gemm(t, "int32", 8, 8, 12, 128, FALSE, FALSE, d) : t \in Tiers, d \in {"mixed", "top", "bottom"}}
  \cup {Gemm(t, "int32", M, 8, 8, 128, FALSE, FALSE, "mixed") : t \in Tiers, M \in {12, 16, 32}}
  \cup {Gemm(t, "k20", M, 8, 20, 128, FALSE, FALSE, "mixed") : t \in Tiers, M \in {8, 12, 16}}
  \cup {Gemm(t, op, M, 16, 8, 100, TRUE, FALSE, "mixed") : t \in Tiers, op \in Floats, M \in {16, 24}}
  \cup {Gemm(t, op, 8, N, 12, 140, TRUE, TRUE, "mixed") : t \in Tiers, op \in Floats, N \in {20, 24}}
  \cup {Gemm(t, "fused", 32, 8, 4, 128, b, FALSE, "mixed") : t \in Tiers, b \in BOOLEAN}

GruCalls == {Gru(t, M, 8, 100, 140) : t \in Tiers, M \in {12, 16, 24}}
            \cup {Gru(t, 8, 24, 90, 128) : t \in {"i8mm", "avx512"}}

\* Ranges on both sides of zero, on one side, empty, and with ties at halves.
MCSample(d, i) ==
  CASE d = "wide" -> ((37 * i + 11) % 201) - 90
    [] d = "pos" -> 3 + ((7 * i) % 50)
    [] d = "neg" -> -3 - ((7 * i) % 50)
    [] d = "zero" -> 0
    [] d = "const" -> 5
    [] d = "ties" -> IF i = 0 THEN 510 ELSE IF i < 4 THEN 0 ELSE 2 * (i % 9) + 1

Quant(tier, op, M, K, data) ==
  [family |-> "quant", tier |-> tier, op |-> op, M |-> M, K |-> K, data |-> data]
QuantTiers == {"neon", "avx2", "avx512"}
Ranges == {"wide", "pos", "neg", "zero", "const", "ties"}
QuantCalls ==
  {Quant(t, op, 1, K, d) : t \in QuantTiers, op \in {"flat", "scaled", "fp16"}, K \in {5, 24, 28}, d \in Ranges}
  \cup {Quant(t, "transposed", M, K, d) : t \in QuantTiers, M \in {6, 8}, K \in {4, 5}, d \in Ranges}
  \cup {Quant(t, op, M, K, d) : t \in QuantTiers, op \in {"transposed16", "concat"},
                                M \in {2, 4}, K \in {8, 16, 24, 30}, d \in Ranges}

Wino(op, M, N, K, bias, data) ==
  [family |-> "wino", tier |-> "neon", op |-> op, M |-> M, N |-> N, K |-> K, bias |-> bias, data |-> data]
WinoCalls == {Wino(op, M, 8, K, b, d) : op \in {"silu", "skip16"}, M \in {16, 32}, K \in {4, 8},
                                        b \in BOOLEAN, d \in {"taps", "first"}}

\* Impulses at the ends, at residues of every stage, and a comb.
FftCalls ==
  {[family |-> "fft", tier |-> t, op |-> op, at |-> at, amp |-> [j \in DOMAIN at |-> at[j] - 400]] :
     t \in {FftTier(u) : u \in {{"neon"}, {"avx2", "avxvnni"}, {"avx2", "avx512vnni"}}},
     op \in {"forward", "inverse"}, at \in {<<0, 1023>>, <<5, 300, 511>>, <<2, 9, 518>>, [j \in 1 .. 24 |-> 41 * j]}}

ConvCalls ==
  {[family |-> "conv", tier |-> "neon", op |-> "strided", freq |-> f, stride |-> 4, ci |-> 2,
    N |-> N, data |-> "mixed"] : f \in {16, 34, 36}, N \in {8, 12}}
  \cup {[family |-> "conv", tier |-> "neon", op |-> "sgemm", M |-> M, N |-> N, K |-> 5, beta |-> b,
         data |-> "mixed"] : M \in {8, 11}, N \in {8, 11, 16}, b \in 0 .. 1}
  \cup {[family |-> "conv", tier |-> "neon", op |-> "transposed", freq |-> f, stride |-> s, ci |-> 3,
         N |-> N, K |-> 8, data |-> "mixed"] : f \in {4, 7}, s \in {2, 4}, N \in {2, 3}}

\* Blobs of the medium configuration and of a small one with the same layers:
\* whole, of other lengths by a little, cut at and before the end of an item.
Medium == [C1 |-> 96, C2 |-> 72, F1 |-> 128, F2 |-> 72, D |-> 72, enc |-> 3, rf |-> 4, stride |-> 4]
Small == [C1 |-> 16, C2 |-> 24, F1 |-> 32, F2 |-> 40, D |-> 24, enc |-> 1, rf |-> 2, stride |-> 4]
EndOf(d, n) == 12 + SumTo(n, [i \in Nat |-> ItemBytes(FileItems(d)[i + 1])])
Items(d) == Len(FileItems(d))
Blob(d, size, magic) == [family |-> "blob", tier |-> "i8mm", op |-> "load", dims |-> d, size |-> size, magic |-> magic]
BlobCalls ==
  {Blob(d, EndOf(d, Items(d)) + e, TRUE) : d \in {Medium, Small}, e \in {-4, -1, 0, 1, 4}}
  \cup {Blob(Small, EndOf(Small, n) - e, TRUE) : n \in 0 .. Items(Small) - 1, e \in 0 .. 1}
  \cup {Blob(Small, EndOf(Small, Items(Small)), FALSE), Blob(Small, 0, TRUE)}

\* Head sizes that are padded twice (18, the model's), once and never.
AttnCalls ==
  {[family |-> "attn", tier |-> t, op |-> "mhsa", F2 |-> 16, NH |-> 2, HD |-> hd, data |-> "mixed"] :
     t \in {"neon", "i8mm", "avx2"}, hd \in {8, 18, 22}}

MCCalls == GemmCalls \cup GruCalls \cup QuantCalls \cup WinoCalls \cup FftCalls \cup ConvCalls \cup BlobCalls
           \cup AttnCalls
===============================================================================
