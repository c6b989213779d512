-------------------------------- MODULE Qgemm --------------------------------
(***************************************************************************)
(* The int8 GEMM of every quantised layer as its callers see it: weights   *)
(* packed and repacked at load, activations quantised, zero-point folded   *)
(* into the bias, and the loop shapes the tiers' kernels share.  Scales    *)
(* are integers; the float arithmetic of an epilogue is exact.             *)
(***************************************************************************)
EXTENDS KernelCall

Scale(n) == 1 + (n % 3)      \* combined_scale
Bias(n) == 7 * n - 20        \* the layer's bias
Start(m, n) == m - n         \* what C holds before an accumulating call

Ops == {"int32", "k20", "fused", "acc", "track"}

\* The layers: depths that are multiples of 4, int8 activations, a zero point of 8 bits.
ASSUME LayersAssumption ==
  \A c \in Calls :
    c.family \in {"gemm", "gru"} =>
      /\ {c.M, c.N} \subseteq Nat /\ c.K \in Nat \ {0} /\ c.K % 4 = 0
      /\ c.zp \in 0 .. 255
      /\ c.family = "gemm" => c.op \in Ops
      /\ c.family = "gru" => c.N = 3 * c.K /\ c.zpH \in 0 .. 255
      /\ \A which \in 0 .. 1, k \in 0 .. c.K - 1 :
           /\ \A n \in 0 .. c.N - 1 : Weight(c.data, which, n, k) \in Int
           /\ \A m \in 0 .. c.M - 1 : Code(c.data, which, m, k) \in -128 .. 127

\* bias_eff: the correction 128 - zp once per column; bias itself when zp = 128.
BuildBiasEff(bias, rs, zp) ==
  IF zp = 128 THEN bias ELSE [n \in DOMAIN bias |-> bias[n] + Scale(n) * (128 - zp) * rs[n]]

LayerBias == [n \in 0 .. call.N - 1 |-> IF call.bias THEN Bias(n) ELSE 0]

Trained(c, which) ==
  [n \in 0 .. c.N - 1 |-> [k \in 0 .. c.K - 1 |-> Weight(c.data, which, n, k)]]

\* TAKE_INT8_LAYER copies a layer as fe_qgemm_pack_W packs it in the exporter
\* and takes its row sums there and then, before any repack.
LoadLayer ==
  \E c \in {d \in Calls : d.family \in {"gemm", "gru"}} :
    LET p(which) == PackW(Trained(c, which), c.N, c.K)
    IN  Starts(c, [W |-> p(0), V |-> IF c.family = "gru" THEN p(1) ELSE <<>>])

Relaid(w) == IF call.tier = "i8mm" /\ w # <<>> THEN RepackI8mm(w, call.N, call.K) ELSE w
SumsOf(w) == IF w = <<>> THEN <<>> ELSE RowSums(w, call.N, call.K)

\* Mutant: the row sums are taken from the repacked weights.
SumAndRepack_late ==
  /\ call.family \in {"gemm", "gru"} /\ stage = "packed"
  /\ Continues("loaded", 0, [W |-> Relaid(mem.W), V |-> Relaid(mem.V),
                             rs |-> SumsOf(Relaid(mem.W)), rsV |-> SumsOf(Relaid(mem.V))])

\* The row sums of the packed weights; then, on the I8MM tier, the repack in place.
SumAndRepack ==
  /\ call.family \in {"gemm", "gru"} /\ stage = "packed"
  /\ Continues("loaded", 0, [W |-> Relaid(mem.W), V |-> Relaid(mem.V),
                             rs |-> SumsOf(mem.W), rsV |-> SumsOf(mem.V)])

Codes(which) == [i \in 0 .. call.M * call.K - 1 |->
                   Code(call.data, which, i \div call.K, i % call.K)]

\* fe_qgemm_prequant and its siblings: activations quantised, bias_eff built.
PrepareGemm ==
  /\ call.family = "gemm" /\ stage = "loaded"
  /\ Continues("ready", 0,
       [A |-> Codes(0), W |-> mem.W,
        bias |-> IF call.op \in {"int32", "k20"} THEN <<>>
                 ELSE BuildBiasEff(LayerBias, mem.rs, call.zp),
        C |-> [m \in 0 .. call.M - 1 |-> [n \in 0 .. call.N - 1 |-> Start(m, n)]],
        peak |-> 0])

(***************************************************************************)
(* The epilogues: what a kernel stores for the accumulator of column n.    *)
(***************************************************************************)
Dequant(n, acc) == mem.bias[n] + Scale(n) * acc
ToFused(n, acc) == IF call.silu THEN Silu(Dequant(n, acc)) ELSE Dequant(n, acc)
ToAcc(n, acc, old) == old + Dequant(n, acc)

Epilogue(n, acc, old) ==
  CASE call.op \in {"int32", "k20"} -> acc
    [] call.op = "fused" -> ToFused(n, acc)
    [] call.op = "acc" -> ToAcc(n, acc, old)
    [] call.op = "track" -> Dequant(n, acc)

\* Rows and columns of C stored; the tracking kernels raise the peak.
Stored(rows, cols, acc) ==
  LET new == [m \in rows |-> [n \in cols |-> Epilogue(n, acc[m][n], mem.C[m][n])]]
      top(m) == MaxTo(call.N, [n \in Nat |-> IF n \in cols THEN AbsOf(new[m][n]) ELSE 0])
  IN  [mem EXCEPT
         !.C = [m \in DOMAIN @ |-> IF m \in rows
                  THEN [n \in DOMAIN @[m] |-> IF n \in cols THEN new[m][n] ELSE @[m][n]]
                  ELSE @[m]],
         !.peak = IF call.op = "track"
                  THEN Greatest(@, MaxTo(call.M, [m \in Nat |-> IF m \in rows THEN top(m) ELSE 0]))
                  ELSE @]

\* Outer loop over tiles of 8 rows, inner loop over blocks of 8 columns.
\* fe_qgemm_tail_unsupported() aborts on columns, then on rows, left over.
RowLoop(acc) ==
  /\ stage = "loop"
  /\ \/ /\ pos + MR <= call.M
        /\ Continues(IF (call.N % NR) # 0 THEN "aborted" ELSE "loop", pos + MR,
                     Stored(pos .. pos + MR - 1, 0 .. (call.N \div NR) * NR - 1, acc))
     \/ /\ pos + MR > call.M
        /\ Continues(IF pos < call.M THEN "aborted" ELSE "done", pos, mem)

\* Outer loop over blocks of columns: a block stores the first covered rows;
\* a row tail is stored by a masked tile (simd) or aborts.
BlockStep(width, covered, simd, acc) ==
  Continues(IF covered < call.M /\ ~simd THEN "aborted" ELSE "loop", pos + width,
            Stored(0 .. (IF simd THEN call.M ELSE covered) - 1, pos .. pos + width - 1, acc))

BlockLoop(covered, simd, acc) ==
  /\ stage = "loop"
  /\ \/ pos + NR <= call.N /\ BlockStep(NR, covered, simd, acc)
     \/ /\ pos + NR > call.N
        /\ Continues(IF pos < call.N THEN "aborted" ELSE "done", pos, mem)

\* Rows left to 8-row tiles after 12-row tiles up to the bound top.
AfterTwelves(top) == LET t == (top \div 12) * 12 IN t + ((call.M - t) \div MR) * MR
==============================================================================
