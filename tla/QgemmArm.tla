------------------------------- MODULE QgemmArm -------------------------------
(***************************************************************************)
(* The kernels of the ARM tiers: NEON (vmull / vmlal pairs in 16 bits),    *)
(* DOTPROD (row quads repacked from A) and I8MM (row pairs and 8-k weight  *)
(* groups; layers whose K is no multiple of 8 go to the DOTPROD kernels).  *)
(***************************************************************************)
EXTENDS QgemmGru

\* fe_neon_row8_acc_vmlal2: two 4-k groups share each 16-bit lane before the
\* pairwise widening add; an odd last group goes alone.
NeonAcc(a, w, K, m, n) ==
  LET G == K \div 4
      Prod(g, l) == IF g < G THEN a[m * K + 4 * g + l] * PackedAt(w, K, n, 4 * g + l) ELSE 0
      Lane(g, l) == WrapTo(16, Prod(g, l) + Prod(g + 1, l))
  IN  SumTo((G + 1) \div 2, [p \in Nat |-> SumTo(4, [l \in Nat |-> Lane(2 * p, l)])])

\* fe_dotprod_k4_acc_rp: vdotq of a row's quad and a column's quad, in 32 bits.
DotAcc(a, w, K, m, n) ==
  SumTo(4 * (K \div 4), [j \in Nat |->
    a[(m \div MR) * MR * K + 32 * (j \div 4) + 4 * (m % MR) + (j % 4)]
      * PackedAt(w, K, n, j)])

\* fe_i8mm_k8_acc_rp and its gather: SMMLA of a pair of rows and a pair of columns.
SmmlaAcc(a, w, K, m, n) ==
  SumTo(8 * (K \div 8), [j \in Nat |->
    a[(m \div MR) * MR * K + 64 * (j \div 8) + 16 * ((m % MR) \div 2) + 8 * (m % 2) + (j % 8)]
      * w[(n \div NR) * BlockBytes(K) + 64 * (j \div 8) + 16 * ((n % NR) \div 2) + 8 * (n % 2) + (j % 8)]])

Neon == [m \in Nat |-> [n \in Nat |-> NeonAcc(mem.A, mem.W, call.K, m, n)]]
Dot == [m \in Nat |-> [n \in Nat |-> DotAcc(mem.A, mem.W, call.K, m, n)]]
Smmla == [m \in Nat |-> [n \in Nat |-> SmmlaAcc(mem.A, mem.W, call.K, m, n)]]

\* I8MM kernels send a K that is no multiple of 8 to the DOTPROD kernels.
OnDotprod == call.tier = "dotprod" \/ (call.tier = "i8mm" /\ (call.K % 8) # 0)
OnI8mm == call.tier = "i8mm" /\ (call.K % 8) = 0

NeonEnter ==
  call.family \in {"gemm", "gru"} /\ call.tier = "neon" /\ stage = "ready" /\ Continues("loop", 0, mem)

\* A repacked once per call.
DotprodEnter ==
  /\ call.family = "gemm" /\ OnDotprod /\ stage = "ready"
  /\ Continues("loop", 0, [mem EXCEPT !.A = RowQuads(@, call.M, call.K)])

I8mmEnter ==
  /\ call.family = "gemm" /\ OnI8mm /\ stage = "ready"
  /\ Continues("loop", 0, [mem EXCEPT !.A = RowPairs(@, call.M, call.K)])

Op(op) == call.family = "gemm" /\ call.op = op

NeonInt32 == Op("int32") /\ call.tier = "neon" /\ RowLoop(Neon)
NeonK20   == Op("k20")   /\ call.tier = "neon" /\ RowLoop(Neon)
NeonFused == Op("fused") /\ call.tier = "neon" /\ RowLoop(Neon)
NeonAccum == Op("acc")   /\ call.tier = "neon" /\ RowLoop(Neon)
NeonTrack == Op("track") /\ call.tier = "neon" /\ RowLoop(Neon)

DotprodInt32 == Op("int32") /\ OnDotprod /\ RowLoop(Dot)
DotprodK20   == Op("k20")   /\ OnDotprod /\ RowLoop(Dot)
DotprodFused == Op("fused") /\ OnDotprod /\ RowLoop(Dot)
DotprodAccum == Op("acc")   /\ OnDotprod /\ RowLoop(Dot)
DotprodTrack == Op("track") /\ OnDotprod /\ RowLoop(Dot)

I8mmInt32 == Op("int32") /\ OnI8mm /\ RowLoop(Smmla)
I8mmFused == Op("fused") /\ OnI8mm /\ RowLoop(Smmla)
I8mmAccum == Op("acc")   /\ OnI8mm /\ RowLoop(Smmla)
I8mmTrack == Op("track") /\ OnI8mm /\ RowLoop(Smmla)

(***************************************************************************)
(* GRU.  The DOTPROD and I8MM kernels repack the tile's rows of X and H    *)
(* each time round, into buffers of their own; the rows stay where they    *)
(* are in a whole-matrix repack, so it is one here.  The I8MM kernel has   *)
(* no test of K: fe_gru_step_fp16h calls it for D a multiple of 8 only.    *)
(***************************************************************************)
DotprodGruEnter ==
  /\ call.family = "gru" /\ call.tier = "dotprod" /\ stage = "ready"
  /\ Continues("loop", 0, [mem EXCEPT !.A = RowQuads(@, call.M, D), !.H = RowQuads(@, call.M, D)])

I8mmGruEnter ==
  /\ call.family = "gru" /\ call.tier = "i8mm" /\ stage = "ready"
  /\ Continues("loop", 0, [mem EXCEPT !.A = RowPairs(@, call.M, D), !.H = RowPairs(@, call.M, D)])

NeonGru ==
  Runs("gru", "neon", "gru") /\ GruLoop(MR, Neon, [m \in Nat |-> [n \in Nat |-> NeonAcc(mem.H, mem.V, D, m, n)]])
DotprodGru ==
  Runs("gru", "dotprod", "gru") /\ GruLoop(MR, Dot, [m \in Nat |-> [n \in Nat |-> DotAcc(mem.H, mem.V, D, m, n)]])
I8mmGru ==
  Runs("gru", "i8mm", "gru") /\ GruLoop(MR, Smmla, [m \in Nat |-> [n \in Nat |-> SmmlaAcc(mem.H, mem.V, D, m, n)]])

ArmNext ==
  \/ NeonEnter \/ NeonInt32 \/ NeonK20 \/ NeonFused \/ NeonAccum \/ NeonTrack \/ NeonGru
  \/ DotprodEnter \/ DotprodInt32 \/ DotprodK20 \/ DotprodFused \/ DotprodAccum \/ DotprodTrack
  \/ DotprodGruEnter \/ DotprodGru
  \/ I8mmEnter \/ I8mmInt32 \/ I8mmFused \/ I8mmAccum \/ I8mmTrack \/ I8mmGruEnter \/ I8mmGru
===============================================================================
