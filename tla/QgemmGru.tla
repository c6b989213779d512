------------------------------- MODULE QgemmGru -------------------------------
(***************************************************************************)
(* The GRU cell with both GEMMs and the gates fused in one kernel: gates   *)
(* r, z, n side by side in the 3 * D columns of W_ih and W_hh, the state h *)
(* updated in place row tile by row tile.  Rows are frequency bins.        *)
(***************************************************************************)
EXTENDS Qgemm

D == call.K     \* hidden size; call.N = 3 * D, call.M = freq

BrSum(n) == n % 4          \* b_ih + b_hh of the r gate, combined at load
BzSum(n) == 1 + (n % 3)    \* and of the z gate
BnI(n) == 2 - (n % 5)
BnH(n) == (n % 2) - 1
HBefore(m, n) == ((3 * m + 5 * n) % 9) - 4

\* fe_gru_fp16_setup, behind the shape guard of fe_gru_step_fp16h: input and
\* state quantised side by side, both bias corrections built without a bias.
PrepareGru ==
  /\ call.family = "gru" /\ stage = "loaded"
  /\ LET none == [n \in 0 .. call.N - 1 |-> 0]
         s == [A |-> Codes(0), H |-> Codes(1), W |-> mem.W, V |-> mem.V,
               bias  |-> BuildBiasEff(none, mem.rs, call.zp),
               biasV |-> BuildBiasEff(none, mem.rsV, call.zpH),
               h     |-> [m \in 0 .. call.M - 1 |-> [n \in 0 .. D - 1 |-> HBefore(m, n)]],
               out   |-> [m \in 0 .. call.M - 1 |-> <<>>]]
     IN  Continues(IF (D % 8) = 0 /\ (call.M % 8) = 0 THEN "ready" ELSE "aborted", 0, s)

\* The cell from the dequantised columns of the two products.
GruCell(ih, hh, hOld, n) ==
  LET r    == Sigmoid(ih[n] + hh[n] + BrSum(n))
      z    == Sigmoid(ih[D + n] + hh[D + n] + BzSum(n))
      cand == Tanh(ih[2 * D + n] + BnI(n) + r * (hh[2 * D + n] + BnH(n)))
  IN  cand + z * (hOld - cand)

\* One iteration of the row loop: the gates of R rows, then h and its fp32 copy.
\* Rows short of a tile are left when the loop ends.
GruLoop(R, accI, accH) ==
  /\ stage = "loop"
  /\ \/ /\ pos + R <= call.M
        /\ LET ih == [m \in Nat |-> [n \in Nat |-> mem.bias[n] + Scale(n) * accI[m][n]]]
               hh == [m \in Nat |-> [n \in Nat |-> mem.biasV[n] + Scale(n) * accH[m][n]]]
               new == [m \in pos .. pos + R - 1 |-> [n \in 0 .. D - 1 |->
                         GruCell([j \in Nat |-> ih[m][j]], [j \in Nat |-> hh[m][j]], mem.h[m][n], n)]]
           IN  Continues("loop", pos + R,
                 [mem EXCEPT !.h   = [m \in DOMAIN @ |-> IF m \in DOMAIN new THEN new[m] ELSE @[m]],
                             !.out = [m \in DOMAIN @ |-> IF m \in DOMAIN new THEN new[m] ELSE @[m]]])
     \/ pos + R > call.M /\ Continues("done", pos, mem)
===============================================================================
