----------------------------- MODULE FeAttention -----------------------------
(***************************************************************************)
(* Self-attention over the frequency axis (fe_attention.c): one pass packs *)
(* Q, K and V of all heads out of the rows of the projection, then each    *)
(* head is two int8 GEMMs with a softmax between them.  A head of call.HD  *)
(* values is padded to a multiple of 4 as a depth, of 8 as columns.  Row   *)
(* counts are multiples of 8 (a static assertion), so the scalar tail of   *)
(* the packing is left out.                                                *)
(***************************************************************************)
EXTENDS KernelCall

CONSTANT Softmax(_, _)  \* Softmax(row, n), the code of entry n of a row of scores

\* Rows of the projection in multiples of 8, integer codes.
ASSUME ProjectionAssumption ==
  \A c \in Calls :
    c.family = "attn" =>
      /\ {c.F2, c.NH, c.HD} \subseteq Nat \ {0} /\ c.F2 % 8 = 0
      /\ \A m \in 0 .. c.F2 - 1, k \in 0 .. 3 * c.NH * c.HD - 1 : Code(c.data, 0, m, k) \in Int

HD_K == 4 * ((call.HD + 3) \div 4)  \* FE_HEAD_DIM_PAD_K
HD_V == 8 * ((call.HD + 7) \div 8)  \* FE_HEAD_DIM_PAD_V
Heads == 0 .. call.NH - 1

\* Entry t of head h in row m of the projection: its q, its k, its v.
Qkv(h, m, t) == Code(call.data, 0, m, h * 3 * call.HD + t)

\* The packs of an earlier frame are still in the buffers of Q and K.
Stale == 99

AttnStart ==
  \E c \in {d \in Calls : d.family = "attn"} :
    Starts(c, [Q |-> <<>>, K |-> <<>>, V |-> <<>>, s |-> <<>>,
               out |-> [e \in 0 .. c.F2 * c.NH * c.HD - 1 |-> Stale]])

AttnClear ==
  /\ call.family = "attn" /\ stage = "packed"
  /\ LET Of(n, v) == [h \in Heads |-> [i \in 0 .. n - 1 |-> v]] IN
     Continues("loaded", 0,
       [mem EXCEPT !.Q = Of(call.F2 * HD_K, Stale), !.K = Of(call.F2 * HD_K, Stale),
                   !.V = Of(call.F2 * HD_V, 0)])

\* Four rows of the projection a time: rows of Q, columns of K, depths of V.
AttnPack ==
  /\ call.family = "attn" /\ stage = "loaded" /\ 4 * pos < call.F2
  /\ LET rows == 4 * pos .. 4 * pos + 3
         Padded(h, m, t, from) == IF t < call.HD THEN Qkv(h, m, from + t) ELSE 0
     IN  Continues("loaded", pos + 1,
           [mem EXCEPT
              !.Q = [h \in Heads |-> [i \in DOMAIN @[h] |->
                       IF i \div HD_K \in rows THEN Padded(h, i \div HD_K, i % HD_K, 0) ELSE @[h][i]]],
              !.K = [h \in Heads |-> [i \in DOMAIN @[h] |->
                       IF ColAt(HD_K, i) \in rows THEN Padded(h, ColAt(HD_K, i), KAt(HD_K, i), call.HD)
                       ELSE @[h][i]]],
              !.V = [h \in Heads |-> [i \in DOMAIN @[h] |->
                       IF KAt(call.F2, i) \in rows /\ ColAt(call.F2, i) < call.HD
                       THEN Qkv(h, KAt(call.F2, i), 2 * call.HD + ColAt(call.F2, i)) ELSE @[h][i]]]])

\* Mutant: the I8MM repack of V is forgotten.
AttnRepack_keysOnly ==
  /\ call.family = "attn" /\ stage = "loaded" /\ 4 * pos = call.F2
  /\ LET i8mm == call.tier = "i8mm"
         heads(x, on, N, K) == [h \in Heads |-> IF on THEN RepackI8mm(x[h], N, K) ELSE x[h]]
     IN  Continues("loop", 0, [mem EXCEPT !.K = heads(@, i8mm /\ (call.HD % 8) = 0, call.F2, call.HD)])

\* On the I8MM tier K and V are repacked; that of K asks for call.HD.
AttnRepack ==
  /\ call.family = "attn" /\ stage = "loaded" /\ 4 * pos = call.F2
  /\ LET i8mm == call.tier = "i8mm"
         heads(x, on, N, K) == [h \in Heads |-> IF on THEN RepackI8mm(x[h], N, K) ELSE x[h]]
     IN  Continues("loop", 0,
           [mem EXCEPT !.K = heads(@, i8mm /\ (call.HD % 8) = 0, call.F2, call.HD),
                       !.V = heads(@, i8mm, HD_V, call.F2)])

\* gemm_int32 of the tier, whose kernels Kernels checks against this product;
\* the I8MM kernel reads repacked weights when K is a multiple of 8.
GemmInt32(a, w, K, m, n) ==
  SumTo(K, [k \in Nat |-> a[m * K + k] *
    IF call.tier = "i8mm" /\ (K % 8) = 0
    THEN w[(n \div NR) * BlockBytes(K) + 64 * (k \div 8) + 8 * (n % NR) + (k % 8)]
    ELSE PackedAt(w, K, n, k)])

\* Q K^T of head pos, then its softmax quantised.
AttnScores ==
  /\ call.family = "attn" /\ stage = "loop" /\ pos < call.NH
  /\ LET c32 == [m \in 0 .. call.F2 - 1 |-> [n \in 0 .. call.F2 - 1 |->
                   GemmInt32(mem.Q[pos], mem.K[pos], HD_K, m, n)]]
     IN  Continues("ready", pos,
           [mem EXCEPT !.s = [e \in 0 .. call.F2 * call.F2 - 1 |->
                                Softmax(c32[e \div call.F2], e % call.F2)]])

\* S V of head pos; the first call.HD columns are the head's part of each row.
AttnMix ==
  /\ call.family = "attn" /\ stage = "ready"
  /\ LET C == call.NH * call.HD IN
     Continues(IF pos + 1 < call.NH THEN "loop" ELSE "done", pos + 1,
       [mem EXCEPT !.out = [e \in DOMAIN @ |->
          IF (e % C) \div call.HD = pos
          THEN GemmInt32(mem.s, mem.V[pos], call.F2, e \div C, e % call.HD) ELSE @[e]]])

AttnNext == AttnStart \/ AttnClear \/ AttnPack \/ AttnRepack \/ AttnScores \/ AttnMix
===============================================================================
