----------------------------- MODULE WeightBlob -----------------------------
(***************************************************************************)
(* The walk of the weight loader (fe_weights.c): the buffers are planned   *)
(* by one list of layers, the blob is consumed by another, and the repack  *)
(* of the i8mm tier gathers its layers by a third.  A blob is its length;  *)
(* d are the dimensions of a configuration header.                         *)
(***************************************************************************)
EXTENDS KernelCall, Sequences
Ext == INSTANCE SequencesExt

BLOB_K0 == 8  \* FE_ENC_K0
BLOB_K == 3   \* FE_ENC_K

\* fe_qgemm_packed_size and fe_sgemm_packed_size / sizeof(float).
PackedSize(K, N) == K * 8 * ((N + 7) \div 8)
SgemmFloats(K, N) == K * 8 * ((N + 7) \div 8)
PreK(d) == 2 * (2 * d.stride)  \* enc_pre_K

\* A configuration header: the GRU is as wide as the channels, the k = 8 kernel
\* of the encoder is two strides long.
Dimensions(d) ==
  /\ d.C1 \in Nat /\ d.C2 \in Nat /\ d.F1 \in Nat /\ d.F2 \in Nat /\ d.enc \in Nat /\ d.rf \in Nat
  /\ d.stride \in Nat /\ d.D = d.C2 /\ BLOB_K0 = 2 * d.stride

ASSUME BlobAssumption == \A c \in Calls : c.family = "blob" => Dimensions(c.dims) /\ c.size \in Nat

\* Part 1: the shapes <<N, K>> the buffers are sized for.
PlannedBlocks(d) ==
  [i \in 1 .. d.enc |-> <<d.C1, d.C1 * BLOB_K>>] \o <<<<d.F2, d.F1>>, <<d.C2, d.C1>>>>
  \o Ext!FlattenSeq([b \in 1 .. d.rf |->
       <<<<3 * d.C2, d.C2>>, <<3 * d.C2, d.C2>>, <<d.C2, d.C2>>, <<3 * d.C2, d.C2>>, <<d.C2, d.C2>>>>])
  \o <<<<d.F1, d.F2>>, <<d.C1, d.C2>>>>
  \o Ext!FlattenSeq([i \in 1 .. d.enc |-> <<<<d.C1, 2 * d.C1>>, <<d.C1, d.C1 * BLOB_K>>>>])

\* Mutant: the last layer is not planned for.
PlannedShapes_noPost(d) == PlannedBlocks(d)

PlannedShapes(d) == PlannedBlocks(d) \o <<<<d.C1, 2 * d.C1>>>>

Plan(d) ==
  LET p == PlannedShapes(d) IN
  [q    |-> SumTo(Len(p), [i \in Nat |-> PackedSize(p[i + 1][2], p[i + 1][1])]),
   s    |-> SumTo(Len(p), [i \in Nat |-> p[i + 1][1]]),
   pre  |-> d.rf * 3 * d.D + SgemmFloats(PreK(d), d.C1),
   wino |-> 2 * d.enc * 4 * PackedSize(d.C1, d.C1),
   ws   |-> 2 * d.enc * 4 * d.C1]

\* Part 2: what is taken from the blob.  TAKE_FP32 and TAKE_INT8_LAYER; pre
\* floats of the prepack buffer are filled after it.  out and in are the
\* dimensions the layer is given, in times its kernel for a convolution.
Fp(name, n, pre) == [op |-> "fp32", name |-> name, n |-> n, pre |-> pre]
Int8(name, N, K, biased, out, in, pre) ==
  [op |-> "int8", name |-> name, N |-> N, K |-> K, biased |-> biased, out |-> out, in |-> in, pre |-> pre]

RfItems(d, b) ==
  <<Int8(<<"gru_ih", b>>, 3 * d.D, d.D, TRUE, 3 * d.D, d.D, 0),
    Int8(<<"gru_hh", b>>, 3 * d.D, d.D, TRUE, 3 * d.D, d.D, 3 * d.D),
    Int8(<<"rnn_fc", b>>, d.C2, d.C2, TRUE, d.C2, d.C2, 0),
    Int8(<<"qkv", b>>, 3 * d.C2, d.C2, FALSE, 3 * d.C2, d.C2, 0),
    Int8(<<"attn_fc", b>>, d.C2, d.C2, TRUE, d.C2, d.C2, 0)>>
  \o IF b = 0 THEN <<Fp(<<"pe", 0>>, d.F2 * d.C2, 0)>> ELSE <<>>

DecItems(d, i) ==
  <<Int8(<<"dec_1x1", i>>, d.C1, 2 * d.C1, TRUE, d.C1, 2 * d.C1 * 1, 0),
    Int8(<<"dec_3x3", i>>, d.C1, d.C1 * BLOB_K, TRUE, d.C1, d.C1 * BLOB_K, 0)>>

FileItems(d) ==
  <<Fp(<<"enc_pre", 0>>, d.C1 * (2 * d.stride) * (BLOB_K0 \div d.stride), 0),
    Fp(<<"enc_pre bias", 0>>, d.C1, SgemmFloats(PreK(d), d.C1))>>
  \o [i \in 1 .. d.enc |-> Int8(<<"enc", i - 1>>, d.C1, d.C1 * BLOB_K, TRUE, d.C1, d.C1 * BLOB_K, 0)]
  \o <<Int8(<<"rf_pre_lin", 0>>, d.F2, d.F1, FALSE, d.F2, d.F1, 0),
       Int8(<<"rf_pre_conv", 0>>, d.C2, d.C1, TRUE, d.C2, d.C1 * 1, 0)>>
  \o Ext!FlattenSeq([b \in 1 .. d.rf |-> RfItems(d, b - 1)])
  \o <<Int8(<<"rf_post_lin", 0>>, d.F1, d.F2, FALSE, d.F1, d.F2, 0),
       Int8(<<"rf_post_conv", 0>>, d.C1, d.C2, TRUE, d.C1, d.C2 * 1, 0)>>
  \o Ext!FlattenSeq([i \in 1 .. d.enc |-> DecItems(d, i - 1)])
  \o <<Int8(<<"dec_post_1x1", 0>>, d.C1, 2 * d.C1, TRUE, d.C1, 2 * d.C1 * 1, 0),
       Fp(<<"dec_post_up", 0>>, d.C1 * 2 * BLOB_K0, 0),
       Fp(<<"dec_post_up bias", 0>>, 2, 0)>>

ItemBytes(it) ==
  IF it.op = "fp32" THEN 4 * it.n
  ELSE PackedSize(it.K, it.N) + 4 * it.N + (IF it.biased THEN 4 * it.N ELSE 0)

\* fe_load_weights refuses a blob without its header, fe_load_weights_int8
\* allocates what it planned or fails with -3.
BlobStart ==
  \E c \in {d \in Calls : d.family = "blob"}, allocated \in BOOLEAN :
    Starts(c, [plan |-> Plan(c.dims), items |-> FileItems(c.dims),
               off |-> 12, q |-> 0, s |-> 0, pre |-> 0, wino |-> 0, ws |-> 0, layers |-> <<>>, repacked |-> <<>>,
               result |-> IF c.size < 12 \/ ~c.magic THEN -1 ELSE IF allocated THEN 0 ELSE -3])

BlobRefused ==
  /\ call.family = "blob" /\ stage = "packed" /\ mem.result # 0
  /\ Continues("done", 0, mem)

BlobTake ==
  /\ call.family = "blob" /\ stage \in {"packed", "loop"} /\ mem.result = 0
  /\ pos < Len(mem.items)
  /\ LET it == mem.items[pos + 1] IN
     IF mem.off + ItemBytes(it) > call.size THEN Continues("done", pos, [mem EXCEPT !.result = -1])
     ELSE Continues("loop", pos + 1,
            [mem EXCEPT !.off = @ + ItemBytes(it), !.pre = @ + it.pre,
                        !.q = IF it.op = "int8" THEN @ + PackedSize(it.K, it.N) ELSE @,
                        !.s = IF it.op = "int8" THEN @ + it.N ELSE @,
                        !.layers = IF it.op = "int8" THEN Append(@, it) ELSE @])

K3(d) == [i \in 1 .. d.enc |-> <<"enc", i - 1>>] \o [i \in 1 .. d.enc |-> <<"dec_3x3", i - 1>>]

\* The whole blob is consumed, or it is refused; four components per k = 3
\* layer, of its Co and Ci, are derived into the Winograd buffers when scratch
\* memory for that can be had.
BlobEnd ==
  /\ call.family = "blob" /\ stage = "loop" /\ pos = Len(mem.items)
  /\ \E scratch \in BOOLEAN :
     IF mem.off # call.size \/ ~scratch THEN Continues("done", pos, [mem EXCEPT !.result = -1])
     ELSE LET d == call.dims IN
          Continues("ready", pos, [mem EXCEPT !.wino = Len(K3(d)) * 4 * PackedSize(d.C1, d.C1),
                                              !.ws = Len(K3(d)) * 4 * d.C1])

\* fe_weights_finalize_for_tier on the i8mm tier: every linear, both matrices
\* of every GRU and every convolution with int8 weights, by their dimensions;
\* the components of the k = 3 layers too, by the list they were derived by.
Linears(d) ==
  Ext!FlattenSeq([b \in 1 .. d.rf |-> <<<<"rnn_fc", b - 1>>, <<"attn_fc", b - 1>>, <<"qkv", b - 1>>>>])
  \o <<<<"rf_pre_lin", 0>>, <<"rf_post_lin", 0>>>>
Grus(d) == Ext!FlattenSeq([b \in 1 .. d.rf |-> <<<<"gru_ih", b - 1>>, <<"gru_hh", b - 1>>>>])
Convs(d) ==
  [i \in 1 .. d.enc |-> <<"enc", i - 1>>] \o <<<<"rf_pre_conv", 0>>, <<"rf_post_conv", 0>>>>
  \o [i \in 1 .. d.enc |-> <<"dec_1x1", i - 1>>] \o [i \in 1 .. d.enc |-> <<"dec_3x3", i - 1>>]
  \o <<<<"dec_post_1x1", 0>>>>

BlobFinalize ==
  /\ call.family = "blob" /\ stage = "ready"
  /\ Continues("done", pos,
       [mem EXCEPT !.repacked = Linears(call.dims) \o Grus(call.dims) \o Convs(call.dims)])

BlobNext == BlobStart \/ BlobRefused \/ BlobTake \/ BlobEnd \/ BlobFinalize
===============================================================================
