---------------------------- MODULE FramePipeline ----------------------------
(***************************************************************************)
(* fe_process_frame (fe_engine.c) over the buffers of FeState              *)
(* (fe_state.h): which call reads and writes which buffer, and which       *)
(* buffers share memory.  Five pairs are unions "never live at once", one  *)
(* int8 scratch serves every GEMM, and nothing but three fields may carry  *)
(* a frame into the next.                                                  *)
(*                                                                         *)
(* A buffer holds the frames its contents depend on and the frame that it  *)
(* was written in; a write leaves Clobbered in what shares its memory.     *)
(***************************************************************************)
EXTENDS Integers, Sequences

CONSTANTS
  EncBlocks, \* FE_ENC_BLOCKS = FE_DEC_BLOCKS (3)
  RfBlocks,  \* FE_RF_BLOCKS (4)
  Heads,     \* FE_NUM_HEADS (4)
  MaxFrames  \* bound: frames processed

ASSUME BlocksAssumption == {EncBlocks, RfBlocks, Heads} \subseteq Nat \ {0}
ASSUME MaxFramesAssumption == MaxFrames \in Nat

-----------------------------------------------------------------------------
(* FeState *)

Buf(name) == <<name, 0>>
Skip(i) == <<"enc_skip", i>>
GruH(b) == <<"gru_h", b>>
AttnOut(h) == <<"attn_out", h>>    \* the columns of attn_out that head h fills

Carried == {Buf("cache_stft"), Buf("cache_istft")} \cup {GruH(b) : b \in 1 .. RfBlocks}

Attn == {"attn_qkv", "attn_scores", "attn_out", "qkv_q", "attn_Qq", "attn_Kpq",
         "attn_Vpq", "attn_scoresq"}
Wino == {"wino_U", "wino_dq"}

Buffers ==
  Carried \cup {Skip(i) : i \in 0 .. EncBlocks} \cup {AttnOut(h) : h \in 1 .. Heads}
  \cup {Buf(n) : n \in {"in", "out", "fft_buf", "mask_cf", "spec_cf", "spec_out", "buf_a",
                        "rf_b", "buf_b", "rf_lin_T", "qgemm_aq", "qgemm_c32", "gru_h_fp32"}
                       \cup Wino \cup (Attn \ {"attn_out"})}

\* Mutant: the spectrum is put into a union of the working buffers as well.
Unions_spectrum ==
  {<<"fft_buf", "mask_cf">>, <<"buf_a", "rf_b">>, <<"buf_b", "rf_lin_T">>,
   <<"spec_cf", "buf_a">>} \cup (Attn \X Wino)

Unions ==
  {<<"fft_buf", "mask_cf">>, <<"buf_a", "rf_b">>, <<"buf_b", "rf_lin_T">>} \cup (Attn \X Wino)

SharesMemory(b, c) == <<b[1], c[1]>> \in Unions \/ <<c[1], b[1]>> \in Unions

-----------------------------------------------------------------------------
(* The calls of fe_process_frame, stage by stage *)

Call(name, reads, writes) == [name |-> name, reads |-> reads, writes |-> writes]

Named(name, reads, writes) ==
  Call(name, {Buf(n) : n \in reads}, {Buf(n) : n \in writes})

\* A packed int8 GEMM: the input is quantised into the shared scratch, and only
\* then is the output written, over onto if it accumulates.
Gemm(name, from, onto, to) ==
  <<Call(name, from, {Buf("qgemm_aq")}),
    Call(name, {Buf("qgemm_aq")} \cup onto, to)>>

\* Winograd F(2,3): the input transform, four inner GEMMs, the fused epilogue.
WinoInput(name, from) == Call(name, from, {Buf("wino_dq")})
WinoEpilogue(name, to) == Call(name, {Buf("wino_U")}, to)

Winograd(name, from, to) ==
  <<WinoInput(name, from), Named(name, {"wino_dq"}, {"wino_U"}), WinoEpilogue(name, to)>>

Stft ==
  <<Named("frame", {"cache_stft", "in"}, {"fft_buf"}),
    Named("slide", {"fft_buf"}, {"cache_stft"}),
    Named("window", {"fft_buf"}, {"fft_buf"}),
    Named("rfft", {"fft_buf"}, {"spec_cf"})>>

StridedConv == Named("strided", {"spec_cf"}, {"buf_a"})

EncPre ==
  <<StridedConv,
    Call("silu", {Buf("buf_a")}, {Buf("buf_a"), Skip(0)})>>

\* Ping-pong between buf_a and buf_b.
Current(i) == IF i % 2 = 1 THEN Buf("buf_a") ELSE Buf("buf_b")

\* Mutant: each block stores the skip connection of the one before.
EncBlock_skipOff(i) == Winograd("enc_k3", {Current(i)}, {Current(i + 1), Skip(i - 1)})
EncBlock(i) == Winograd("enc_k3", {Current(i)}, {Current(i + 1), Skip(i)})

RfPre ==
  Gemm("rf_pre_lin", {Skip(EncBlocks)}, {}, {Buf("rf_lin_T")})
  \o Gemm("rf_pre_conv", {Buf("rf_lin_T")}, {}, {Buf("rf_b")})

\* The GRU writes its new state over the old and, for rnn_fc, to the stack.
GruStep(b) ==
  Gemm("gru", {Buf("rf_b"), GruH(b)}, {GruH(b)}, {GruH(b), Buf("gru_h_fp32")})

AttnHead(h) ==
  <<Named("qk", {"attn_Qq", "attn_Kpq"}, {"qgemm_c32"}),
    Named("softmax", {"qgemm_c32"}, {"attn_scores", "attn_scoresq"}),
    Named("sv", {"attn_scoresq", "attn_Vpq"}, {"qgemm_c32"}),
    Call("dequant", {Buf("qgemm_c32")}, {AttnOut(h)})>>

\* The projection is made in fp32 first, then quantised with the scale it came to.
Qkv ==
  Gemm("qkv", {Buf("rf_b")}, {}, {Buf("attn_qkv")})
  \o <<Named("qkv_int8", {"attn_qkv"}, {"qkv_q"})>>

PackHeads == Named("pack", {"qkv_q"}, {"attn_Qq", "attn_Kpq", "attn_Vpq"})

\* The input projection onto the heads, and back onto the residual.
MhsaIn == Qkv \o <<PackHeads>>
MhsaOut == Gemm("attn_fc", {AttnOut(h) : h \in 1 .. Heads}, {Buf("rf_b")}, {Buf("rf_b")})

RnnFc == Gemm("rnn_fc", {Buf("gru_h_fp32")}, {Buf("rf_b")}, {Buf("rf_b")})
RfGru(b) == GruStep(b) \o RnnFc

AddPe == <<Named("pe", {"rf_b"}, {"rf_b"})>>

RfPost ==
  Gemm("rf_post_lin", {Buf("rf_b")}, {}, {Buf("rf_lin_T")})
  \o Gemm("rf_post_conv", {Buf("rf_lin_T")}, {}, {Buf("buf_a")})

DecBlock(i) ==
  Gemm("dec_1x1", {Buf("buf_a"), Skip(EncBlocks + 1 - i)}, {}, {Buf("buf_b")})
  \o Winograd("dec_k3", {Buf("buf_b")}, {Buf("buf_a")})

ConvTranspose == Named("convT", {"buf_b"}, {"mask_cf"})
MaskMultiply == Named("mask", {"spec_cf", "mask_cf"}, {"spec_out"})

DecPost ==
  Gemm("dec_post_1x1", {Buf("buf_a"), Skip(0)}, {}, {Buf("buf_b")})
  \o <<ConvTranspose, MaskMultiply>>

Istft ==
  <<Named("irfft", {"spec_out"}, {"fft_buf"}),
    Named("overlap_add", {"fft_buf", "cache_istft"}, {"fft_buf"}),
    Named("emit", {"fft_buf"}, {"out"}),
    Named("shift", {"fft_buf"}, {"cache_istft"})>>

-----------------------------------------------------------------------------

VARIABLES
  stage,  \* where fe_process_frame is; "idle" between two frames
  blk,    \* the block of a loop over encoder, RNNFormer or decoder blocks, else 0
  head,   \* the attention head, else 0
  call,   \* the next call of the stage
  holds,  \* buffer -> what it holds
  fed,    \* frames handed to fe_process_frame since fe_state_create
  base    \* frames fed before the last fe_reset

control == <<stage, blk, head, call>>
vars == <<stage, blk, head, call, holds, fed, base>>

\* The calls of one pass through a stage.
Calls ==
  CASE stage = "idle"     -> <<>>
    [] stage = "stft"     -> Stft
    [] stage = "enc_pre"  -> EncPre
    [] stage = "enc"      -> EncBlock(blk)
    [] stage = "rf_pre"   -> RfPre
    [] stage = "gru"      -> RfGru(blk)
    [] stage = "pe"       -> AddPe
    [] stage = "mhsa_in"  -> MhsaIn
    [] stage = "head"     -> AttnHead(head)
    [] stage = "mhsa_out" -> MhsaOut
    [] stage = "rf_post"  -> RfPost
    [] stage = "dec"      -> DecBlock(blk)
    [] stage = "dec_post" -> DecPost
    [] stage = "istft"    -> Istft

GoTo(s, b, h) == stage' = s /\ blk' = b /\ head' = h /\ call' = 1

\* The order of the stages, and the three loops over blocks and the one over heads.
NextStage ==
  \/ stage = "stft" /\ GoTo("enc_pre", 0, 0)
  \/ stage = "enc_pre" /\ GoTo("enc", 1, 0)
  \/ stage = "enc" /\ blk < EncBlocks /\ GoTo("enc", blk + 1, 0)
  \/ stage = "enc" /\ blk = EncBlocks /\ GoTo("rf_pre", 0, 0)
  \/ stage = "rf_pre" /\ GoTo("gru", 1, 0)
  \/ stage = "gru" /\ blk = 1 /\ GoTo("pe", 1, 0)
  \/ stage = "gru" /\ blk # 1 /\ GoTo("mhsa_in", blk, 0)
  \/ stage = "pe" /\ GoTo("mhsa_in", blk, 0)
  \/ stage = "mhsa_in" /\ GoTo("head", blk, 1)
  \/ stage = "head" /\ head < Heads /\ GoTo("head", blk, head + 1)
  \/ stage = "head" /\ head = Heads /\ GoTo("mhsa_out", blk, 0)
  \/ stage = "mhsa_out" /\ blk < RfBlocks /\ GoTo("gru", blk + 1, 0)
  \/ stage = "mhsa_out" /\ blk = RfBlocks /\ GoTo("rf_post", 0, 0)
  \/ stage = "rf_post" /\ GoTo("dec", 1, 0)
  \/ stage = "dec" /\ blk < EncBlocks /\ GoTo("dec", blk + 1, 0)
  \/ stage = "dec" /\ blk = EncBlocks /\ GoTo("dec_post", 0, 0)
  \/ stage = "dec_post" /\ GoTo("istft", 0, 0)
  \/ stage = "istft" /\ GoTo("idle", 0, 0)

NextCall == call < Len(Calls) /\ call' = call + 1 /\ UNCHANGED <<stage, blk, head>>

Blank == [frames |-> {}, at |-> 0]
Clobbered == [frames |-> {}, at |-> -1]

Init ==
  /\ stage = "idle" /\ blk = 0 /\ head = 0 /\ call = 1
  /\ fed = 0 /\ base = 0
  /\ holds = [b \in Buffers |-> Blank]

Begin ==
  /\ stage = "idle" /\ fed < MaxFrames
  /\ GoTo("stft", 0, 0) /\ fed' = fed + 1
  /\ holds' = [holds EXCEPT ![Buf("in")] = [frames |-> {fed'}, at |-> fed']]
  /\ UNCHANGED base

\* Mutant: a value is taken for one of the next frame.
Written_early(c) == [frames |-> UNION {holds[b].frames : b \in c.reads}, at |-> fed + 1]
Written(c) == [frames |-> UNION {holds[b].frames : b \in c.reads}, at |-> fed]

Execute(c) ==
  holds' = [b \in Buffers |->
              IF b \in c.writes THEN Written(c)
              ELSE IF \E w \in c.writes : SharesMemory(b, w) THEN Clobbered
              ELSE holds[b]]

Step ==
  /\ stage # "idle"
  /\ Execute(Calls[call])
  /\ NextCall \/ (call = Len(Calls) /\ NextStage)
  /\ UNCHANGED <<fed, base>>

\* fe_reset zeroes the fields that carry a stream, and no other.
\* Mutant: the hidden states stay.
Zeroed_cachesOnly == {Buf("cache_stft"), Buf("cache_istft")}
Zeroed == Carried

Reset ==
  /\ stage = "idle"
  /\ holds' = [b \in Buffers |-> IF b \in Zeroed THEN [Blank EXCEPT !.at = fed] ELSE holds[b]]
  /\ base' = fed
  /\ UNCHANGED <<control, fed>>

Next == Begin \/ Step \/ Reset

Spec == Init /\ [][Next]_vars

-----------------------------------------------------------------------------
(* Properties *)

Stages ==
  {"idle", "stft", "enc_pre", "enc", "rf_pre", "gru", "pe", "mhsa_in", "head", "mhsa_out",
   "rf_post", "dec", "dec_post", "istft"}

TypeOK ==
  /\ stage \in Stages
  /\ blk \in (0 .. EncBlocks) \cup (0 .. RfBlocks) /\ head \in 0 .. Heads
  /\ call \in {1} \cup 1 .. Len(Calls)
  /\ holds \in [Buffers -> [frames : SUBSET (1 .. MaxFrames), at : -1 .. MaxFrames]]
  /\ fed \in 0 .. MaxFrames /\ base \in 0 .. fed

Reading == IF stage = "idle" THEN {} ELSE Calls[call].reads
Writing == IF stage = "idle" THEN {} ELSE Calls[call].writes

\* "MHSA and Winograd scratch share the same union (never live at once)", "the RF
\* stage and the enc/dec stage never overlap", "disjoint -> union": no call finds
\* its input overwritten through another name of the same memory, by an earlier
\* call or by its own output.
ReadsIntact ==
  \A b \in Reading :
    /\ holds[b] # Clobbered
    /\ \A c \in Writing : ~SharesMemory(b, c)

\* No call reads what an earlier frame left in a working buffer: every skip
\* connection, head and scratch is written anew in each frame before it is read.
ReadsThisFrame == \A b \in Reading \ Carried : holds[b].at = fed

\* Between two frames, what was returned and each of the fields that fe_reset
\* zeroes depend on the frames of the current stream, all of them and no other;
\* FeEngine's ProcessFrame and ResetState rest on this.
StreamOnly ==
  stage = "idle" =>
    \A b \in Carried \cup (IF fed > base THEN {Buf("out")} ELSE {}) :
      holds[b].frames = base + 1 .. fed
=============================================================================
