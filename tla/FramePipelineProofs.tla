------------------------- MODULE FramePipelineProofs -------------------------
(***************************************************************************)
(* Proofs about FramePipeline for every number of encoder, RNNFormer and   *)
(* decoder blocks, of heads and of frames: each call finds in its inputs   *)
(* what the current frame put there, whatever else uses their memory.      *)
(***************************************************************************)
EXTENDS FramePipeline, TLAPS

(* What the calls of each stage find that is of the current frame, call after *)
(* call, and at the end what the stage leaves.                                *)

Kept(n) == {Buf("cache_stft"), Buf("spec_cf")} \cup {Skip(i) : i \in 0 .. n}
GrusTo(n) == {GruH(b) : b \in 1 .. n}
Residual(b) == Kept(EncBlocks) \cup GrusTo(b) \cup {Buf("rf_b")}
PackedTo(b, h) ==
  Residual(b) \cup {Buf("attn_Qq"), Buf("attn_Kpq"), Buf("attn_Vpq")}
  \cup {AttnOut(j) : j \in 1 .. h}
Post == Kept(EncBlocks) \cup GrusTo(RfBlocks)
Final == {Buf("cache_stft")} \cup GrusTo(RfBlocks)

FoundStft ==
  <<{Buf("in")}, {Buf("fft_buf")}, {Buf("fft_buf"), Buf("cache_stft")},
    {Buf("fft_buf"), Buf("cache_stft")}, Kept(-1)>>

FoundEncPre == <<Kept(-1), Kept(-1) \cup {Buf("buf_a")}, Kept(0) \cup {Buf("buf_a")}>>

FoundEnc(i) ==
  <<Kept(i - 1) \cup {Current(i)}, Kept(i - 1) \cup {Buf("wino_dq")},
    Kept(i - 1) \cup {Buf("wino_U")}, Kept(i) \cup {Current(i + 1)}>>

FoundRfPre ==
  <<Kept(EncBlocks), Kept(EncBlocks) \cup {Buf("qgemm_aq")},
    Kept(EncBlocks) \cup {Buf("rf_lin_T")}, Kept(EncBlocks) \cup {Buf("qgemm_aq")},
    Residual(0)>>

FoundGru(b) ==
  <<Residual(b - 1), Residual(b - 1) \cup {Buf("qgemm_aq")},
    Residual(b) \cup {Buf("gru_h_fp32")}, Residual(b) \cup {Buf("qgemm_aq")}, Residual(b)>>

FoundPe(b) == <<Residual(b), Residual(b)>>

FoundMhsaIn(b) ==
  <<Residual(b), Residual(b) \cup {Buf("qgemm_aq")}, Residual(b) \cup {Buf("attn_qkv")},
    Residual(b) \cup {Buf("qkv_q")}, PackedTo(b, 0)>>

FoundHead(b, h) ==
  <<PackedTo(b, h - 1), PackedTo(b, h - 1) \cup {Buf("qgemm_c32")},
    PackedTo(b, h - 1) \cup {Buf("attn_scoresq")},
    PackedTo(b, h - 1) \cup {Buf("qgemm_c32")}, PackedTo(b, h)>>

FoundMhsaOut(b) == <<PackedTo(b, Heads), Residual(b) \cup {Buf("qgemm_aq")}, Residual(b)>>

FoundRfPost ==
  <<Post \cup {Buf("rf_b")}, Post \cup {Buf("qgemm_aq")}, Post \cup {Buf("rf_lin_T")},
    Post \cup {Buf("qgemm_aq")}, Post \cup {Buf("buf_a")}>>

FoundDec ==
  <<Post \cup {Buf("buf_a")}, Post \cup {Buf("qgemm_aq")}, Post \cup {Buf("buf_b")},
    Post \cup {Buf("wino_dq")}, Post \cup {Buf("wino_U")}, Post \cup {Buf("buf_a")}>>

FoundDecPost ==
  <<Post \cup {Buf("buf_a")}, Post \cup {Buf("qgemm_aq")}, Post \cup {Buf("buf_b")},
    Post \cup {Buf("mask_cf")}, Final \cup {Buf("spec_out")}>>

FoundIstft ==
  <<Final \cup {Buf("spec_out")}, Final \cup {Buf("fft_buf")}, Final \cup {Buf("fft_buf")},
    Final \cup {Buf("fft_buf"), Buf("out")}, Carried \cup {Buf("out")}>>

\* A call that finds before in its inputs leaves after.
Flow(c, before, after) ==
  /\ before \cup after \cup c.reads \cup c.writes \subseteq Buffers
  /\ c.reads \subseteq before \cup Carried
  /\ c.reads = {Buf("cache_stft"), Buf("in")} \/ \E b \in c.reads \cap before : b # Buf("in")
  /\ Buf("in") \notin after
  /\ \A b \in c.reads, w \in c.writes : ~SharesMemory(b, w)
  /\ \A b \in after \ c.writes : b \in before /\ \A w \in c.writes : ~SharesMemory(b, w)
  /\ Carried \cap (before \cup c.writes) \subseteq after

\* The calls of a stage, one after the other.
Flows(calls, found) ==
  Len(found) = Len(calls) + 1 /\ \A k \in 1 .. Len(calls) : Flow(calls[k], found[k], found[k + 1])

-----------------------------------------------------------------------------
(* What shares memory with what *)

\* The buffers with memory of their own.
Alone ==
  {"cache_stft", "cache_istft", "gru_h", "enc_skip", "in", "out", "spec_cf", "spec_out",
   "qgemm_aq", "qgemm_c32", "gru_h_fp32"}

\* No union takes in a buffer with memory of its own.
LEMMA AloneApart ==
  ASSUME NEW b, NEW w, b[1] \in Alone \/ w[1] \in Alone
  PROVE  ~SharesMemory(b, w)
BY DEF Alone, SharesMemory, Unions, Attn, Wino

\* rf_b shares with buf_a alone.
LEMMA RfApart == ASSUME NEW b, NEW w, b[1] = "rf_b", w[1] # "buf_a"  PROVE ~SharesMemory(b, w)
BY DEF SharesMemory, Unions, Attn, Wino

\* The attention scratch shares with the Winograd scratch alone.
LEMMA AttnApart == ASSUME NEW b, NEW w, b[1] \in Attn, w[1] \notin Wino  PROVE ~SharesMemory(b, w)
BY DEF SharesMemory, Unions, Attn, Wino

\* The sets of buffers that a stage keeps: buffers of FeState, none of them in,
\* and nothing that the stage writes shares their memory.
LEMMA KeptBuffers ==
  ASSUME NEW n \in -1 .. EncBlocks
  PROVE  /\ Kept(n) \subseteq Buffers
         /\ Buf("in") \notin Kept(n)
         /\ \A b \in Kept(n) : \A w : ~SharesMemory(b, w)
<1>1. /\ {Buf("cache_stft"), Buf("spec_cf")} \subseteq Buffers
      /\ \A b \in {Buf("cache_stft"), Buf("spec_cf")} : b # Buf("in") /\ b[1] \in Alone
  BY DEF Buf, Buffers, Carried, Alone
<1>2. \A i \in 0 .. n : Skip(i) \in Buffers /\ Skip(i) # Buf("in") /\ Skip(i)[1] \in Alone
  <2>1. \A i \in 0 .. n : i \in 0 .. EncBlocks  BY BlocksAssumption
  <2> QED  BY <2>1 DEF Skip, Buf, Buffers, Alone
<1>3. \A b \in Kept(n) : b \in Buffers /\ b # Buf("in") /\ b[1] \in Alone
  BY <1>1, <1>2 DEF Kept
<1> QED  BY <1>3, AloneApart

\* The hidden states up to block n.
LEMMA GruBuffers ==
  ASSUME NEW n \in 0 .. RfBlocks
  PROVE  /\ GrusTo(n) \subseteq Buffers
         /\ Buf("in") \notin GrusTo(n)
         /\ \A b \in GrusTo(n) : \A w : ~SharesMemory(b, w)
<1>1. \A b \in GrusTo(n) : b \in Buffers /\ b # Buf("in") /\ b[1] \in Alone
  BY BlocksAssumption DEF GrusTo, Buf, GruH, Buffers, Carried, Alone
<1> QED  BY <1>1, AloneApart

\* What block b keeps: the RNNFormer stage writes no buffer that shares with it.
LEMMA ResidualBuffers ==
  ASSUME NEW b \in 0 .. RfBlocks
  PROVE  /\ Residual(b) \subseteq Buffers
         /\ Buf("in") \notin Residual(b)
         /\ \A r \in Residual(b) : \A w : w[1] # "buf_a" => ~SharesMemory(r, w)
<1>1. EncBlocks \in -1 .. EncBlocks  BY BlocksAssumption
<1>2. Buf("rf_b") \in Buffers /\ Buf("rf_b") # Buf("in") /\ Buf("rf_b")[1] = "rf_b"
  BY DEF Buf, Buffers
<1> QED  BY <1>1, <1>2, KeptBuffers, GruBuffers, RfApart DEF Residual

\* What the heads of block b keep, the outputs of h heads among it.
LEMMA PackedBuffers ==
  ASSUME NEW b \in 0 .. RfBlocks, NEW h \in 0 .. Heads
  PROVE  /\ PackedTo(b, h) \subseteq Buffers
         /\ Buf("in") \notin PackedTo(b, h)
         /\ \A r \in PackedTo(b, h) : \A w : w[1] # "buf_a" /\ w[1] \notin Wino => ~SharesMemory(r, w)
<1> DEFINE new == {Buf("attn_Qq"), Buf("attn_Kpq"), Buf("attn_Vpq")}
                    \cup {AttnOut(j) : j \in 1 .. h}
<1>1. \A r \in new : r \in Buffers /\ r # Buf("in") /\ r[1] \in Attn
  BY BlocksAssumption DEF Buf, AttnOut, Buffers, Attn
<1> HIDE DEF new
<1>2. PackedTo(b, h) = Residual(b) \cup new  BY DEF PackedTo, new
<1> QED  BY <1>1, <1>2, ResidualBuffers, AttnApart

\* What the decoder, and then the inverse transform, keeps.
LEMMA PostBuffers ==
  /\ Post \cup Final \subseteq Buffers
  /\ Buf("in") \notin Post \cup Final
  /\ \A b \in Post \cup Final : \A w : ~SharesMemory(b, w)
<1>1. EncBlocks \in -1 .. EncBlocks /\ RfBlocks \in 0 .. RfBlocks /\ Final \subseteq Post
  BY BlocksAssumption DEF Final, Post, Kept
<1> QED  BY <1>1, KeptBuffers, GruBuffers DEF Post

\* A call that keeps some of what it finds and writes the rest of what it leaves.
LEMMA CallFlow ==
  ASSUME NEW c, NEW kept, NEW before, NEW after,
         before \cup c.reads \cup c.writes \subseteq Buffers,
         kept \subseteq before, Carried \cap before \subseteq kept,
         c.reads \subseteq before \cup Carried,
         \E b \in c.reads \cap before : b # Buf("in"),
         \A b \in c.reads \cup kept, w \in c.writes : ~SharesMemory(b, w),
         Buf("in") \notin after,
         after \subseteq kept \cup c.writes, Carried \cap (kept \cup c.writes) \subseteq after
  PROVE  Flow(c, before, after)
BY DEF Flow

\* A GEMM on the shared int8 scratch.
LEMMA GemmFlow ==
  ASSUME NEW name, NEW from, NEW onto, NEW to, NEW kept, NEW before, NEW after,
         before \cup from \cup onto \cup to \subseteq Buffers,
         kept \subseteq before, Carried \cap before \subseteq kept,
         from \subseteq before \cup Carried,
         \E b \in from \cap before : b # Buf("in"),
         onto \subseteq kept \cup Carried,
         \A b \in onto \cup kept, w \in to : ~SharesMemory(b, w),
         Buf("in") \notin kept \cup after,
         after \subseteq kept \cup to, Carried \cap (kept \cup to) \subseteq after
  PROVE  /\ Flow(Gemm(name, from, onto, to)[1], before, kept \cup {Buf("qgemm_aq")})
         /\ Flow(Gemm(name, from, onto, to)[2], kept \cup {Buf("qgemm_aq")}, after)
<1> DEFINE aq == Buf("qgemm_aq")
           quantise == Call(name, from, {aq})
           multiply == Call(name, {aq} \cup onto, to)
<1>1. Gemm(name, from, onto, to)[1] = quantise /\ Gemm(name, from, onto, to)[2] = multiply
  BY DEF Gemm
<1>2. /\ quantise.reads = from /\ quantise.writes = {aq}
      /\ multiply.reads = {aq} \cup onto /\ multiply.writes = to
  BY DEF Call
<1>3. aq \in Buffers /\ aq \notin Carried /\ aq # Buf("in") /\ aq[1] \in Alone
  BY DEF Buf, Buffers, Carried, GruH, Alone
<1> HIDE DEF aq, quantise, multiply
<1>4. \A w : ~SharesMemory(aq, w) /\ ~SharesMemory(w, aq)  BY <1>3, AloneApart
<1>5. Flow(quantise, before, kept \cup {aq})  BY <1>2, <1>3, <1>4, CallFlow
<1>6. Flow(multiply, kept \cup {aq}, after)
  <2> DEFINE found == kept \cup {aq}
  <2>1. /\ found \cup multiply.reads \cup multiply.writes \subseteq Buffers
        /\ kept \subseteq found /\ Carried \cap found \subseteq kept
        /\ multiply.reads \subseteq found \cup Carried
        /\ \E b \in multiply.reads \cap found : b # Buf("in")
    BY <1>2, <1>3
  <2>2. \A b \in multiply.reads \cup kept, w \in multiply.writes : ~SharesMemory(b, w)
    BY <1>2, <1>4
  <2>3. after \subseteq kept \cup multiply.writes
        /\ Carried \cap (kept \cup multiply.writes) \subseteq after
    BY <1>2
  <2> HIDE DEF found
  <2>4. Flow(multiply, found, after)  BY <2>1, <2>2, <2>3, CallFlow
  <2> QED  BY <2>4 DEF found
<1> QED  BY <1>1, <1>5, <1>6 DEF aq

\* Winograd convolution over its two scratch buffers.
LEMMA WinogradFlow ==
  ASSUME NEW name, NEW from, NEW to, NEW kept, NEW before, NEW after,
         from = Buf("buf_a") \/ from = Buf("buf_b"),
         before \cup {from} \cup to \subseteq Buffers,
         kept \subseteq before, Carried \cap before \subseteq kept, from \in before,
         \A b \in kept : \A w : ~SharesMemory(b, w),
         \A w \in to : ~SharesMemory(Buf("wino_U"), w),
         Buf("in") \notin kept \cup after,
         after \subseteq kept \cup to, Carried \cap (kept \cup to) \subseteq after
  PROVE  /\ Flow(Winograd(name, {from}, to)[1], before, kept \cup {Buf("wino_dq")})
         /\ Flow(Winograd(name, {from}, to)[2], kept \cup {Buf("wino_dq")},
                                                kept \cup {Buf("wino_U")})
         /\ Flow(Winograd(name, {from}, to)[3], kept \cup {Buf("wino_U")}, after)
<1> DEFINE dq == Buf("wino_dq")
           u == Buf("wino_U")
           input == WinoInput(name, {from})
           inner == Named(name, {"wino_dq"}, {"wino_U"})
           epilogue == WinoEpilogue(name, to)
<1>1. /\ Winograd(name, {from}, to)[1] = input
      /\ Winograd(name, {from}, to)[2] = inner
      /\ Winograd(name, {from}, to)[3] = epilogue
  BY DEF Winograd
<1>2. /\ input.reads = {from} /\ input.writes = {dq}
      /\ inner.reads = {dq} /\ inner.writes = {u}
      /\ epilogue.reads = {u} /\ epilogue.writes = to
  BY DEF WinoInput, WinoEpilogue, Named, Call
<1>3. /\ dq \in Buffers /\ dq \notin Carried /\ dq # Buf("in")
      /\ u \in Buffers /\ u \notin Carried /\ u # Buf("in")
  BY DEF Buf, Buffers, Carried, GruH, Wino
<1>4. from # Buf("in")  BY DEF Buf
<1>5. \A w \in to : ~SharesMemory(u, w)  OBVIOUS
<1>6. ~SharesMemory(from, dq) /\ ~SharesMemory(dq, u)
  BY DEF SharesMemory, Unions, Attn, Wino, Buf
<1> HIDE DEF dq, u, input, inner, epilogue
<1>7. Flow(input, before, kept \cup {dq})  BY <1>2, <1>3, <1>4, <1>6, CallFlow
<1>8. Flow(inner, kept \cup {dq}, kept \cup {u})  BY <1>2, <1>3, <1>6, CallFlow
<1>9. Flow(epilogue, kept \cup {u}, after)
  <2> DEFINE found == kept \cup {u}
  <2>1. /\ found \cup epilogue.reads \cup epilogue.writes \subseteq Buffers
        /\ kept \subseteq found /\ Carried \cap found \subseteq kept
        /\ epilogue.reads \subseteq found \cup Carried
        /\ \E b \in epilogue.reads \cap found : b # Buf("in")
    BY <1>2, <1>3
  <2>2. \A b \in epilogue.reads \cup kept, w \in epilogue.writes : ~SharesMemory(b, w)
    BY <1>2, <1>5
  <2>3. after \subseteq kept \cup epilogue.writes
        /\ Carried \cap (kept \cup epilogue.writes) \subseteq after
    BY <1>2
  <2> HIDE DEF found
  <2>4. Flow(epilogue, found, after)  BY <2>1, <2>2, <2>3, CallFlow
  <2> QED  BY <2>4 DEF found
<1> QED  BY <1>1, <1>7, <1>8, <1>9 DEF dq, u

\* A call, or a GEMM, that takes one working buffer to another.
LEMMA WorkingCall ==
  ASSUME NEW c, NEW kept, NEW x \in Buffers \ Carried, NEW y \in Buffers \ Carried,
         kept \subseteq Buffers, Buf("in") \notin kept, x # Buf("in"), y # Buf("in"),
         x \in c.reads, c.reads \subseteq kept \cup {x},
         y \in c.writes, c.writes \subseteq Buffers \ Carried,
         \A b \in c.reads \cup kept, w \in c.writes : ~SharesMemory(b, w)
  PROVE  Flow(c, kept \cup {x}, kept \cup {y})
<1> DEFINE found == kept \cup {x}
           left == kept \cup {y}
<1>1. /\ found \cup c.reads \cup c.writes \subseteq Buffers
      /\ kept \subseteq found /\ Carried \cap found \subseteq kept
      /\ c.reads \subseteq found \cup Carried
      /\ \E b \in c.reads \cap found : b # Buf("in")
  OBVIOUS
<1>2. /\ Buf("in") \notin left
      /\ left \subseteq kept \cup c.writes
      /\ Carried \cap (kept \cup c.writes) \subseteq left
  OBVIOUS
<1> HIDE DEF found, left
<1>3. Flow(c, found, left)  BY <1>1, <1>2, CallFlow
<1> QED  BY <1>3 DEF found, left

\* The same for a GEMM, on the shared scratch.
LEMMA WorkingGemm ==
  ASSUME NEW name, NEW kept, NEW from, NEW x \in Buffers \ Carried, NEW y \in Buffers \ Carried,
         kept \subseteq Buffers, Buf("in") \notin kept, x # Buf("in"), y # Buf("in"),
         x \in from, from \subseteq kept \cup {x},
         \A b \in kept : ~SharesMemory(b, y)
  PROVE  /\ Flow(Gemm(name, from, {}, {y})[1], kept \cup {x}, kept \cup {Buf("qgemm_aq")})
         /\ Flow(Gemm(name, from, {}, {y})[2], kept \cup {Buf("qgemm_aq")}, kept \cup {y})
<1> DEFINE found == kept \cup {x}
           left == kept \cup {y}
           to == {y}
<1>1. /\ found \cup from \cup {} \cup to \subseteq Buffers
      /\ kept \subseteq found /\ Carried \cap found \subseteq kept
      /\ from \subseteq found \cup Carried
      /\ \E b \in from \cap found : b # Buf("in")
  OBVIOUS
<1>2. /\ Buf("in") \notin kept \cup left
      /\ left \subseteq kept \cup to
      /\ Carried \cap (kept \cup to) \subseteq left
      /\ \A b \in {} \cup kept, w \in to : ~SharesMemory(b, w)
  OBVIOUS
<1> HIDE DEF found, left, to
<1>3. /\ Flow(Gemm(name, from, {}, to)[1], found, kept \cup {Buf("qgemm_aq")})
      /\ Flow(Gemm(name, from, {}, to)[2], kept \cup {Buf("qgemm_aq")}, left)
  BY <1>1, <1>2, GemmFlow
<1> QED  BY <1>3 DEF found, left, to

-----------------------------------------------------------------------------
(* The calls of each stage *)

\* The RNNFormer pre-net, from the last skip connection to rf_b.
LEMMA RfPreFlows == Flows(RfPre, FoundRfPre)
<1> DEFINE kept == Kept(EncBlocks)
           lin == Gemm("rf_pre_lin", {Skip(EncBlocks)}, {}, {Buf("rf_lin_T")})
           conv == Gemm("rf_pre_conv", {Buf("rf_lin_T")}, {}, {Buf("rf_b")})
<1>1. /\ Len(RfPre) = 4 /\ Len(FoundRfPre) = 5
      /\ RfPre[1] = lin[1] /\ RfPre[2] = lin[2] /\ RfPre[3] = conv[1] /\ RfPre[4] = conv[2]
  BY DEF RfPre, Gemm, FoundRfPre
<1>2. /\ kept \subseteq Buffers /\ Buf("in") \notin kept
      /\ \A b \in kept : \A w : ~SharesMemory(b, w)
      /\ Skip(EncBlocks) \in kept
  BY BlocksAssumption, KeptBuffers DEF Kept
<1>3. \A b \in {Buf("rf_lin_T"), Buf("rf_b")} : b \in Buffers \ Carried /\ b # Buf("in")
  BY DEF Buf, Buffers, Carried, GruH
<1>4. Residual(0) = kept \cup {Buf("rf_b")}
  BY DEF Residual, GrusTo
<1>5. /\ FoundRfPre[1] = kept
      /\ FoundRfPre[2] = kept \cup {Buf("qgemm_aq")}
      /\ FoundRfPre[3] = kept \cup {Buf("rf_lin_T")}
      /\ FoundRfPre[4] = kept \cup {Buf("qgemm_aq")}
      /\ FoundRfPre[5] = kept \cup {Buf("rf_b")}
  BY <1>4 DEF FoundRfPre
<1> HIDE DEF kept
<1>6. /\ Flow(lin[1], kept, kept \cup {Buf("qgemm_aq")})
      /\ Flow(lin[2], kept \cup {Buf("qgemm_aq")}, kept \cup {Buf("rf_lin_T")})
  BY <1>2, <1>3, GemmFlow
<1>7. /\ Flow(conv[1], kept \cup {Buf("rf_lin_T")}, kept \cup {Buf("qgemm_aq")})
      /\ Flow(conv[2], kept \cup {Buf("qgemm_aq")}, kept \cup {Buf("rf_b")})
  BY <1>2, <1>3, WorkingGemm
<1> HIDE DEF lin, conv
<1> QED  BY <1>1, <1>5, <1>6, <1>7 DEF Flows

\* fe_stft; its first call is the only one to read in, together with the cache.
LEMMA StftFlows == Flows(Stft, FoundStft)
<1> DEFINE in == Buf("in")
           fft == Buf("fft_buf")
           cache == Buf("cache_stft")
           spec == Buf("spec_cf")
<1>1. /\ Len(Stft) = 4 /\ Len(FoundStft) = 5
      /\ Stft[1].reads = {cache, in} /\ Stft[1].writes = {fft}
      /\ Stft[2].reads = {fft} /\ Stft[2].writes = {cache}
      /\ Stft[3].reads = {fft} /\ Stft[3].writes = {fft}
      /\ Stft[4].reads = {fft} /\ Stft[4].writes = {spec}
  BY DEF Stft, FoundStft, Named, Call
<1>2. Kept(-1) = {cache, spec}  BY DEF Kept
<1>3. /\ FoundStft[1] = {in} /\ FoundStft[2] = {fft} /\ FoundStft[3] = {fft, cache}
      /\ FoundStft[4] = {fft, cache} /\ FoundStft[5] = {cache, spec}
  BY <1>2 DEF FoundStft
<1>4. /\ {in, fft, cache, spec} \subseteq Buffers
      /\ in \notin {fft, cache, spec} /\ Carried \cap {in, fft, spec} = {} /\ cache \in Carried
  BY DEF Buf, Buffers, Carried, GruH
<1>5. \A b, c \in {in, fft, cache, spec} : ~SharesMemory(b, c)
  BY DEF Buf, SharesMemory, Unions, Attn, Wino
<1>6. in = Buf("in") /\ cache = Buf("cache_stft")  OBVIOUS
<1> HIDE DEF in, fft, cache, spec
<1>7. Flow(Stft[1], {in}, {fft})  BY <1>1, <1>4, <1>5, <1>6 DEF Flow
<1>8. Flow(Stft[2], {fft}, {fft, cache})  BY <1>1, <1>4, <1>5, <1>6 DEF Flow
<1>9. Flow(Stft[3], {fft, cache}, {fft, cache})  BY <1>1, <1>4, <1>5, <1>6 DEF Flow
<1>10. Flow(Stft[4], {fft, cache}, {cache, spec})  BY <1>1, <1>4, <1>5, <1>6 DEF Flow
<1> QED  BY <1>1, <1>3, <1>7, <1>8, <1>9, <1>10 DEF Flows

\* The strided convolution and the first skip connection.
LEMMA EncPreFlows == Flows(EncPre, FoundEncPre)
<1> DEFINE a == Buf("buf_a")
           kept == Kept(-1)
<1>1. /\ Len(EncPre) = 2 /\ Len(FoundEncPre) = 3
      /\ EncPre[1].reads = {Buf("spec_cf")} /\ EncPre[1].writes = {a}
      /\ EncPre[2].reads = {a} /\ EncPre[2].writes = {a, Skip(0)}
  BY DEF EncPre, StridedConv, FoundEncPre, Named, Call
<1>2. Kept(0) = kept \cup {Skip(0)} /\ Buf("spec_cf") \in kept  BY DEF Kept, Skip
<1>3. /\ FoundEncPre[1] = kept /\ FoundEncPre[2] = kept \cup {a}
      /\ FoundEncPre[3] = kept \cup {a, Skip(0)}
  BY <1>2 DEF FoundEncPre
<1>4. kept \subseteq Buffers /\ Buf("in") \notin kept /\ \A b \in kept : \A w : ~SharesMemory(b, w)
  BY BlocksAssumption, KeptBuffers
<1>5. /\ {a, Skip(0)} \subseteq Buffers \ Carried /\ a # Buf("in") /\ Skip(0) # Buf("in")
      /\ Buf("spec_cf") # Buf("in")
  BY BlocksAssumption DEF Buf, Skip, Buffers, Carried, GruH
<1>6. ~SharesMemory(a, a) /\ ~SharesMemory(a, Skip(0))
  BY DEF Buf, Skip, SharesMemory, Unions, Attn, Wino
<1> HIDE DEF a, kept
<1>7. Flow(EncPre[1], kept, kept \cup {a})  BY <1>1, <1>2, <1>4, <1>5, CallFlow
<1>8. Flow(EncPre[2], kept \cup {a}, kept \cup {a, Skip(0)})
  <2> DEFINE found == kept \cup {a}
             left == kept \cup {a, Skip(0)}
             c == EncPre[2]
  <2>1. /\ found \cup c.reads \cup c.writes \subseteq Buffers
        /\ kept \subseteq found /\ Carried \cap found \subseteq kept
        /\ c.reads \subseteq found \cup Carried
        /\ \E b \in c.reads \cap found : b # Buf("in")
    BY <1>1, <1>4, <1>5
  <2>2. /\ Buf("in") \notin left
        /\ left \subseteq kept \cup c.writes
        /\ Carried \cap (kept \cup c.writes) \subseteq left
        /\ \A b \in c.reads \cup kept, w \in c.writes : ~SharesMemory(b, w)
    BY <1>1, <1>4, <1>5, <1>6
  <2> HIDE DEF found, left, c
  <2>3. Flow(c, found, left)  BY <2>1, <2>2, CallFlow
  <2> QED  BY <2>3 DEF found, left, c
<1> QED  BY <1>1, <1>3, <1>7, <1>8 DEF Flows

\* Encoder block i, from one of the two ping-pong buffers to the other.
LEMMA EncFlows == ASSUME NEW i \in 1 .. EncBlocks PROVE Flows(EncBlock(i), FoundEnc(i))
<1> DEFINE kept == Kept(i - 1)
           to == {Current(i + 1), Skip(i)}
           found == kept \cup {Current(i)}
           left == kept \cup to
<1>1. /\ Len(EncBlock(i)) = 3 /\ Len(FoundEnc(i)) = 4
      /\ EncBlock(i) = Winograd("enc_k3", {Current(i)}, to)
  BY DEF EncBlock, Winograd, FoundEnc
<1>2. Kept(i) = kept \cup {Skip(i)}
  <2>1. \A j : j \in 0 .. i <=> j \in 0 .. i - 1 \/ j = i  OBVIOUS
  <2> QED  BY <2>1 DEF Kept
<1>3. /\ FoundEnc(i)[1] = found
      /\ FoundEnc(i)[2] = kept \cup {Buf("wino_dq")}
      /\ FoundEnc(i)[3] = kept \cup {Buf("wino_U")}
      /\ FoundEnc(i)[4] = left
  BY <1>2 DEF FoundEnc
<1>4. kept \subseteq Buffers /\ Buf("in") \notin kept /\ \A b \in kept : \A w : ~SharesMemory(b, w)
  <2>1. i - 1 \in -1 .. EncBlocks  BY BlocksAssumption
  <2> QED  BY <2>1, KeptBuffers
<1>5. \A j : Current(j) \in {Buf("buf_a"), Buf("buf_b")}  BY DEF Current
<1>6. \A b \in {Buf("buf_a"), Buf("buf_b"), Skip(i)} :
        /\ b \in Buffers \ Carried /\ b # Buf("in")
        /\ ~SharesMemory(Buf("wino_U"), b)
  BY DEF Buf, Skip, Buffers, Carried, GruH, SharesMemory, Unions, Attn, Wino
<1>7. /\ found \cup {Current(i)} \cup to \subseteq Buffers
      /\ kept \subseteq found /\ Carried \cap found \subseteq kept /\ Current(i) \in found
      /\ \A w \in to : ~SharesMemory(Buf("wino_U"), w)
      /\ Current(i) \in {Buf("buf_a"), Buf("buf_b")}
  BY <1>4, <1>5, <1>6
<1>8. /\ Buf("in") \notin kept \cup left /\ left \subseteq kept \cup to
      /\ Carried \cap (kept \cup to) \subseteq left
  BY <1>4, <1>5, <1>6
<1> HIDE DEF kept, to, found, left
<1>9. /\ Flow(EncBlock(i)[1], found, kept \cup {Buf("wino_dq")})
       /\ Flow(EncBlock(i)[2], kept \cup {Buf("wino_dq")}, kept \cup {Buf("wino_U")})
       /\ Flow(EncBlock(i)[3], kept \cup {Buf("wino_U")}, left)
  <2> DEFINE from == Current(i)
  <2>1. /\ found \cup {from} \cup to \subseteq Buffers /\ from \in found
        /\ (from = Buf("buf_a") \/ from = Buf("buf_b"))
    BY <1>7
  <2> HIDE DEF from
  <2>2. /\ Flow(Winograd("enc_k3", {from}, to)[1], found, kept \cup {Buf("wino_dq")})
        /\ Flow(Winograd("enc_k3", {from}, to)[2], kept \cup {Buf("wino_dq")},
                                                   kept \cup {Buf("wino_U")})
        /\ Flow(Winograd("enc_k3", {from}, to)[3], kept \cup {Buf("wino_U")}, left)
    BY <1>4, <1>7, <1>8, <2>1, WinogradFlow
  <2> QED  BY <1>1, <2>2 DEF from
<1> QED  BY <1>1, <1>3, <1>9 DEF Flows

\* The GRU of block b reads and writes its own hidden state; rnn_fc adds to rf_b.
LEMMA GruFlows == ASSUME NEW b \in 1 .. RfBlocks PROVE Flows(RfGru(b), FoundGru(b))
<1> DEFINE aq == Buf("qgemm_aq")
           rf == Buf("rf_b")
           fp32 == Buf("gru_h_fp32")
           kept == Residual(b - 1)
           updated == Residual(b)
           gru == Gemm("gru", {rf, GruH(b)}, {GruH(b)}, {GruH(b), fp32})
           fc == Gemm("rnn_fc", {fp32}, {rf}, {rf})
<1>1. /\ Len(RfGru(b)) = 4 /\ Len(FoundGru(b)) = 5
      /\ RfGru(b)[1] = gru[1] /\ RfGru(b)[2] = gru[2]
      /\ RfGru(b)[3] = fc[1] /\ RfGru(b)[4] = fc[2]
  BY DEF RfGru, GruStep, RnnFc, Gemm, FoundGru
<1>2. /\ FoundGru(b)[1] = kept /\ FoundGru(b)[2] = kept \cup {aq}
      /\ FoundGru(b)[3] = updated \cup {fp32} /\ FoundGru(b)[4] = updated \cup {aq}
      /\ FoundGru(b)[5] = updated
  BY DEF FoundGru
<1>3. /\ kept \cup updated \subseteq Buffers /\ Buf("in") \notin kept \cup updated
      /\ \A r \in kept \cup updated : \A w : w[1] # "buf_a" => ~SharesMemory(r, w)
  <2>1. b - 1 \in 0 .. RfBlocks /\ b \in 0 .. RfBlocks  BY BlocksAssumption
  <2> QED  BY <2>1, ResidualBuffers
<1>4. updated = kept \cup {GruH(b)} /\ rf \in kept /\ rf \in updated
  <2>1. \A j : j \in 1 .. b <=> j \in 1 .. b - 1 \/ j = b  OBVIOUS
  <2> QED  BY <2>1 DEF Residual, GrusTo
<1>5. /\ {rf, fp32, GruH(b)} \subseteq Buffers /\ rf # Buf("in") /\ fp32 # Buf("in")
      /\ GruH(b) \in Carried /\ fp32 \notin Carried /\ rf \notin Carried
      /\ fp32[1] # "buf_a" /\ GruH(b)[1] # "buf_a" /\ rf[1] # "buf_a"
  BY DEF Buf, GruH, Buffers, Carried
<1>6. \A w : ~SharesMemory(GruH(b), w)  BY AloneApart DEF GruH, Alone
<1> HIDE DEF rf, fp32, kept, updated
<1>7. Flow(gru[1], kept, kept \cup {aq}) /\ Flow(gru[2], kept \cup {aq}, updated \cup {fp32})
  <2> DEFINE from == {rf, GruH(b)}
             onto == {GruH(b)}
             to == {GruH(b), fp32}
             after == updated \cup {fp32}
  <2>1. /\ kept \cup from \cup onto \cup to \subseteq Buffers
        /\ from \subseteq kept \cup Carried /\ onto \subseteq kept \cup Carried
        /\ \E r \in from \cap kept : r # Buf("in")
    BY <1>3, <1>4, <1>5
  <2>2. \A r \in onto \cup kept, w \in to : ~SharesMemory(r, w)  BY <1>3, <1>5, <1>6
  <2>3. /\ Buf("in") \notin kept \cup after
        /\ after \subseteq kept \cup to /\ Carried \cap (kept \cup to) \subseteq after
    BY <1>3, <1>4, <1>5
  <2> HIDE DEF from, onto, to, after
  <2>4. /\ Flow(Gemm("gru", from, onto, to)[1], kept, kept \cup {Buf("qgemm_aq")})
        /\ Flow(Gemm("gru", from, onto, to)[2], kept \cup {Buf("qgemm_aq")}, after)
    BY <2>1, <2>2, <2>3, GemmFlow
  <2> QED  BY <2>4 DEF from, onto, to, after
<1>8. /\ Flow(fc[1], updated \cup {fp32}, updated \cup {aq})
      /\ Flow(fc[2], updated \cup {aq}, updated)
  <2> DEFINE from == {fp32}
             onto == {rf}
             found == updated \cup {fp32}
  <2>1. /\ found \cup from \cup onto \subseteq Buffers
        /\ updated \subseteq found /\ Carried \cap found \subseteq updated
        /\ from \subseteq found \cup Carried /\ onto \subseteq updated \cup Carried
        /\ \E r \in from \cap found : r # Buf("in")
    BY <1>3, <1>4, <1>5
  <2>2. \A r \in onto \cup updated, w \in onto : ~SharesMemory(r, w)  BY <1>3, <1>4, <1>5
  <2>3. updated \subseteq updated \cup onto /\ Carried \cap (updated \cup onto) \subseteq updated
    BY <1>4
  <2> HIDE DEF from, onto, found
  <2>4. /\ Flow(Gemm("rnn_fc", from, onto, onto)[1], found, updated \cup {Buf("qgemm_aq")})
        /\ Flow(Gemm("rnn_fc", from, onto, onto)[2], updated \cup {Buf("qgemm_aq")}, updated)
    BY <1>3, <2>1, <2>2, <2>3, GemmFlow
  <2> QED  BY <2>4 DEF from, onto, found
<1> HIDE DEF gru, fc
<1> QED  BY <1>1, <1>2, <1>7, <1>8 DEF Flows

\* The positional encoding, added in place.
LEMMA PeFlows == ASSUME NEW b \in 1 .. RfBlocks PROVE Flows(AddPe, FoundPe(b))
<1> DEFINE rf == Buf("rf_b")
           kept == Residual(b)
<1>1. /\ Len(AddPe) = 1 /\ Len(FoundPe(b)) = 2
      /\ FoundPe(b)[1] = kept /\ FoundPe(b)[2] = kept
      /\ AddPe[1].reads = {rf} /\ AddPe[1].writes = {rf}
  BY DEF AddPe, FoundPe, Named, Call
<1>2. /\ kept \subseteq Buffers /\ Buf("in") \notin kept /\ rf \in kept
      /\ \A r \in kept : \A w : w[1] # "buf_a" => ~SharesMemory(r, w)
  <2>1. b \in 0 .. RfBlocks  BY BlocksAssumption
  <2> QED  BY <2>1, ResidualBuffers DEF Residual
<1>3. rf \in Buffers /\ rf # Buf("in") /\ rf[1] # "buf_a"  BY DEF Buf, Buffers
<1> HIDE DEF rf, kept
<1>4. Flow(AddPe[1], kept, kept)  BY <1>1, <1>2, <1>3, CallFlow
<1> QED  BY <1>1, <1>4 DEF Flows

\* The projection onto query, key and value and its packing for the heads.
LEMMA MhsaInFlows == ASSUME NEW b \in 1 .. RfBlocks PROVE Flows(MhsaIn, FoundMhsaIn(b))
<1> DEFINE aq == Buf("qgemm_aq")
           rf == Buf("rf_b")
           qkv == Buf("attn_qkv")
           int8 == Buf("qkv_q")
           heads == {Buf("attn_Qq"), Buf("attn_Kpq"), Buf("attn_Vpq")}
           kept == Residual(b)
           lin == Gemm("qkv", {rf}, {}, {qkv})
<1>1. /\ Len(MhsaIn) = 4 /\ Len(FoundMhsaIn(b)) = 5
      /\ MhsaIn[1] = lin[1] /\ MhsaIn[2] = lin[2]
      /\ MhsaIn[3].reads = {qkv} /\ MhsaIn[3].writes = {int8}
      /\ MhsaIn[4].reads = {int8} /\ MhsaIn[4].writes = heads
  BY DEF MhsaIn, Qkv, PackHeads, Gemm, Named, Call, FoundMhsaIn
<1>2. PackedTo(b, 0) = kept \cup heads  BY DEF PackedTo
<1>3. /\ FoundMhsaIn(b)[1] = kept /\ FoundMhsaIn(b)[2] = kept \cup {aq}
      /\ FoundMhsaIn(b)[3] = kept \cup {qkv} /\ FoundMhsaIn(b)[4] = kept \cup {int8}
      /\ FoundMhsaIn(b)[5] = kept \cup heads
  BY <1>2 DEF FoundMhsaIn
<1>4. /\ kept \subseteq Buffers /\ Buf("in") \notin kept /\ rf \in kept
      /\ \A r \in kept : \A w : w[1] # "buf_a" => ~SharesMemory(r, w)
  <2>1. b \in 0 .. RfBlocks  BY BlocksAssumption
  <2> QED  BY <2>1, ResidualBuffers DEF Residual
<1>5. /\ \A w \in {qkv, int8} \cup heads :
           w \in Buffers \ Carried /\ w # Buf("in") /\ w[1] # "buf_a"
      /\ rf \in Buffers \ Carried /\ rf # Buf("in")
      /\ ~SharesMemory(qkv, int8) /\ \A w \in heads : ~SharesMemory(int8, w)
  BY DEF Buf, GruH, Buffers, Carried, Attn, SharesMemory, Unions, Wino
<1> HIDE DEF rf, qkv, int8, heads, kept
<1>6. Flow(lin[1], kept, kept \cup {aq}) /\ Flow(lin[2], kept \cup {aq}, kept \cup {qkv})
  <2> DEFINE from == {rf}
             to == {qkv}
             after == kept \cup to
  <2>1. /\ kept \cup from \cup {} \cup to \subseteq Buffers
        /\ from \subseteq kept \cup Carried /\ \E r \in from \cap kept : r # Buf("in")
    BY <1>4, <1>5
  <2>2. /\ \A r \in {} \cup kept, w \in to : ~SharesMemory(r, w)
        /\ Buf("in") \notin kept \cup after
        /\ after \subseteq kept \cup to /\ Carried \cap (kept \cup to) \subseteq after
    BY <1>4, <1>5
  <2> HIDE DEF from, to, after
  <2>3. /\ Flow(Gemm("qkv", from, {}, to)[1], kept, kept \cup {Buf("qgemm_aq")})
        /\ Flow(Gemm("qkv", from, {}, to)[2], kept \cup {Buf("qgemm_aq")}, after)
    BY <2>1, <2>2, GemmFlow
  <2> QED  BY <2>3 DEF from, to, after
<1>7. Flow(MhsaIn[3], kept \cup {qkv}, kept \cup {int8})
  BY <1>1, <1>4, <1>5, WorkingCall
<1>8. Flow(MhsaIn[4], kept \cup {int8}, kept \cup heads)
  <2> DEFINE found == kept \cup {int8}
             left == kept \cup heads
             c == MhsaIn[4]
  <2>1. /\ found \cup c.reads \cup c.writes \subseteq Buffers
        /\ kept \subseteq found /\ Carried \cap found \subseteq kept
        /\ c.reads \subseteq found \cup Carried
        /\ \E r \in c.reads \cap found : r # Buf("in")
    BY <1>1, <1>4, <1>5
  <2>2. /\ Buf("in") \notin left
        /\ left \subseteq kept \cup c.writes
        /\ Carried \cap (kept \cup c.writes) \subseteq left
        /\ \A r \in c.reads \cup kept, w \in c.writes : ~SharesMemory(r, w)
    BY <1>1, <1>4, <1>5
  <2> HIDE DEF found, left, c
  <2>3. Flow(c, found, left)  BY <2>1, <2>2, CallFlow
  <2> QED  BY <2>3 DEF found, left, c
<1> HIDE DEF lin
<1> QED  BY <1>1, <1>3, <1>6, <1>7, <1>8 DEF Flows

\* Attention head h fills its own columns of attn_out.
LEMMA HeadFlows ==
  ASSUME NEW b \in 1 .. RfBlocks, NEW h \in 1 .. Heads
  PROVE  Flows(AttnHead(h), FoundHead(b, h))
<1> DEFINE c32 == Buf("qgemm_c32")
           sq == Buf("attn_scoresq")
           k == Buf("attn_Kpq")
           q == Buf("attn_Qq")
           v == Buf("attn_Vpq")
           scores == Buf("attn_scores")
           kept == PackedTo(b, h - 1)
<1>1. /\ Len(AttnHead(h)) = 4 /\ Len(FoundHead(b, h)) = 5
      /\ AttnHead(h)[1].reads = {q, k} /\ AttnHead(h)[1].writes = {c32}
      /\ AttnHead(h)[2].reads = {c32} /\ AttnHead(h)[2].writes = {scores, sq}
      /\ AttnHead(h)[3].reads = {sq, v} /\ AttnHead(h)[3].writes = {c32}
      /\ AttnHead(h)[4].reads = {c32} /\ AttnHead(h)[4].writes = {AttnOut(h)}
  BY DEF AttnHead, Named, Call, FoundHead
<1>2. PackedTo(b, h) = kept \cup {AttnOut(h)}
  <2>1. \A j : j \in 1 .. h <=> j \in 1 .. h - 1 \/ j = h  OBVIOUS
  <2> QED  BY <2>1 DEF PackedTo
<1>3. /\ FoundHead(b, h)[1] = kept /\ FoundHead(b, h)[2] = kept \cup {c32}
      /\ FoundHead(b, h)[3] = kept \cup {sq} /\ FoundHead(b, h)[4] = kept \cup {c32}
      /\ FoundHead(b, h)[5] = kept \cup {AttnOut(h)}
  BY <1>2 DEF FoundHead
<1>4. /\ kept \subseteq Buffers /\ Buf("in") \notin kept /\ {q, k, v} \subseteq kept
      /\ \A r \in kept : \A w : w[1] # "buf_a" /\ w[1] \notin Wino => ~SharesMemory(r, w)
  <2>1. b \in 0 .. RfBlocks /\ h - 1 \in 0 .. Heads  BY BlocksAssumption
  <2> QED  BY <2>1, PackedBuffers DEF PackedTo
<1>5. \A w \in {c32, sq, scores, AttnOut(h)} :
        /\ w \in Buffers \ Carried /\ w # Buf("in")
        /\ w[1] # "buf_a" /\ w[1] \notin Wino
  BY DEF Buf, AttnOut, GruH, Buffers, Carried, Attn, Wino
<1>6. \A w : ~SharesMemory(c32, w)  BY AloneApart DEF Buf, Alone
<1>7. \A w \in {c32, AttnOut(h)} : ~SharesMemory(sq, w)
  BY DEF Buf, AttnOut, SharesMemory, Unions, Attn, Wino
<1>8. q # Buf("in")  BY DEF Buf
<1> HIDE DEF c32, sq, k, q, v, scores, kept
<1>9. Flow(AttnHead(h)[1], kept, kept \cup {c32})
  <2> DEFINE left == kept \cup {c32}
             c == AttnHead(h)[1]
  <2>1. /\ kept \cup c.reads \cup c.writes \subseteq Buffers
        /\ c.reads \subseteq kept \cup Carried
        /\ \E r \in c.reads \cap kept : r # Buf("in")
    BY <1>1, <1>4, <1>5, <1>8
  <2>2. /\ Buf("in") \notin left
        /\ left \subseteq kept \cup c.writes
        /\ Carried \cap (kept \cup c.writes) \subseteq left
        /\ \A r \in c.reads \cup kept, w \in c.writes : ~SharesMemory(r, w)
    BY <1>1, <1>4, <1>5
  <2> HIDE DEF left, c
  <2>3. Flow(c, kept, left)  BY <2>1, <2>2, CallFlow
  <2> QED  BY <2>3 DEF left, c
<1>10. Flow(AttnHead(h)[2], kept \cup {c32}, kept \cup {sq})
  <2> DEFINE c == AttnHead(h)[2]
  <2>1. /\ c32 \in c.reads /\ c.reads \subseteq kept \cup {c32}
        /\ sq \in c.writes /\ c.writes \subseteq Buffers \ Carried
    BY <1>1, <1>4, <1>5
  <2>2. \A r \in c.reads \cup kept, w \in c.writes : ~SharesMemory(r, w)
    BY <1>1, <1>4, <1>5, <1>6
  <2>3. /\ c32 \in Buffers \ Carried /\ c32 # Buf("in")
        /\ sq \in Buffers \ Carried /\ sq # Buf("in")
    BY <1>5
  <2> HIDE DEF c
  <2>4. Flow(c, kept \cup {c32}, kept \cup {sq})  BY <1>4, <2>1, <2>2, <2>3, WorkingCall
  <2> QED  BY <2>4 DEF c
<1>11. Flow(AttnHead(h)[3], kept \cup {sq}, kept \cup {c32})
  <2> DEFINE c == AttnHead(h)[3]
  <2>1. /\ sq \in c.reads /\ c.reads \subseteq kept \cup {sq}
        /\ c32 \in c.writes /\ c.writes \subseteq Buffers \ Carried
    BY <1>1, <1>4, <1>5
  <2>2. \A r \in c.reads \cup kept, w \in c.writes : ~SharesMemory(r, w)
    BY <1>1, <1>4, <1>5, <1>7
  <2>3. /\ sq \in Buffers \ Carried /\ sq # Buf("in")
        /\ c32 \in Buffers \ Carried /\ c32 # Buf("in")
    BY <1>5
  <2> HIDE DEF c
  <2>4. Flow(c, kept \cup {sq}, kept \cup {c32})  BY <1>4, <2>1, <2>2, <2>3, WorkingCall
  <2> QED  BY <2>4 DEF c
<1>12. Flow(AttnHead(h)[4], kept \cup {c32}, kept \cup {AttnOut(h)})
  <2> DEFINE c == AttnHead(h)[4]
  <2>1. /\ c32 \in c.reads /\ c.reads \subseteq kept \cup {c32}
        /\ AttnOut(h) \in c.writes /\ c.writes \subseteq Buffers \ Carried
    BY <1>1, <1>4, <1>5
  <2>2. \A r \in c.reads \cup kept, w \in c.writes : ~SharesMemory(r, w)
    BY <1>1, <1>4, <1>5, <1>6
  <2>3. /\ c32 \in Buffers \ Carried /\ c32 # Buf("in")
        /\ AttnOut(h) \in Buffers \ Carried /\ AttnOut(h) # Buf("in")
    BY <1>5
  <2> HIDE DEF c
  <2>4. Flow(c, kept \cup {c32}, kept \cup {AttnOut(h)})  BY <1>4, <2>1, <2>2, <2>3, WorkingCall
  <2> QED  BY <2>4 DEF c
<1> QED  BY <1>1, <1>3, <1>9, <1>10, <1>11, <1>12 DEF Flows

\* The output projection reads what every head left and adds it to rf_b.
LEMMA MhsaOutFlows == ASSUME NEW b \in 1 .. RfBlocks PROVE Flows(MhsaOut, FoundMhsaOut(b))
<1> DEFINE rf == Buf("rf_b")
           kept == Residual(b)
           found == PackedTo(b, Heads)
           from == {AttnOut(h) : h \in 1 .. Heads}
           onto == {rf}
<1>1. /\ Len(MhsaOut) = 2 /\ Len(FoundMhsaOut(b)) = 3
      /\ MhsaOut = Gemm("attn_fc", from, onto, onto)
      /\ FoundMhsaOut(b)[1] = found
      /\ FoundMhsaOut(b)[2] = kept \cup {Buf("qgemm_aq")}
      /\ FoundMhsaOut(b)[3] = kept
  BY DEF MhsaOut, Gemm, FoundMhsaOut
<1>2. /\ kept \subseteq Buffers /\ Buf("in") \notin kept /\ rf \in kept
      /\ \A r \in kept : \A w : w[1] # "buf_a" => ~SharesMemory(r, w)
      /\ found \subseteq Buffers
  <2>1. b \in 0 .. RfBlocks /\ Heads \in 0 .. Heads  BY BlocksAssumption
  <2> QED  BY <2>1, ResidualBuffers, PackedBuffers DEF Residual
<1>3. kept \subseteq found /\ from \subseteq found  BY DEF PackedTo
<1>4. Carried \cap found \subseteq kept
  BY DEF PackedTo, Carried, GruH, Buf, AttnOut
<1>5. AttnOut(1) \in from /\ AttnOut(1) # Buf("in") /\ rf[1] # "buf_a"
  BY BlocksAssumption DEF AttnOut, Buf
<1> HIDE DEF rf, kept, found, from
<1>6. /\ found \cup from \cup onto \cup onto \subseteq Buffers
      /\ \E r \in from \cap found : r # Buf("in")
      /\ from \subseteq found \cup Carried /\ onto \subseteq kept \cup Carried
  BY <1>2, <1>3, <1>5
<1>7. /\ \A r \in onto \cup kept, w \in onto : ~SharesMemory(r, w)
      /\ kept \subseteq kept \cup onto /\ Carried \cap (kept \cup onto) \subseteq kept
      /\ Buf("in") \notin kept \cup kept
  BY <1>2, <1>5
<1> HIDE DEF onto
<1>8. /\ Flow(Gemm("attn_fc", from, onto, onto)[1], found, kept \cup {Buf("qgemm_aq")})
      /\ Flow(Gemm("attn_fc", from, onto, onto)[2], kept \cup {Buf("qgemm_aq")}, kept)
  BY <1>3, <1>4, <1>6, <1>7, GemmFlow
<1> QED  BY <1>1, <1>8 DEF Flows

\* The RNNFormer post-net leaves the union of rf_b to buf_a.
LEMMA RfPostFlows == Flows(RfPost, FoundRfPost)
<1> DEFINE lin == Gemm("rf_post_lin", {Buf("rf_b")}, {}, {Buf("rf_lin_T")})
           conv == Gemm("rf_post_conv", {Buf("rf_lin_T")}, {}, {Buf("buf_a")})
<1>1. /\ Len(RfPost) = 4 /\ Len(FoundRfPost) = 5
      /\ RfPost[1] = lin[1] /\ RfPost[2] = lin[2]
      /\ RfPost[3] = conv[1] /\ RfPost[4] = conv[2]
  BY DEF RfPost, Gemm, FoundRfPost
<1>2. /\ FoundRfPost[1] = Post \cup {Buf("rf_b")}
      /\ FoundRfPost[2] = Post \cup {Buf("qgemm_aq")}
      /\ FoundRfPost[3] = Post \cup {Buf("rf_lin_T")}
      /\ FoundRfPost[4] = Post \cup {Buf("qgemm_aq")}
      /\ FoundRfPost[5] = Post \cup {Buf("buf_a")}
  BY DEF FoundRfPost
<1>3. /\ Post \subseteq Buffers /\ Buf("in") \notin Post
      /\ \A b \in Post : \A w : ~SharesMemory(b, w)
  BY PostBuffers
<1>4. \A b \in {Buf("rf_b"), Buf("rf_lin_T"), Buf("buf_a")} :
        b \in Buffers \ Carried /\ b # Buf("in")
  BY DEF Buf, Buffers, Carried, GruH
<1>5. /\ Flow(lin[1], Post \cup {Buf("rf_b")}, Post \cup {Buf("qgemm_aq")})
      /\ Flow(lin[2], Post \cup {Buf("qgemm_aq")}, Post \cup {Buf("rf_lin_T")})
  BY <1>3, <1>4, WorkingGemm
<1>6. /\ Flow(conv[1], Post \cup {Buf("rf_lin_T")}, Post \cup {Buf("qgemm_aq")})
      /\ Flow(conv[2], Post \cup {Buf("qgemm_aq")}, Post \cup {Buf("buf_a")})
  BY <1>3, <1>4, WorkingGemm
<1> HIDE DEF lin, conv
<1> QED  BY <1>1, <1>2, <1>5, <1>6 DEF Flows

\* Decoder block i reads the skip connection that is its counterpart's.
LEMMA DecFlows == ASSUME NEW i \in 1 .. EncBlocks PROVE Flows(DecBlock(i), FoundDec)
<1> DEFINE a == Buf("buf_a")
           b == Buf("buf_b")
           from == {a, Skip(EncBlocks + 1 - i)}
           lin == Gemm("dec_1x1", from, {}, {b})
           conv == Winograd("dec_k3", {b}, {a})
<1>1. /\ Len(DecBlock(i)) = 5 /\ Len(FoundDec) = 6
      /\ DecBlock(i)[1] = lin[1] /\ DecBlock(i)[2] = lin[2]
      /\ DecBlock(i)[3] = conv[1] /\ DecBlock(i)[4] = conv[2] /\ DecBlock(i)[5] = conv[3]
  BY DEF DecBlock, Gemm, Winograd, FoundDec
<1>2. /\ FoundDec[1] = Post \cup {a} /\ FoundDec[2] = Post \cup {Buf("qgemm_aq")}
      /\ FoundDec[3] = Post \cup {b} /\ FoundDec[4] = Post \cup {Buf("wino_dq")}
      /\ FoundDec[5] = Post \cup {Buf("wino_U")} /\ FoundDec[6] = Post \cup {a}
  BY DEF FoundDec
<1>3. /\ Post \subseteq Buffers /\ Buf("in") \notin Post
      /\ \A r \in Post : \A w : ~SharesMemory(r, w)
  BY PostBuffers
<1>4. /\ a \in Buffers \ Carried /\ a # Buf("in") /\ b \in Buffers \ Carried /\ b # Buf("in")
      /\ ~SharesMemory(Buf("wino_U"), a)
  BY DEF Buf, Buffers, Carried, GruH, SharesMemory, Unions, Attn, Wino
<1>5. Skip(EncBlocks + 1 - i) \in Post
  <2>1. EncBlocks + 1 - i \in 0 .. EncBlocks  BY BlocksAssumption
  <2> QED  BY <2>1 DEF Post, Kept
<1>6. b = Buf("buf_a") \/ b = Buf("buf_b")  OBVIOUS
<1>7. a \in from /\ from \subseteq Post \cup {a}  BY <1>5
<1> HIDE DEF a, b, from
<1>8. /\ Flow(lin[1], Post \cup {a}, Post \cup {Buf("qgemm_aq")})
      /\ Flow(lin[2], Post \cup {Buf("qgemm_aq")}, Post \cup {b})
  BY <1>3, <1>4, <1>7, WorkingGemm
<1>9. /\ Flow(conv[1], Post \cup {b}, Post \cup {Buf("wino_dq")})
      /\ Flow(conv[2], Post \cup {Buf("wino_dq")}, Post \cup {Buf("wino_U")})
      /\ Flow(conv[3], Post \cup {Buf("wino_U")}, Post \cup {a})
  <2> DEFINE found == Post \cup {b}
             left == Post \cup {a}
             to == {a}
  <2>1. /\ found \cup {b} \cup to \subseteq Buffers
        /\ Post \subseteq found /\ Carried \cap found \subseteq Post /\ b \in found
        /\ \A w \in to : ~SharesMemory(Buf("wino_U"), w)
    BY <1>3, <1>4
  <2>2. /\ Buf("in") \notin Post \cup left /\ left \subseteq Post \cup to
        /\ Carried \cap (Post \cup to) \subseteq left
    BY <1>3, <1>4
  <2> HIDE DEF found, left, to
  <2>3. /\ Flow(Winograd("dec_k3", {b}, to)[1], found, Post \cup {Buf("wino_dq")})
        /\ Flow(Winograd("dec_k3", {b}, to)[2], Post \cup {Buf("wino_dq")},
                                                Post \cup {Buf("wino_U")})
        /\ Flow(Winograd("dec_k3", {b}, to)[3], Post \cup {Buf("wino_U")}, left)
    BY <1>3, <1>6, <2>1, <2>2, WinogradFlow
  <2> QED  BY <2>3 DEF found, left, to
<1> HIDE DEF lin, conv
<1> QED  BY <1>1, <1>2, <1>8, <1>9 DEF Flows

\* The mask, and its product with the spectrum that fe_stft left.
LEMMA DecPostFlows == Flows(DecPost, FoundDecPost)
<1> DEFINE a == Buf("buf_a")
           b == Buf("buf_b")
           spec == Buf("spec_cf")
           mask == Buf("mask_cf")
           out == Buf("spec_out")
           from == {a, Skip(0)}
           lin == Gemm("dec_post_1x1", from, {}, {b})
<1>1. /\ Len(DecPost) = 4 /\ Len(FoundDecPost) = 5
      /\ DecPost[1] = lin[1] /\ DecPost[2] = lin[2]
      /\ DecPost[3].reads = {b} /\ DecPost[3].writes = {mask}
      /\ DecPost[4].reads = {spec, mask} /\ DecPost[4].writes = {out}
  BY DEF DecPost, ConvTranspose, MaskMultiply, Gemm, Named, Call, FoundDecPost
<1>2. /\ FoundDecPost[1] = Post \cup {a} /\ FoundDecPost[2] = Post \cup {Buf("qgemm_aq")}
      /\ FoundDecPost[3] = Post \cup {b} /\ FoundDecPost[4] = Post \cup {mask}
      /\ FoundDecPost[5] = Final \cup {out}
  BY DEF FoundDecPost
<1>3. /\ Post \subseteq Buffers /\ Buf("in") \notin Post
      /\ \A r \in Post : \A w : ~SharesMemory(r, w)
  BY PostBuffers
<1>4. /\ \A r \in {a, b, mask, out} : r \in Buffers \ Carried /\ r # Buf("in")
      /\ spec # Buf("in")
      /\ ~SharesMemory(b, mask) /\ ~SharesMemory(mask, out)
  BY DEF Buf, Buffers, Carried, GruH, SharesMemory, Unions, Attn, Wino
<1>5. Skip(0) \in Post /\ spec \in Post  BY BlocksAssumption DEF Post, Kept
<1>6. Final \subseteq Post /\ Carried \cap Post \subseteq Final
  <2>1. Final \subseteq Post  BY DEF Final, Post, Kept
  <2>2. Carried \cap Post \subseteq Final
    BY DEF Final, Post, Kept, Carried, Buf, Skip, GruH, GrusTo
  <2> QED  BY <2>1, <2>2
<1>7. a \in from /\ from \subseteq Post \cup {a}  BY <1>5
<1> HIDE DEF a, b, spec, mask, out, from
<1>8. /\ Flow(lin[1], Post \cup {a}, Post \cup {Buf("qgemm_aq")})
      /\ Flow(lin[2], Post \cup {Buf("qgemm_aq")}, Post \cup {b})
  BY <1>3, <1>4, <1>7, WorkingGemm
<1>9. Flow(DecPost[3], Post \cup {b}, Post \cup {mask})
  BY <1>1, <1>3, <1>4, WorkingCall
<1>10. Flow(DecPost[4], Post \cup {mask}, Final \cup {out})
  <2> DEFINE found == Post \cup {mask}
             left == Final \cup {out}
             c == DecPost[4]
  <2>1. /\ found \cup c.reads \cup c.writes \subseteq Buffers
        /\ Final \subseteq found /\ Carried \cap found \subseteq Final
        /\ c.reads \subseteq found \cup Carried
        /\ \E r \in c.reads \cap found : r # Buf("in")
    BY <1>1, <1>3, <1>4, <1>5, <1>6
  <2>2. /\ Buf("in") \notin left
        /\ left \subseteq Final \cup c.writes
        /\ Carried \cap (Final \cup c.writes) \subseteq left
        /\ \A r \in c.reads \cup Final, w \in c.writes : ~SharesMemory(r, w)
    BY <1>1, <1>3, <1>4, <1>5, <1>6
  <2> HIDE DEF found, left, c
  <2>3. Flow(c, found, left)  BY <2>1, <2>2, CallFlow
  <2> QED  BY <2>3 DEF found, left, c
<1> HIDE DEF lin
<1> QED  BY <1>1, <1>2, <1>8, <1>9, <1>10 DEF Flows

\* fe_istft; with its last call everything that is carried is renewed.
LEMMA IstftFlows == Flows(Istft, FoundIstft)
<1> DEFINE fft == Buf("fft_buf")
           spec == Buf("spec_out")
           cache == Buf("cache_istft")
           out == Buf("out")
<1>1. /\ Len(Istft) = 4 /\ Len(FoundIstft) = 5
      /\ Istft[1].reads = {spec} /\ Istft[1].writes = {fft}
      /\ Istft[2].reads = {fft, cache} /\ Istft[2].writes = {fft}
      /\ Istft[3].reads = {fft} /\ Istft[3].writes = {out}
      /\ Istft[4].reads = {fft} /\ Istft[4].writes = {cache}
  BY DEF Istft, Named, Call, FoundIstft
<1>2. /\ FoundIstft[1] = Final \cup {spec} /\ FoundIstft[2] = Final \cup {fft}
      /\ FoundIstft[3] = Final \cup {fft} /\ FoundIstft[4] = Final \cup {fft, out}
      /\ FoundIstft[5] = Carried \cup {out}
  BY DEF FoundIstft
<1>3. Carried = Final \cup {cache}  BY DEF Carried, Final, GrusTo, GruH
<1>4. /\ Final \subseteq Buffers /\ Buf("in") \notin Final
      /\ \A r \in Final : \A w : ~SharesMemory(r, w)
  BY PostBuffers
<1>5. /\ {fft, spec, out} \subseteq Buffers \ Carried /\ cache \in Buffers
      /\ \A r \in {fft, spec, out, cache} : r # Buf("in")
  BY DEF Buf, Buffers, Carried, GruH
<1>6. \A b, c \in {fft, spec, out, cache} : ~SharesMemory(b, c)
  BY DEF Buf, SharesMemory, Unions, Attn, Wino
<1>7. \A b \in Final : b \in Carried  BY <1>3
<1> HIDE DEF fft, spec, cache, out
<1>8. Flow(Istft[1], Final \cup {spec}, Final \cup {fft})
  BY <1>1, <1>4, <1>5, <1>6, WorkingCall
<1>9. Flow(Istft[2], Final \cup {fft}, Final \cup {fft})
  BY <1>1, <1>3, <1>4, <1>5, <1>6 DEF Flow
<1>10. Flow(Istft[3], Final \cup {fft}, Final \cup {fft, out})
  BY <1>1, <1>3, <1>4, <1>5, <1>6 DEF Flow
<1>11. Flow(Istft[4], Final \cup {fft, out}, Carried \cup {out})
  BY <1>1, <1>3, <1>4, <1>5, <1>6 DEF Flow
<1> QED  BY <1>1, <1>2, <1>8, <1>9, <1>10, <1>11 DEF Flows

-----------------------------------------------------------------------------
(* The inductive invariant *)

\* What the calls of a stage find, and what they find between two frames: the
\* fields that carry the stream and, once there was a frame, the output.
FoundAt(s, b, h, output) ==
  CASE s = "idle"     -> <<Carried \cup output>>
    [] s = "stft"     -> FoundStft
    [] s = "enc_pre"  -> FoundEncPre
    [] s = "enc"      -> FoundEnc(b)
    [] s = "rf_pre"   -> FoundRfPre
    [] s = "gru"      -> FoundGru(b)
    [] s = "pe"       -> FoundPe(b)
    [] s = "mhsa_in"  -> FoundMhsaIn(b)
    [] s = "head"     -> FoundHead(b, h)
    [] s = "mhsa_out" -> FoundMhsaOut(b)
    [] s = "rf_post"  -> FoundRfPost
    [] s = "dec"      -> FoundDec
    [] s = "dec_post" -> FoundDecPost
    [] s = "istft"    -> FoundIstft

Output == IF fed > base THEN {Buf("out")} ELSE {}
Found == FoundAt(stage, blk, head, Output)
Live == Found[call]

InPlace(s, b, h) ==
  /\ s \in Stages
  /\ s \in {"enc", "dec"} => b \in 1 .. EncBlocks
  /\ s \in {"gru", "pe", "mhsa_in", "head", "mhsa_out"} => b \in 1 .. RfBlocks
  /\ s \notin {"enc", "dec", "gru", "pe", "mhsa_in", "head", "mhsa_out"} => b = 0
  /\ IF s = "head" THEN h \in 1 .. Heads ELSE h = 0

Place ==
  /\ InPlace(stage, blk, head)
  /\ fed \in 0 .. MaxFrames /\ base \in 0 .. fed
  /\ IF stage = "idle" THEN call = 1 ELSE base < fed /\ call \in 1 .. Len(Found) - 1

HoldsType == holds \in [Buffers -> [frames : SUBSET (1 .. MaxFrames), at : -1 .. MaxFrames]]

\* A buffer that this frame wrote depends on the whole stream so far.
Whole == [frames |-> base + 1 .. fed, at |-> fed]
Earlier == [frames |-> base + 1 .. fed - 1, at |-> fed - 1]

Contents ==
  /\ \A b \in Live :
       holds[b] = IF b = Buf("in") THEN [frames |-> {fed}, at |-> fed] ELSE Whole
  /\ \A b \in Carried \ Live : holds[b] = Earlier

PipelineInv == Place /\ HoldsType /\ Contents

\* What is found in each stage.
LEMMA FoundIn ==
  ASSUME NEW b, NEW h, NEW o
  PROVE  /\ FoundAt("idle", b, h, o) = <<Carried \cup o>>
         /\ FoundAt("stft", b, h, o) = FoundStft
         /\ FoundAt("enc_pre", b, h, o) = FoundEncPre
         /\ FoundAt("enc", b, h, o) = FoundEnc(b)
         /\ FoundAt("rf_pre", b, h, o) = FoundRfPre
         /\ FoundAt("gru", b, h, o) = FoundGru(b)
         /\ FoundAt("pe", b, h, o) = FoundPe(b)
         /\ FoundAt("mhsa_in", b, h, o) = FoundMhsaIn(b)
         /\ FoundAt("head", b, h, o) = FoundHead(b, h)
         /\ FoundAt("mhsa_out", b, h, o) = FoundMhsaOut(b)
         /\ FoundAt("rf_post", b, h, o) = FoundRfPost
         /\ FoundAt("dec", b, h, o) = FoundDec
         /\ FoundAt("dec_post", b, h, o) = FoundDecPost
         /\ FoundAt("istft", b, h, o) = FoundIstft
BY DEF FoundAt

\* Every stage finds what its calls read.
LEMMA StageFlows == ASSUME Place, stage # "idle" PROVE Flows(Calls, Found)
<1>1. InPlace(stage, blk, head)  BY DEF Place
<1>2. CASE stage = "stft"  BY <1>2, FoundIn, StftFlows DEF Calls, Found
<1>3. CASE stage = "enc_pre"  BY <1>3, FoundIn, EncPreFlows DEF Calls, Found
<1>4. CASE stage = "enc"  BY <1>1, <1>4, FoundIn, EncFlows DEF Calls, Found, InPlace
<1>5. CASE stage = "rf_pre"  BY <1>5, FoundIn, RfPreFlows DEF Calls, Found
<1>6. CASE stage = "gru"  BY <1>1, <1>6, FoundIn, GruFlows DEF Calls, Found, InPlace
<1>7. CASE stage = "pe"  BY <1>1, <1>7, FoundIn, PeFlows DEF Calls, Found, InPlace
<1>8. CASE stage = "mhsa_in"  BY <1>1, <1>8, FoundIn, MhsaInFlows DEF Calls, Found, InPlace
<1>9. CASE stage = "head"  BY <1>1, <1>9, FoundIn, HeadFlows DEF Calls, Found, InPlace
<1>10. CASE stage = "mhsa_out"  BY <1>1, <1>10, FoundIn, MhsaOutFlows DEF Calls, Found, InPlace
<1>11. CASE stage = "rf_post"  BY <1>11, FoundIn, RfPostFlows DEF Calls, Found
<1>12. CASE stage = "dec"  BY <1>1, <1>12, FoundIn, DecFlows DEF Calls, Found, InPlace
<1>13. CASE stage = "dec_post"  BY <1>13, FoundIn, DecPostFlows DEF Calls, Found
<1>14. CASE stage = "istft"  BY <1>14, FoundIn, IstftFlows DEF Calls, Found
<1> QED
  BY <1>1, <1>2, <1>3, <1>4, <1>5, <1>6, <1>7, <1>8, <1>9, <1>10, <1>11, <1>12, <1>13, <1>14
  DEF InPlace, Stages

\* So does the call that is next.
LEMMA CallFlows ==
  ASSUME Place, stage # "idle"
  PROVE  call \in Nat /\ call <= Len(Calls) /\ Flow(Calls[call], Live, Found[call + 1])
<1>1. Flows(Calls, Found)  BY StageFlows
<1>2. call \in 1 .. Len(Found) - 1  BY DEF Place
<1>3. call \in 1 .. Len(Calls)
  <2>1. Len(Calls) = 0 \/ Len(Calls) # 0  OBVIOUS
  <2> QED  BY <1>1, <1>2 DEF Flows
<1> QED  BY <1>1, <1>3 DEF Flows, Live

\* What a call writes depends on the whole stream so far.
LEMMA WrittenIsWhole ==
  ASSUME PipelineInv, base < fed, NEW c, NEW after, Flow(c, Live, after)
  PROVE  Written(c) = Whole
<1>1. fed \in Nat /\ base \in Nat  BY MaxFramesAssumption DEF PipelineInv, Place
<1> DEFINE all == base + 1 .. fed
           some == base + 1 .. fed - 1
<1>2. /\ c.reads \subseteq Live \cup Carried
      /\ c.reads = {Buf("cache_stft"), Buf("in")}
         \/ \E b \in c.reads \cap Live : b # Buf("in")
  BY DEF Flow
<1>3. /\ \A b \in Live : holds[b].frames = IF b = Buf("in") THEN {fed} ELSE all
      /\ \A b \in Carried \ Live : holds[b].frames = some
  <2>1. /\ [frames |-> {fed}, at |-> fed].frames = {fed}
        /\ Whole.frames = all /\ Earlier.frames = some
    BY DEF Whole, Earlier
  <2>2. \A b \in Live : b = Buf("in") => holds[b].frames = {fed}
    BY <2>1 DEF PipelineInv, Contents
  <2>3. \A b \in Live : b # Buf("in") => holds[b].frames = all
    BY <2>1 DEF PipelineInv, Contents
  <2>4. \A b \in Carried \ Live : holds[b].frames = some
    BY <2>1 DEF PipelineInv, Contents
  <2> QED  BY <2>2, <2>3, <2>4
<1>4. some \subseteq all /\ fed \in all /\ all = some \cup {fed}  BY <1>1
<1>5. \A b \in c.reads : holds[b].frames \subseteq all  BY <1>2, <1>3, <1>4
<1>6. UNION {holds[b].frames : b \in c.reads} = all
  <2>1. CASE \E b \in c.reads \cap Live : b # Buf("in")
    BY <1>3, <1>5, <2>1
  <2>2. CASE c.reads = {Buf("cache_stft"), Buf("in")} /\ Buf("in") \in Live
    <3>1. Buf("cache_stft") \in Carried /\ Buf("cache_stft") # Buf("in")  BY DEF Carried, Buf
    <3>2. holds[Buf("cache_stft")].frames \in {all, some} /\ holds[Buf("in")].frames = {fed}
      BY <1>3, <2>2, <3>1
    <3> QED  BY <1>4, <1>5, <2>2, <3>2
  <2>3. Buf("in") \notin Carried  BY DEF Carried, Buf, GruH
  <2> QED  BY <1>2, <2>1, <2>2, <2>3
<1> QED  BY <1>6 DEF Written, Whole

\* A call leaves what the next one finds.
LEMMA ExecuteFlow ==
  ASSUME PipelineInv, base < fed, NEW c, NEW after, Flow(c, Live, after), Execute(c)
  PROVE  /\ \A b \in after : holds'[b] = Whole
         /\ \A b \in Carried \ after : holds'[b] = Earlier
         /\ holds' \in [Buffers -> [frames : SUBSET (1 .. MaxFrames), at : -1 .. MaxFrames]]
<1>1. Written(c) = Whole  BY WrittenIsWhole
<1>2. /\ \A b \in Live : b # Buf("in") => holds[b] = Whole
      /\ \A b \in Carried \ Live : holds[b] = Earlier
  BY DEF PipelineInv, Contents
<1>3. /\ after \subseteq Buffers /\ Buf("in") \notin after
      /\ \A b \in after \ c.writes : b \in Live /\ \A w \in c.writes : ~SharesMemory(b, w)
      /\ Carried \cap (Live \cup c.writes) \subseteq after
  BY DEF Flow
<1>4. \A b \in Buffers :
        holds'[b] = IF b \in c.writes THEN Whole
                    ELSE IF \E w \in c.writes : SharesMemory(b, w) THEN Clobbered
                    ELSE holds[b]
  BY <1>1 DEF Execute
<1>5. \A b \in Carried : b \in Buffers /\ \A w : ~SharesMemory(b, w)
  <2>1. \A b \in Carried : b[1] \in Alone /\ b \in Buffers
    BY DEF Carried, Buf, GruH, Alone, Buffers
  <2> QED  BY <2>1, AloneApart
<1>6. \A b \in after : holds'[b] = Whole
  <2> SUFFICES ASSUME NEW b \in after  PROVE holds'[b] = Whole
    OBVIOUS
  <2>1. CASE b \in c.writes  BY <1>3, <1>4, <2>1
  <2>2. CASE b \notin c.writes  BY <1>2, <1>3, <1>4, <2>2
  <2> QED  BY <2>1, <2>2
<1>7. \A b \in Carried \ after : holds'[b] = Earlier
  <2> SUFFICES ASSUME NEW b \in Carried \ after  PROVE holds'[b] = Earlier
    OBVIOUS
  <2>1. b \notin c.writes /\ b \notin Live  BY <1>3
  <2> QED  BY <1>2, <1>4, <1>5, <2>1
<1>8. holds' \in [Buffers -> [frames : SUBSET (1 .. MaxFrames), at : -1 .. MaxFrames]]
  <2>1. /\ fed \in 0 .. MaxFrames /\ base \in 0 .. fed /\ MaxFrames \in Nat
        /\ holds \in [Buffers -> [frames : SUBSET (1 .. MaxFrames), at : -1 .. MaxFrames]]
    BY MaxFramesAssumption DEF PipelineInv, Place, HoldsType
  <2> DEFINE T == [frames : SUBSET (1 .. MaxFrames), at : -1 .. MaxFrames]
  <2>2. Whole \in T /\ Clobbered \in T  BY <2>1 DEF Whole, Clobbered
  <2>3. \A b \in Buffers : holds[b] \in T  BY <2>1
  <2> HIDE DEF T
  <2>4. \A b \in Buffers : holds'[b] \in T  BY <1>4, <2>2, <2>3
  <2>5. holds' = [b \in Buffers |-> holds'[b]]  BY DEF Execute
  <2>6. holds' \in [Buffers -> T]  BY <2>4, <2>5
  <2> QED  BY <2>6 DEF T
<1> QED  BY <1>6, <1>7, <1>8

\* What the stage of ls leaves is what the stage of ms finds.
Leads(ls, ms) ==
  ms[1] \subseteq ls[Len(ls)] /\ Carried \cap ls[Len(ls)] \subseteq ms[1]

\* The stages follow one another as their calls do.
LEMMA StagesLead ==
  ASSUME NEW b \in Nat, NEW h \in Nat
  PROVE  /\ Leads(FoundStft, FoundEncPre)
         /\ Leads(FoundEncPre, FoundEnc(1))
         /\ Leads(FoundEnc(b), FoundEnc(b + 1))
         /\ Leads(FoundEnc(EncBlocks), FoundRfPre)
         /\ Leads(FoundRfPre, FoundGru(1))
         /\ Leads(FoundGru(b), FoundPe(b))
         /\ Leads(FoundGru(b), FoundMhsaIn(b))
         /\ Leads(FoundPe(b), FoundMhsaIn(b))
         /\ Leads(FoundMhsaIn(b), FoundHead(b, 1))
         /\ Leads(FoundHead(b, h), FoundHead(b, h + 1))
         /\ Leads(FoundHead(b, Heads), FoundMhsaOut(b))
         /\ Leads(FoundMhsaOut(b), FoundGru(b + 1))
         /\ Leads(FoundMhsaOut(RfBlocks), FoundRfPost)
         /\ Leads(FoundRfPost, FoundDec)
         /\ Leads(FoundDec, FoundDec)
         /\ Leads(FoundDec, FoundDecPost)
         /\ Leads(FoundDecPost, FoundIstft)
         /\ Leads(FoundIstft, <<Carried \cup {Buf("out")}>>)
<1>1. Buf("buf_a") \notin Carried /\ Buf("buf_b") \notin Carried /\ Buf("rf_b") \notin Carried
  BY DEF Buf, GruH, Carried
<1>2. b + 1 - 1 = b /\ h + 1 - 1 = h /\ 1 - 1 = 0  OBVIOUS
<1>3. Leads(FoundStft, FoundEncPre)
  BY <1>1, <1>2 DEF FoundStft, FoundEncPre, Leads
<1>4. Leads(FoundEncPre, FoundEnc(1))
  BY <1>1, <1>2 DEF FoundEncPre, FoundEnc, Leads, Current
<1>5. Leads(FoundEnc(b), FoundEnc(b + 1))
  BY <1>1, <1>2 DEF FoundEnc, Leads, Current
<1>6. Leads(FoundEnc(EncBlocks), FoundRfPre)
  BY <1>1, <1>2 DEF FoundEnc, FoundRfPre, Leads, Current
<1>7. Leads(FoundRfPre, FoundGru(1))
  BY <1>1, <1>2 DEF FoundRfPre, FoundGru, Leads
<1>8. Leads(FoundGru(b), FoundPe(b))
  BY <1>1, <1>2 DEF FoundGru, FoundPe, Leads
<1>9. Leads(FoundGru(b), FoundMhsaIn(b))
  BY <1>1, <1>2 DEF FoundGru, FoundMhsaIn, Leads
<1>10. Leads(FoundPe(b), FoundMhsaIn(b))
  BY <1>1, <1>2 DEF FoundPe, FoundMhsaIn, Leads
<1>11. Leads(FoundMhsaIn(b), FoundHead(b, 1))
  BY <1>1, <1>2 DEF FoundMhsaIn, FoundHead, Leads
<1>12. Leads(FoundHead(b, h), FoundHead(b, h + 1))
  BY <1>1, <1>2 DEF FoundHead, Leads
<1>13. Leads(FoundHead(b, Heads), FoundMhsaOut(b))
  BY <1>1, <1>2 DEF FoundHead, FoundMhsaOut, Leads
<1>14. Leads(FoundMhsaOut(b), FoundGru(b + 1))
  BY <1>1, <1>2 DEF FoundMhsaOut, FoundGru, Leads
<1>15. Leads(FoundMhsaOut(RfBlocks), FoundRfPost)
  BY <1>1, <1>2 DEF FoundMhsaOut, FoundRfPost, Leads, Residual, Post
<1>16. Leads(FoundRfPost, FoundDec)
  BY <1>1, <1>2 DEF FoundRfPost, FoundDec, Leads
<1>17. Leads(FoundDec, FoundDec)
  BY <1>1, <1>2 DEF FoundDec, Leads
<1>18. Leads(FoundDec, FoundDecPost)
  BY <1>1, <1>2 DEF FoundDec, FoundDecPost, Leads
<1>19. Leads(FoundDecPost, FoundIstft)
  BY <1>1, <1>2 DEF FoundDecPost, FoundIstft, Leads
<1>20. Leads(FoundIstft, <<Carried \cup {Buf("out")}>>)
  BY <1>1, <1>2 DEF FoundIstft, Leads
<1> QED
  BY <1>3, <1>4, <1>5, <1>6, <1>7, <1>8, <1>9, <1>10, <1>11,
     <1>12, <1>13, <1>14, <1>15, <1>16, <1>17, <1>18, <1>19, <1>20

\* Each stage leaves what the next one finds.
LEMMA StageHandsOver ==
  ASSUME Place, NextStage, base < fed, UNCHANGED <<fed, base>>, call + 1 = Len(Found)
  PROVE  /\ Place'
         /\ Live' \subseteq Found[call + 1]
         /\ Carried \cap Found[call + 1] \subseteq Live'
<1>1. InPlace(stage, blk, head) /\ fed \in 0 .. MaxFrames /\ base \in 0 .. fed  BY DEF Place
<1>2. EncBlocks \in Nat \ {0} /\ RfBlocks \in Nat \ {0} /\ Heads \in Nat \ {0}
  BY BlocksAssumption
<1>3. /\ Found = FoundAt(stage, blk, head, Output)
      /\ Found' = FoundAt(stage', blk', head', Output')
      /\ fed' = fed /\ base' = base /\ call' = 1
  BY DEF Found, NextStage, GoTo
<1>4. Output' = {Buf("out")}  BY <1>3 DEF Output
<1>5. blk \in Nat /\ head \in Nat  BY <1>1, <1>2 DEF InPlace, Stages
<1>6. ASSUME NEW ls, NEW ms, Found = ls, Found' = ms, Leads(ls, ms),
             InPlace(stage', blk', head'),
             stage' # "idle" => Len(ms) \in Nat /\ Len(ms) >= 2
      PROVE  /\ Place'
             /\ Live' \subseteq Found[call + 1]
             /\ Carried \cap Found[call + 1] \subseteq Live'
  <2>1. Live' = ms[1] /\ Found[call + 1] = ls[Len(ls)]  BY <1>3, <1>6 DEF Live
  <2>2. Place'  BY <1>1, <1>3, <1>6 DEF Place
  <2> QED  BY <1>6, <2>1, <2>2 DEF Leads
<1>7. CASE stage = "stft" /\ GoTo("enc_pre", 0, 0)
  <2>1. stage' = "enc_pre" /\ blk' = 0 /\ head' = 0  BY <1>7 DEF GoTo
  <2>2. InPlace(stage', blk', head')  BY <1>1, <1>2, <1>7, <2>1 DEF InPlace, Stages
  <2>3. Found = FoundStft /\ Found' = FoundEncPre  BY <1>3, <1>4, <1>7, <2>1, FoundIn
  <2>4. Leads(FoundStft, FoundEncPre)  BY <1>5, <1>7, StagesLead
  <2>5. Len(FoundEncPre) \in Nat /\ Len(FoundEncPre) >= 2  BY DEF FoundEncPre
  <2> QED  BY <1>6, <2>2, <2>3, <2>4, <2>5
<1>8. CASE stage = "enc_pre" /\ GoTo("enc", 1, 0)
  <2>1. stage' = "enc" /\ blk' = 1 /\ head' = 0  BY <1>8 DEF GoTo
  <2>2. InPlace(stage', blk', head')  BY <1>1, <1>2, <1>8, <2>1 DEF InPlace, Stages
  <2>3. Found = FoundEncPre /\ Found' = FoundEnc(1)  BY <1>3, <1>4, <1>8, <2>1, FoundIn
  <2>4. Leads(FoundEncPre, FoundEnc(1))  BY <1>5, <1>8, StagesLead
  <2>5. Len(FoundEnc(1)) \in Nat /\ Len(FoundEnc(1)) >= 2  BY DEF FoundEnc
  <2> QED  BY <1>6, <2>2, <2>3, <2>4, <2>5
<1>9. CASE stage = "enc" /\ blk < EncBlocks /\ GoTo("enc", blk + 1, 0)
  <2>1. stage' = "enc" /\ blk' = blk + 1 /\ head' = 0  BY <1>9 DEF GoTo
  <2>2. InPlace(stage', blk', head')  BY <1>1, <1>2, <1>9, <2>1 DEF InPlace, Stages
  <2>3. Found = FoundEnc(blk) /\ Found' = FoundEnc(blk + 1)  BY <1>3, <1>4, <1>9, <2>1, FoundIn
  <2>4. Leads(FoundEnc(blk), FoundEnc(blk + 1))  BY <1>5, <1>9, StagesLead
  <2>5. Len(FoundEnc(blk + 1)) \in Nat /\ Len(FoundEnc(blk + 1)) >= 2  BY DEF FoundEnc
  <2> QED  BY <1>6, <2>2, <2>3, <2>4, <2>5
<1>10. CASE stage = "enc" /\ blk = EncBlocks /\ GoTo("rf_pre", 0, 0)
  <2>1. stage' = "rf_pre" /\ blk' = 0 /\ head' = 0  BY <1>10 DEF GoTo
  <2>2. InPlace(stage', blk', head')  BY <1>1, <1>2, <1>10, <2>1 DEF InPlace, Stages
  <2>3. Found = FoundEnc(blk) /\ Found' = FoundRfPre  BY <1>3, <1>4, <1>10, <2>1, FoundIn
  <2>4. Leads(FoundEnc(blk), FoundRfPre)  BY <1>5, <1>10, StagesLead
  <2>5. Len(FoundRfPre) \in Nat /\ Len(FoundRfPre) >= 2  BY DEF FoundRfPre
  <2> QED  BY <1>6, <2>2, <2>3, <2>4, <2>5
<1>11. CASE stage = "rf_pre" /\ GoTo("gru", 1, 0)
  <2>1. stage' = "gru" /\ blk' = 1 /\ head' = 0  BY <1>11 DEF GoTo
  <2>2. InPlace(stage', blk', head')  BY <1>1, <1>2, <1>11, <2>1 DEF InPlace, Stages
  <2>3. Found = FoundRfPre /\ Found' = FoundGru(1)  BY <1>3, <1>4, <1>11, <2>1, FoundIn
  <2>4. Leads(FoundRfPre, FoundGru(1))  BY <1>5, <1>11, StagesLead
  <2>5. Len(FoundGru(1)) \in Nat /\ Len(FoundGru(1)) >= 2  BY DEF FoundGru
  <2> QED  BY <1>6, <2>2, <2>3, <2>4, <2>5
<1>12. CASE stage = "gru" /\ blk = 1 /\ GoTo("pe", 1, 0)
  <2>1. stage' = "pe" /\ blk' = 1 /\ head' = 0  BY <1>12 DEF GoTo
  <2>2. InPlace(stage', blk', head')  BY <1>1, <1>2, <1>12, <2>1 DEF InPlace, Stages
  <2>3. Found = FoundGru(blk) /\ Found' = FoundPe(1)  BY <1>3, <1>4, <1>12, <2>1, FoundIn
  <2>4. Leads(FoundGru(blk), FoundPe(1))  BY <1>5, <1>12, StagesLead
  <2>5. Len(FoundPe(1)) \in Nat /\ Len(FoundPe(1)) >= 2  BY DEF FoundPe
  <2> QED  BY <1>6, <2>2, <2>3, <2>4, <2>5
<1>13. CASE stage = "gru" /\ blk # 1 /\ GoTo("mhsa_in", blk, 0)
  <2>1. stage' = "mhsa_in" /\ blk' = blk /\ head' = 0  BY <1>13 DEF GoTo
  <2>2. InPlace(stage', blk', head')  BY <1>1, <1>2, <1>13, <2>1 DEF InPlace, Stages
  <2>3. Found = FoundGru(blk) /\ Found' = FoundMhsaIn(blk)  BY <1>3, <1>4, <1>13, <2>1, FoundIn
  <2>4. Leads(FoundGru(blk), FoundMhsaIn(blk))  BY <1>5, <1>13, StagesLead
  <2>5. Len(FoundMhsaIn(blk)) \in Nat /\ Len(FoundMhsaIn(blk)) >= 2  BY DEF FoundMhsaIn
  <2> QED  BY <1>6, <2>2, <2>3, <2>4, <2>5
<1>14. CASE stage = "pe" /\ GoTo("mhsa_in", blk, 0)
  <2>1. stage' = "mhsa_in" /\ blk' = blk /\ head' = 0  BY <1>14 DEF GoTo
  <2>2. InPlace(stage', blk', head')  BY <1>1, <1>2, <1>14, <2>1 DEF InPlace, Stages
  <2>3. Found = FoundPe(blk) /\ Found' = FoundMhsaIn(blk)  BY <1>3, <1>4, <1>14, <2>1, FoundIn
  <2>4. Leads(FoundPe(blk), FoundMhsaIn(blk))  BY <1>5, <1>14, StagesLead
  <2>5. Len(FoundMhsaIn(blk)) \in Nat /\ Len(FoundMhsaIn(blk)) >= 2  BY DEF FoundMhsaIn
  <2> QED  BY <1>6, <2>2, <2>3, <2>4, <2>5
<1>15. CASE stage = "mhsa_in" /\ GoTo("head", blk, 1)
  <2>1. stage' = "head" /\ blk' = blk /\ head' = 1  BY <1>15 DEF GoTo
  <2>2. InPlace(stage', blk', head')  BY <1>1, <1>2, <1>15, <2>1 DEF InPlace, Stages
  <2>3. Found = FoundMhsaIn(blk) /\ Found' = FoundHead(blk, 1)
    BY <1>3, <1>4, <1>15, <2>1, FoundIn
  <2>4. Leads(FoundMhsaIn(blk), FoundHead(blk, 1))  BY <1>5, <1>15, StagesLead
  <2>5. Len(FoundHead(blk, 1)) \in Nat /\ Len(FoundHead(blk, 1)) >= 2  BY DEF FoundHead
  <2> QED  BY <1>6, <2>2, <2>3, <2>4, <2>5
<1>16. CASE stage = "head" /\ head < Heads /\ GoTo("head", blk, head + 1)
  <2>1. stage' = "head" /\ blk' = blk /\ head' = head + 1  BY <1>16 DEF GoTo
  <2>2. InPlace(stage', blk', head')  BY <1>1, <1>2, <1>16, <2>1 DEF InPlace, Stages
  <2>3. Found = FoundHead(blk, head) /\ Found' = FoundHead(blk, head + 1)
    BY <1>3, <1>4, <1>16, <2>1, FoundIn
  <2>4. Leads(FoundHead(blk, head), FoundHead(blk, head + 1))  BY <1>5, <1>16, StagesLead
  <2>5. Len(FoundHead(blk, head + 1)) \in Nat /\ Len(FoundHead(blk, head + 1)) >= 2
    BY DEF FoundHead
  <2> QED  BY <1>6, <2>2, <2>3, <2>4, <2>5
<1>17. CASE stage = "head" /\ head = Heads /\ GoTo("mhsa_out", blk, 0)
  <2>1. stage' = "mhsa_out" /\ blk' = blk /\ head' = 0  BY <1>17 DEF GoTo
  <2>2. InPlace(stage', blk', head')  BY <1>1, <1>2, <1>17, <2>1 DEF InPlace, Stages
  <2>3. Found = FoundHead(blk, head) /\ Found' = FoundMhsaOut(blk)
    BY <1>3, <1>4, <1>17, <2>1, FoundIn
  <2>4. Leads(FoundHead(blk, head), FoundMhsaOut(blk))  BY <1>5, <1>17, StagesLead
  <2>5. Len(FoundMhsaOut(blk)) \in Nat /\ Len(FoundMhsaOut(blk)) >= 2  BY DEF FoundMhsaOut
  <2> QED  BY <1>6, <2>2, <2>3, <2>4, <2>5
<1>18. CASE stage = "mhsa_out" /\ blk < RfBlocks /\ GoTo("gru", blk + 1, 0)
  <2>1. stage' = "gru" /\ blk' = blk + 1 /\ head' = 0  BY <1>18 DEF GoTo
  <2>2. InPlace(stage', blk', head')  BY <1>1, <1>2, <1>18, <2>1 DEF InPlace, Stages
  <2>3. Found = FoundMhsaOut(blk) /\ Found' = FoundGru(blk + 1)
    BY <1>3, <1>4, <1>18, <2>1, FoundIn
  <2>4. Leads(FoundMhsaOut(blk), FoundGru(blk + 1))  BY <1>5, <1>18, StagesLead
  <2>5. Len(FoundGru(blk + 1)) \in Nat /\ Len(FoundGru(blk + 1)) >= 2  BY DEF FoundGru
  <2> QED  BY <1>6, <2>2, <2>3, <2>4, <2>5
<1>19. CASE stage = "mhsa_out" /\ blk = RfBlocks /\ GoTo("rf_post", 0, 0)
  <2>1. stage' = "rf_post" /\ blk' = 0 /\ head' = 0  BY <1>19 DEF GoTo
  <2>2. InPlace(stage', blk', head')  BY <1>1, <1>2, <1>19, <2>1 DEF InPlace, Stages
  <2>3. Found = FoundMhsaOut(blk) /\ Found' = FoundRfPost  BY <1>3, <1>4, <1>19, <2>1, FoundIn
  <2>4. Leads(FoundMhsaOut(blk), FoundRfPost)  BY <1>5, <1>19, StagesLead
  <2>5. Len(FoundRfPost) \in Nat /\ Len(FoundRfPost) >= 2  BY DEF FoundRfPost
  <2> QED  BY <1>6, <2>2, <2>3, <2>4, <2>5
<1>20. CASE stage = "rf_post" /\ GoTo("dec", 1, 0)
  <2>1. stage' = "dec" /\ blk' = 1 /\ head' = 0  BY <1>20 DEF GoTo
  <2>2. InPlace(stage', blk', head')  BY <1>1, <1>2, <1>20, <2>1 DEF InPlace, Stages
  <2>3. Found = FoundRfPost /\ Found' = FoundDec  BY <1>3, <1>4, <1>20, <2>1, FoundIn
  <2>4. Leads(FoundRfPost, FoundDec)  BY <1>5, <1>20, StagesLead
  <2>5. Len(FoundDec) \in Nat /\ Len(FoundDec) >= 2  BY DEF FoundDec
  <2> QED  BY <1>6, <2>2, <2>3, <2>4, <2>5
<1>21. CASE stage = "dec" /\ blk < EncBlocks /\ GoTo("dec", blk + 1, 0)
  <2>1. stage' = "dec" /\ blk' = blk + 1 /\ head' = 0  BY <1>21 DEF GoTo
  <2>2. InPlace(stage', blk', head')  BY <1>1, <1>2, <1>21, <2>1 DEF InPlace, Stages
  <2>3. Found = FoundDec /\ Found' = FoundDec  BY <1>3, <1>4, <1>21, <2>1, FoundIn
  <2>4. Leads(FoundDec, FoundDec)  BY <1>5, <1>21, StagesLead
  <2>5. Len(FoundDec) \in Nat /\ Len(FoundDec) >= 2  BY DEF FoundDec
  <2> QED  BY <1>6, <2>2, <2>3, <2>4, <2>5
<1>22. CASE stage = "dec" /\ blk = EncBlocks /\ GoTo("dec_post", 0, 0)
  <2>1. stage' = "dec_post" /\ blk' = 0 /\ head' = 0  BY <1>22 DEF GoTo
  <2>2. InPlace(stage', blk', head')  BY <1>1, <1>2, <1>22, <2>1 DEF InPlace, Stages
  <2>3. Found = FoundDec /\ Found' = FoundDecPost  BY <1>3, <1>4, <1>22, <2>1, FoundIn
  <2>4. Leads(FoundDec, FoundDecPost)  BY <1>5, <1>22, StagesLead
  <2>5. Len(FoundDecPost) \in Nat /\ Len(FoundDecPost) >= 2  BY DEF FoundDecPost
  <2> QED  BY <1>6, <2>2, <2>3, <2>4, <2>5
<1>23. CASE stage = "dec_post" /\ GoTo("istft", 0, 0)
  <2>1. stage' = "istft" /\ blk' = 0 /\ head' = 0  BY <1>23 DEF GoTo
  <2>2. InPlace(stage', blk', head')  BY <1>1, <1>2, <1>23, <2>1 DEF InPlace, Stages
  <2>3. Found = FoundDecPost /\ Found' = FoundIstft  BY <1>3, <1>4, <1>23, <2>1, FoundIn
  <2>4. Leads(FoundDecPost, FoundIstft)  BY <1>5, <1>23, StagesLead
  <2>5. Len(FoundIstft) \in Nat /\ Len(FoundIstft) >= 2  BY DEF FoundIstft
  <2> QED  BY <1>6, <2>2, <2>3, <2>4, <2>5
<1>24. CASE stage = "istft" /\ GoTo("idle", 0, 0)
  <2>1. stage' = "idle" /\ blk' = 0 /\ head' = 0  BY <1>24 DEF GoTo
  <2>2. InPlace(stage', blk', head')  BY <1>1, <1>2, <1>24, <2>1 DEF InPlace, Stages
  <2>3. Found = FoundIstft /\ Found' = <<Carried \cup {Buf("out")}>>
    BY <1>3, <1>4, <1>24, <2>1, FoundIn
  <2>4. Leads(FoundIstft, <<Carried \cup {Buf("out")}>>)  BY <1>5, <1>24, StagesLead
  <2> QED  BY <1>6, <2>1, <2>2, <2>3, <2>4
<1> QED
  BY <1>7, <1>8, <1>9, <1>10, <1>11, <1>12, <1>13, <1>14, <1>15,
     <1>16, <1>17, <1>18, <1>19, <1>20, <1>21, <1>22, <1>23, <1>24 DEF NextStage

\* Every call of fe_process_frame keeps the invariant.
LEMMA StepKeepsInvariant == PipelineInv /\ Step => PipelineInv'
<1> SUFFICES ASSUME PipelineInv, Step  PROVE PipelineInv'
  OBVIOUS
<1>1. /\ Place /\ stage # "idle" /\ base < fed
      /\ call \in Nat /\ call <= Len(Calls) /\ Flow(Calls[call], Live, Found[call + 1])
      /\ Execute(Calls[call]) /\ UNCHANGED <<fed, base>>
      /\ NextCall \/ (call = Len(Calls) /\ NextStage)
  BY CallFlows DEF PipelineInv, Step, Place
<1>2. Len(Found) = Len(Calls) + 1  BY <1>1, StageFlows DEF Flows
<1>3. /\ \A b \in Found[call + 1] : holds'[b] = Whole
      /\ \A b \in Carried \ Found[call + 1] : holds'[b] = Earlier
      /\ HoldsType'
  BY <1>1, ExecuteFlow DEF HoldsType
<1>4. Buf("in") \notin Found[call + 1]  BY <1>1 DEF Flow
<1>5. /\ Place'
      /\ Live' \subseteq Found[call + 1]
      /\ Carried \cap Found[call + 1] \subseteq Live'
  <2>1. CASE NextCall
    <3>1. /\ stage' = stage /\ blk' = blk /\ head' = head /\ call' = call + 1
          /\ call < Len(Calls) /\ fed' = fed /\ base' = base
      BY <1>1, <2>1 DEF NextCall
    <3>2. Found' = Found  BY <3>1 DEF Found, Output
    <3>3. Live' = Found[call + 1]  BY <3>1, <3>2 DEF Live
    <3>4. call + 1 \in 1 .. Len(Found) - 1  BY <1>1, <1>2, <3>1 DEF Place
    <3>5. Place'  BY <1>1, <3>1, <3>2, <3>4 DEF Place
    <3> QED  BY <3>3, <3>5
  <2>2. CASE call = Len(Calls) /\ NextStage
    BY <1>1, <1>2, <2>2, StageHandsOver
  <2> QED  BY <1>1, <2>1, <2>2
<1>6. Whole' = Whole /\ Earlier' = Earlier  BY <1>1 DEF Whole, Earlier
<1>7. Contents'
  <2>1. \A b \in Live' : holds'[b] = Whole' /\ b # Buf("in")  BY <1>3, <1>4, <1>5, <1>6
  <2>2. \A b \in Carried \ Live' : holds'[b] = Earlier'  BY <1>3, <1>5, <1>6
  <2> QED  BY <2>1, <2>2 DEF Contents
<1> QED  BY <1>3, <1>5, <1>7 DEF PipelineInv

\* What waits between two frames.
LEMMA IdleLive ==
  ASSUME stage = "idle", call = 1
  PROVE  Live = Carried \cup Output
BY FoundIn DEF Live, Found

\* With a new frame, what was carried is of the frame before.
LEMMA BeginKeepsInvariant == PipelineInv /\ Begin => PipelineInv'
<1> SUFFICES ASSUME PipelineInv, Begin  PROVE PipelineInv'
  OBVIOUS
<1>1. /\ stage = "idle" /\ call = 1 /\ fed \in 0 .. MaxFrames /\ base \in 0 .. fed
      /\ MaxFrames \in Nat /\ fed < MaxFrames
      /\ stage' = "stft" /\ blk' = 0 /\ head' = 0 /\ call' = 1
      /\ fed' = fed + 1 /\ base' = base
      /\ holds' = [holds EXCEPT ![Buf("in")] = [frames |-> {fed'}, at |-> fed']]
  BY MaxFramesAssumption DEF PipelineInv, Place, Begin, GoTo
<1>2. Found' = FoundStft  BY <1>1, FoundIn DEF Found
<1>3. Live' = {Buf("in")} /\ Len(Found') = 5  BY <1>1, <1>2 DEF Live, FoundStft
<1>4. Place'
  <2>1. InPlace(stage', blk', head')  BY <1>1 DEF InPlace, Stages
  <2> QED  BY <1>1, <1>3, <2>1 DEF Place
<1>5. Buf("in") \in Buffers /\ Buf("in") \notin Carried /\ Carried \subseteq Buffers
  BY DEF Buf, GruH, Buffers, Carried
<1>6. /\ holds'[Buf("in")] = [frames |-> {fed'}, at |-> fed']
      /\ \A b \in Buffers : b # Buf("in") => holds'[b] = holds[b]
  BY <1>1, <1>5 DEF PipelineInv, HoldsType
<1>7. HoldsType'
  <2> DEFINE T == [frames : SUBSET (1 .. MaxFrames), at : -1 .. MaxFrames]
  <2>1. [frames |-> {fed'}, at |-> fed'] \in T  BY <1>1
  <2>2. holds \in [Buffers -> T]  BY DEF PipelineInv, HoldsType
  <2> HIDE DEF T
  <2>3. holds' \in [Buffers -> T]  BY <1>1, <2>1, <2>2
  <2> QED  BY <2>3 DEF HoldsType, T
<1>8. Earlier' = Whole
  <2>1. fed' - 1 = fed /\ base' = base  BY <1>1
  <2> QED  BY <2>1 DEF Earlier, Whole
<1>9. \A b \in Carried : holds[b] = Whole
  <2>1. Live = Carried \cup Output  BY <1>1, IdleLive
  <2> QED  BY <1>5, <2>1 DEF PipelineInv, Contents
<1>10. Contents'
  <2>1. \A b \in Live' : b = Buf("in") /\ holds'[b] = [frames |-> {fed'}, at |-> fed']
    BY <1>3, <1>6
  <2>2. \A b \in Carried \ Live' : holds'[b] = Earlier'  BY <1>5, <1>6, <1>8, <1>9
  <2> QED  BY <2>1, <2>2 DEF Contents
<1> QED  BY <1>4, <1>7, <1>10 DEF PipelineInv

\* After fe_reset what is carried is that of a stream without a frame.
LEMMA ResetKeepsInvariant == PipelineInv /\ Reset => PipelineInv'
<1> SUFFICES ASSUME PipelineInv, Reset  PROVE PipelineInv'
  OBVIOUS
<1>1. /\ stage = "idle" /\ call = 1 /\ fed \in 0 .. MaxFrames /\ base \in 0 .. fed
      /\ MaxFrames \in Nat
      /\ stage' = "idle" /\ blk' = blk /\ head' = head /\ call' = 1
      /\ fed' = fed /\ base' = fed
      /\ holds' = [b \in Buffers |->
                     IF b \in Carried THEN [Blank EXCEPT !.at = fed] ELSE holds[b]]
  BY MaxFramesAssumption DEF PipelineInv, Place, Reset, Zeroed, control
<1>2. [Blank EXCEPT !.at = fed] = [frames |-> {}, at |-> fed]  BY DEF Blank
<1>3. Output' = {}  BY <1>1 DEF Output
<1>4. Live' = Carried
  <2>1. Found' = <<Carried \cup {}>>  BY <1>1, <1>3, FoundIn DEF Found
  <2> QED  BY <1>1, <2>1 DEF Live
<1>5. Place'
  <2>1. InPlace(stage', blk', head')  BY <1>1 DEF PipelineInv, Place
  <2> QED  BY <1>1, <2>1 DEF Place
<1>6. HoldsType'
  <2> DEFINE T == [frames : SUBSET (1 .. MaxFrames), at : -1 .. MaxFrames]
  <2>1. [frames |-> {}, at |-> fed] \in T  BY <1>1
  <2>2. holds \in [Buffers -> T]  BY DEF PipelineInv, HoldsType
  <2> HIDE DEF T
  <2>3. holds' \in [Buffers -> T]  BY <1>1, <1>2, <2>1, <2>2
  <2> QED  BY <2>3 DEF HoldsType, T
<1>7. Carried \subseteq Buffers /\ Buf("in") \notin Carried
  BY DEF Buf, GruH, Buffers, Carried
<1>8. Whole' = [frames |-> {}, at |-> fed]
  <2>1. base' + 1 .. fed' = {}  BY <1>1
  <2> QED  BY <1>1, <2>1 DEF Whole
<1>9. Contents'
  <2>1. \A b \in Carried : holds'[b] = Whole'  BY <1>1, <1>2, <1>7, <1>8
  <2> QED  BY <1>4, <1>7, <2>1 DEF Contents
<1> QED  BY <1>5, <1>6, <1>9 DEF PipelineInv

\* So it is after fe_state_create.
LEMMA InitPipeline == Init => PipelineInv
<1> SUFFICES ASSUME Init  PROVE PipelineInv
  OBVIOUS
<1>1. /\ stage = "idle" /\ blk = 0 /\ head = 0 /\ call = 1 /\ fed = 0 /\ base = 0
      /\ MaxFrames \in Nat /\ holds = [b \in Buffers |-> Blank]
  BY MaxFramesAssumption DEF Init
<1>2. Output = {}  BY <1>1 DEF Output
<1>3. Live = Carried  BY <1>1, <1>2, IdleLive
<1>4. Place
  <2>1. InPlace(stage, blk, head)  BY <1>1 DEF InPlace, Stages
  <2> QED  BY <1>1, <2>1 DEF Place
<1>5. HoldsType  BY <1>1 DEF HoldsType, Blank
<1>6. Carried \subseteq Buffers /\ Buf("in") \notin Carried
  BY DEF Buf, GruH, Buffers, Carried
<1>7. Whole = Blank
  <2>1. base + 1 .. fed = {}  BY <1>1
  <2> QED  BY <1>1, <2>1 DEF Whole, Blank
<1>8. Contents  BY <1>1, <1>3, <1>6, <1>7 DEF Contents
<1> QED  BY <1>4, <1>5, <1>8 DEF PipelineInv

-----------------------------------------------------------------------------
(* The properties *)

\* What every buffer holds that a call is about to read, and what is carried
\* into the next frame, in every state that fe_run and fe_reset reach.
THEOREM PipelineInvariant == Spec => []PipelineInv
<1>1. PipelineInv /\ [Next]_vars => PipelineInv'
  <2>1. PipelineInv /\ UNCHANGED vars => PipelineInv'
    <3> SUFFICES ASSUME PipelineInv, UNCHANGED vars  PROVE PipelineInv'
      OBVIOUS
    <3>1. /\ stage' = stage /\ blk' = blk /\ head' = head /\ call' = call
          /\ holds' = holds /\ fed' = fed /\ base' = base
      BY DEF vars
    <3>2. Found' = Found  BY <3>1 DEF Found, Output
    <3>3. Live' = Live  BY <3>1, <3>2 DEF Live
    <3>4. Place'  BY <3>1, <3>2 DEF PipelineInv, Place
    <3>5. Contents'
      <4>1. Whole' = Whole /\ Earlier' = Earlier  BY <3>1 DEF Whole, Earlier
      <4> QED  BY <3>1, <3>3, <4>1 DEF PipelineInv, Contents
    <3> QED  BY <3>1, <3>4, <3>5 DEF PipelineInv, HoldsType
  <2> QED
    BY <2>1, StepKeepsInvariant, BeginKeepsInvariant, ResetKeepsInvariant DEF Next
<1> QED  BY <1>1, InitPipeline, PTL DEF Spec

\* The values of every variable of the pipeline.
THEOREM PipelineTypeOK == Spec => []TypeOK
<1>1. ASSUME PipelineInv  PROVE TypeOK
  <2>1. /\ InPlace(stage, blk, head) /\ fed \in 0 .. MaxFrames /\ base \in 0 .. fed
        /\ IF stage = "idle" THEN call = 1 ELSE base < fed
    BY <1>1 DEF PipelineInv, Place
  <2>2. call \in {1} \cup 1 .. Len(Calls)
    <3>1. CASE stage = "idle"  BY <2>1, <3>1
    <3>2. CASE stage # "idle"
      <4>1. Flows(Calls, Found) /\ call \in 1 .. Len(Found) - 1
        BY <1>1, <3>2, StageFlows DEF PipelineInv, Place
      <4> QED  BY <4>1 DEF Flows
    <3> QED  BY <3>1, <3>2
  <2>3. /\ stage \in Stages
        /\ blk \in (0 .. EncBlocks) \cup (0 .. RfBlocks) /\ head \in 0 .. Heads
    BY <2>1, BlocksAssumption DEF InPlace
  <2> QED  BY <1>1, <2>1, <2>2, <2>3 DEF TypeOK, PipelineInv, HoldsType
<1> QED  BY <1>1, PipelineInvariant, PTL

\* What a call is about to read holds the whole stream, written in this frame.
LEMMA ReadsAreLive ==
  ASSUME PipelineInv, stage # "idle"
  PROVE  /\ Reading = Calls[call].reads /\ Writing = Calls[call].writes
         /\ \A b \in Reading : \/ b \in Live /\ holds[b].at = fed
                               \/ b \in Carried /\ holds[b].at = fed - 1
         /\ \A b \in Reading, w \in Writing : ~SharesMemory(b, w)
         /\ fed \in Nat /\ fed >= 1
<1>1. Flow(Calls[call], Live, Found[call + 1])  BY CallFlows DEF PipelineInv
<1>2. Reading = Calls[call].reads /\ Writing = Calls[call].writes  BY DEF Reading, Writing
<1>3. /\ \A b \in Live : holds[b].at = fed
      /\ \A b \in Carried \ Live : holds[b].at = fed - 1
  <2>1. [frames |-> {fed}, at |-> fed].at = fed /\ Whole.at = fed /\ Earlier.at = fed - 1
    BY DEF Whole, Earlier
  <2>2. \A b \in Live : b = Buf("in") => holds[b].at = fed
    BY <2>1 DEF PipelineInv, Contents
  <2>3. \A b \in Live : b # Buf("in") => holds[b].at = fed
    BY <2>1 DEF PipelineInv, Contents
  <2>4. \A b \in Carried \ Live : holds[b].at = fed - 1
    BY <2>1 DEF PipelineInv, Contents
  <2> QED  BY <2>2, <2>3, <2>4
<1>4. \A b \in Reading : b \in Live \/ b \in Carried \ Live  BY <1>1, <1>2 DEF Flow
<1>5. \A b \in Reading, w \in Writing : ~SharesMemory(b, w)  BY <1>1, <1>2 DEF Flow
<1>6. fed \in Nat /\ fed >= 1  BY MaxFramesAssumption DEF PipelineInv, Place
<1> QED  BY <1>2, <1>3, <1>4, <1>5, <1>6

\* "never live at once": no call finds its input overwritten through another
\* name of the same memory.
THEOREM PipelineReadsIntact == Spec => []ReadsIntact
<1>1. ASSUME PipelineInv  PROVE ReadsIntact
  <2>1. CASE stage = "idle"  BY <2>1 DEF ReadsIntact, Reading
  <2>2. CASE stage # "idle"
    <3>1. \A b \in Reading : holds[b].at # -1  BY <1>1, <2>2, ReadsAreLive
    <3>2. \A b \in Reading : holds[b] # Clobbered  BY <3>1 DEF Clobbered
    <3>3. \A b \in Reading, w \in Writing : ~SharesMemory(b, w)  BY <1>1, <2>2, ReadsAreLive
    <3> QED  BY <3>2, <3>3 DEF ReadsIntact
  <2> QED  BY <2>1, <2>2
<1> QED  BY <1>1, PipelineInvariant, PTL

\* No call reads what an earlier frame left in a working buffer.
THEOREM PipelineReadsThisFrame == Spec => []ReadsThisFrame
<1>1. ASSUME PipelineInv  PROVE ReadsThisFrame
  <2>1. CASE stage = "idle"  BY <2>1 DEF ReadsThisFrame, Reading
  <2>2. CASE stage # "idle"  BY <1>1, <2>2, ReadsAreLive DEF ReadsThisFrame
  <2> QED  BY <2>1, <2>2
<1> QED  BY <1>1, PipelineInvariant, PTL

\* Between two frames the carried fields and the output depend on all the frames
\* of the current stream and on no other.
THEOREM PipelineStreamOnly == Spec => []StreamOnly
<1>1. ASSUME PipelineInv, stage = "idle"
      PROVE  \A b \in Carried \cup Output : holds[b].frames = base + 1 .. fed
  <2>1. call = 1  BY <1>1 DEF PipelineInv, Place
  <2>2. Live = Carried \cup Output  BY <1>1, <2>1, IdleLive
  <2>3. Buf("in") \notin Carried \cup Output  BY DEF Buf, Carried, GruH, Output
  <2>4. Whole.frames = base + 1 .. fed  BY DEF Whole
  <2> QED  BY <1>1, <2>2, <2>3, <2>4 DEF PipelineInv, Contents
<1>2. PipelineInv => StreamOnly  BY <1>1 DEF StreamOnly, Output
<1> QED  BY <1>2, PipelineInvariant, PTL
=============================================================================
