------------------------------- MODULE VadGate -------------------------------
(***************************************************************************)
(* The streaming VAD gate (vad_gate.py): frames of FRAME enhanced samples  *)
(* are collected into chunks of CHUNK samples, each chunk gets one speech  *)
(* verdict and one gain, and FRAME samples are returned per call.          *)
(*                                                                         *)
(* A sample is its position in the enhanced stream, 1, 2, ...; the zero    *)
(* that pads a returned frame is 0.  The gain is an integer out of Unit.   *)
(***************************************************************************)
EXTENDS Integers, Sequences, FiniteSets

CONSTANTS
  FRAME,      \* FRAME_SIZE: samples per call (320)
  CHUNK,      \* VAD_CHUNK_48K: samples per verdict (1536)
  Unit,       \* the gain 1.0
  Attenuated, \* _attenuation_gain
  Smoothing,  \* _smoothing, in per cent
  MayRaise,   \* whether the VAD model may raise
  MaxCalls    \* bound: calls of one stream

ASSUME FrameAssumption == FRAME \in Nat \ {0}
ASSUME ChunkAssumption == CHUNK \in Nat /\ FRAME <= CHUNK
ASSUME GainAssumption == Unit \in Nat /\ Attenuated \in 0 .. Unit /\ Smoothing \in 0 .. 100
ASSUME MayRaiseAssumption == MayRaise \in BOOLEAN
ASSUME CallsAssumption == MaxCalls \in Nat

VARIABLES
  enhBuffer,  \* _enh_buffer
  outBuffer,  \* _out_buffer
  gain,       \* _current_gain
  vadHeard,   \* last sample in the history of the VAD model
  calls,      \* calls of run() since construction or reset()
  returned    \* what the last call returned, <<>> if it raised or none was made

vars == <<enhBuffer, outBuffer, gain, vadHeard, calls, returned>>

Frame(k) == [i \in 1 .. FRAME |-> k * FRAME + i]
Zeros(n) == [i \in 1 .. n |-> 0]

Init ==
  /\ enhBuffer = <<>> /\ outBuffer = <<>>
  /\ gain = Unit /\ vadHeard = 0 /\ calls = 0 /\ returned = <<>>

\* Mutant: the weights of the average do not add up to one.
Smoothed_unbalanced(g, target) == (Smoothing * g) \div 100 + target

Smoothed(g, target) == (Smoothing * g + (100 - Smoothing) * target) \div 100

\* Mutant: the zeros come first.
FrameFrom_padsFirst(buf) ==
  IF Len(buf) >= FRAME THEN SubSeq(buf, 1, FRAME) ELSE Zeros(FRAME - Len(buf)) \o buf

\* Mutants: the last sample returned stays queued; a short frame is not taken off.
AfterFrame_offByOne(buf) ==
  IF Len(buf) >= FRAME THEN SubSeq(buf, FRAME, Len(buf)) ELSE <<>>
AfterFrame_keepsShort(buf) ==
  IF Len(buf) >= FRAME THEN SubSeq(buf, FRAME + 1, Len(buf)) ELSE buf

\* One frame from the head of the gated samples; what is missing stays zero.
FrameFrom(buf) ==
  IF Len(buf) >= FRAME THEN SubSeq(buf, 1, FRAME) ELSE buf \o Zeros(FRAME - Len(buf))
AfterFrame(buf) ==
  IF Len(buf) >= FRAME THEN SubSeq(buf, FRAME + 1, Len(buf)) ELSE <<>>

Emit(buf) == returned' = FrameFrom(buf) /\ outBuffer' = AfterFrame(buf)

Buffered == enhBuffer \o Frame(calls)
Called == calls < MaxCalls /\ calls' = calls + 1

\* Mutant: a chunk that is just full waits for another frame.
HasChunk_strict == Len(Buffered) > CHUNK
HasChunk == Len(Buffered) >= CHUNK

\* Not enough for a verdict yet.
RunBuffers ==
  /\ Called
  /\ ~HasChunk
  /\ enhBuffer' = Buffered
  /\ Emit(outBuffer)
  /\ UNCHANGED <<gain, vadHeard>>

\* A verdict, one smoothed gain, and the chunk joins the gated samples.
RunDecides(speech) ==
  /\ Called
  /\ HasChunk
  /\ enhBuffer' = SubSeq(Buffered, CHUNK + 1, Len(Buffered))
  /\ vadHeard' = Buffered[CHUNK]
  /\ gain' = Smoothed(gain, IF speech THEN Unit ELSE Attenuated)
  /\ Emit(outBuffer \o SubSeq(Buffered, 1, CHUNK))

\* The model raises: the chunk has left the buffer already, and the call
\* returns nothing.
RunRaises ==
  /\ MayRaise
  /\ Called
  /\ HasChunk
  /\ enhBuffer' = SubSeq(Buffered, CHUNK + 1, Len(Buffered))
  /\ vadHeard' \in {vadHeard, Buffered[CHUNK]}
  /\ returned' = <<>>
  /\ UNCHANGED <<outBuffer, gain>>

Reset ==
  /\ enhBuffer' = <<>> /\ outBuffer' = <<>>
  /\ gain' = Unit /\ vadHeard' = 0 /\ calls' = 0 /\ returned' = <<>>

Next ==
  \/ RunBuffers
  \/ \E speech \in BOOLEAN : RunDecides(speech)
  \/ RunRaises
  \/ Reset

Spec == Init /\ [][Next]_vars

-----------------------------------------------------------------------------
(* Properties *)

Samples == Nat \ {0}
Enhanced == calls * FRAME

TypeOK ==
  /\ enhBuffer \in Seq(Samples) /\ outBuffer \in Seq(Samples)
  /\ gain \in Attenuated .. Unit
  /\ vadHeard \in 0 .. Enhanced
  /\ calls \in 0 .. MaxCalls
  /\ returned \in Seq(Nat) /\ Len(returned) \in {0, FRAME}

\* What a returned frame holds before its padding.
Audio(frame) == SubSeq(frame, 1, Cardinality({i \in 1 .. Len(frame) : frame[i] # 0}))

\* The samples on their way: what the last call returned, then what waits gated,
\* then what waits for its verdict.
InFlight == Audio(returned) \o outBuffer \o enhBuffer

\* Samples leave in the order they came, none twice.  Only whole chunks are ever
\* missing between two of them, and the newest samples are all there.
InOrder ==
  /\ \A i \in 1 .. Len(InFlight) - 1 :
       \E lost \in 0 .. calls : InFlight[i + 1] = InFlight[i] + 1 + lost * CHUNK
  /\ \A i \in 1 .. Len(enhBuffer) : enhBuffer[i] = Enhanced - Len(enhBuffer) + i

\* Zeros pad the end of a returned frame only: audio is never cut by them within
\* a frame.
PaddedAtEnd ==
  \A i \in 1 .. Len(returned) - 1 : returned[i] = 0 => returned[i + 1] = 0

\* The gate holds back less than one chunk, however long the stream: its delay
\* and its memory are bounded by CHUNK - 1 samples.
Backlog == Len(enhBuffer) + Len(outBuffer)
BacklogBounded == Backlog < CHUNK

\* A frame that is returned short of samples makes the delay grow and a full
\* one leaves it as it was. As long as the VAD does not raise, which gives up a
\* chunk of the backlog, a stream has finitely many gaps (at most CHUNK - 1).
GapsDelay ==
  [][returned' # <<>> /\ calls' # 0 =>
       Backlog' = Backlog + Cardinality({i \in 1 .. FRAME : returned'[i] = 0})]_vars

FramesPerVad == (CHUNK + FRAME - 1) \div FRAME

\* "First 5 calls return zeros (buffer fill-up)."
FiveSilentCalls ==
  calls <= FramesPerVad => \A i \in DOMAIN returned : returned[i] = 0

\* "Output is delayed by ~33ms (5 frames) for VAD buffering.": five frames with
\* the one of the current call, the same for every sample that is returned.
FixedDelay ==
  \A i \in DOMAIN returned :
    returned[i] # 0 => (calls - 1) * FRAME + i - returned[i] = (FramesPerVad - 1) * FRAME
=============================================================================
