---------------------------- MODULE VadGateProofs ----------------------------
(***************************************************************************)
(* Proofs about VadGate for every frame and chunk length with              *)
(* FRAME <= CHUNK: the gate never holds back a whole chunk, and audio is   *)
(* never cut by zeros within a frame.                                      *)
(***************************************************************************)
EXTENDS VadGate, SequenceTheorems, FiniteSetTheorems, TLAPS

\* What the two buffers hold: samples, never the padding zero.
BuffersOK ==
  /\ enhBuffer \in Seq(Samples) /\ outBuffer \in Seq(Samples)
  /\ calls \in Nat
  /\ returned \in Seq(Nat)

GateInv == BuffersOK /\ BacklogBounded /\ PaddedAtEnd

\* One frame of the enhanced stream, as vad_gate.py concatenates it.
LEMMA FrameIsSamples ==
  ASSUME NEW k \in Nat
  PROVE  Frame(k) \in Seq(Samples) /\ Len(Frame(k)) = FRAME
<1>1. FRAME \in Nat /\ FRAME > 0  BY FrameAssumption
<1>2. \A i \in 1 .. FRAME : k * FRAME + i \in Samples
  <2>1. k * FRAME \in Nat  BY <1>1
  <2> QED  BY <1>1, <2>1 DEF Samples
<1>3. Frame(k) \in [1 .. FRAME -> Samples]  BY <1>2 DEF Frame
<1> QED  BY <1>1, <1>3

\* What result[...] = _out_buffer[...] returns and leaves, for any queue of samples.
LEMMA EmittedFrame ==
  ASSUME NEW buf \in Seq(Samples)
  PROVE  /\ AfterFrame(buf) \in Seq(Samples)
         /\ Len(AfterFrame(buf)) = IF Len(buf) >= FRAME THEN Len(buf) - FRAME ELSE 0
         /\ FrameFrom(buf) \in Seq(Nat)
         /\ \A i \in 1 .. Len(FrameFrom(buf)) - 1 :
              FrameFrom(buf)[i] = 0 => FrameFrom(buf)[i + 1] = 0
<1>1. FRAME \in Nat /\ FRAME > 0  BY FrameAssumption
<1>2. \A i \in 1 .. Len(buf) : buf[i] \in Nat /\ buf[i] # 0  BY DEF Samples
<1>3. CASE Len(buf) >= FRAME
  <2>1. FrameFrom(buf) = SubSeq(buf, 1, FRAME) /\ AfterFrame(buf) = SubSeq(buf, FRAME + 1, Len(buf))
    BY <1>3 DEF FrameFrom, AfterFrame
  <2>2. /\ AfterFrame(buf) \in Seq(Samples)
        /\ Len(AfterFrame(buf)) = Len(buf) - FRAME
    BY <1>1, <1>3, <2>1
  <2>3. FrameFrom(buf) \in Seq(Samples) /\ Len(FrameFrom(buf)) = FRAME
    BY <1>1, <1>3, <2>1
  <2>4. \A i \in 1 .. Len(FrameFrom(buf)) : FrameFrom(buf)[i] \in Nat \ {0}
    BY <2>3 DEF Samples
  <2>5. FrameFrom(buf) \in Seq(Nat)  BY <2>3 DEF Samples
  <2> QED  BY <1>1, <1>3, <2>2, <2>3, <2>4, <2>5
<1>4. CASE Len(buf) < FRAME
  <2> DEFINE n == FRAME - Len(buf)
  <2>1. n \in Nat /\ Len(buf) \in Nat  BY <1>1, <1>4
  <2>2. FrameFrom(buf) = buf \o Zeros(n) /\ AfterFrame(buf) = <<>>
    BY <1>1, <1>4 DEF FrameFrom, AfterFrame
  <2>3. Zeros(n) \in Seq(Nat) /\ Len(Zeros(n)) = n /\ \A i \in 1 .. n : Zeros(n)[i] = 0
    BY <2>1 DEF Zeros
  <2>4. buf \in Seq(Nat)  BY <1>2
  <2> HIDE DEF n
  <2>5. FrameFrom(buf) \in Seq(Nat) /\ Len(FrameFrom(buf)) = Len(buf) + n
    BY <2>1, <2>2, <2>3, <2>4, ConcatProperties
  <2>6. \A i \in 1 .. Len(buf) : FrameFrom(buf)[i] # 0
    BY <1>2, <2>1, <2>2, <2>3, <2>4
  <2>7. \A i \in Len(buf) + 1 .. Len(buf) + n : FrameFrom(buf)[i] = 0
    BY <2>1, <2>2, <2>3, <2>4, ConcatProperties
  <2>8. \A i \in 1 .. Len(FrameFrom(buf)) - 1 :
          FrameFrom(buf)[i] = 0 => FrameFrom(buf)[i + 1] = 0
    BY <2>1, <2>5, <2>6, <2>7
  <2> QED  BY <1>1, <1>4, <2>2, <2>5, <2>8
<1> QED  BY <1>1, <1>3, <1>4

\* The frame returned and what stays queued are the queue again; the zeros are as
\* many as the queue was short of a frame.
LEMMA EmittedAudio ==
  ASSUME NEW buf \in Seq(Samples)
  PROVE  /\ Len(FrameFrom(buf)) = FRAME
         /\ Audio(FrameFrom(buf)) \in Seq(Samples)
         /\ Audio(FrameFrom(buf)) \o AfterFrame(buf) = buf
         /\ Cardinality({i \in 1 .. FRAME : FrameFrom(buf)[i] = 0})
              = IF Len(buf) >= FRAME THEN 0 ELSE FRAME - Len(buf)
<1> DEFINE frame == FrameFrom(buf)
           m == IF Len(buf) >= FRAME THEN FRAME ELSE Len(buf)
<1>1. FRAME \in Nat /\ FRAME > 0 /\ Len(buf) \in Nat /\ m \in Nat /\ m <= FRAME /\ m <= Len(buf)
  BY FrameAssumption
<1>2. \A i \in 1 .. Len(buf) : buf[i] \in Nat /\ buf[i] # 0  BY DEF Samples
<1>3. /\ Len(frame) = FRAME
      /\ \A i \in 1 .. m : frame[i] = buf[i]
      /\ \A i \in m + 1 .. FRAME : frame[i] = 0
      /\ frame \in Seq(Nat)
  <2>1. CASE Len(buf) >= FRAME
    <3>1. frame = SubSeq(buf, 1, FRAME) /\ m = FRAME  BY <2>1 DEF FrameFrom
    <3>2. frame \in Seq(Nat)  BY EmittedFrame
    <3> QED  BY <1>1, <2>1, <3>1, <3>2
  <2>2. CASE Len(buf) < FRAME
    <3>1. frame = buf \o Zeros(FRAME - m) /\ m = Len(buf) /\ FRAME - m \in Nat
      BY <1>1, <2>2 DEF FrameFrom
    <3>2. /\ Zeros(FRAME - m) \in Seq(Nat) /\ Len(Zeros(FRAME - m)) = FRAME - m
          /\ \A i \in 1 .. FRAME - m : Zeros(FRAME - m)[i] = 0
      BY <3>1 DEF Zeros
    <3>3. buf \in Seq(Nat)  BY <1>2
    <3>4. frame \in Seq(Nat)  BY EmittedFrame
    <3> DEFINE z == Zeros(FRAME - m)
    <3>5. z \in Seq(Nat) /\ Len(z) = FRAME - m /\ \A i \in 1 .. FRAME - m : z[i] = 0  BY <3>2
    <3>6. frame = buf \o z  BY <3>1
    <3> HIDE DEF z
    <3>7. Len(frame) = FRAME  BY <1>1, <3>1, <3>3, <3>5, <3>6, ConcatProperties
    <3>8. \A i \in 1 .. m : frame[i] = buf[i]
      BY <1>1, <3>1, <3>3, <3>5, <3>6, ConcatProperties
    <3>9. ASSUME NEW i \in m + 1 .. FRAME  PROVE frame[i] = 0
      <4>0. i \in Len(buf) + 1 .. Len(buf) + Len(z)  BY <1>1, <3>1, <3>5
      <4>1. frame[i] = z[i - Len(buf)]  BY <4>0, <3>3, <3>5, <3>6, ConcatProperties
      <4>2. i - m \in 1 .. FRAME - m  BY <1>1
      <4> QED  BY <3>1, <3>5, <4>1, <4>2
    <3> QED  BY <3>4, <3>7, <3>8, <3>9
  <2> QED  BY <1>1, <2>1, <2>2
<1> HIDE DEF frame, m
<1>4. {i \in 1 .. Len(frame) : frame[i] # 0} = 1 .. m
  BY <1>1, <1>2, <1>3
<1>5. Cardinality(1 .. m) = m
  BY <1>1, FS_Interval
<1>6. Audio(frame) = SubSeq(frame, 1, m)  BY <1>4, <1>5 DEF Audio
<1>7. SubSeq(frame, 1, m) = SubSeq(buf, 1, m)
  BY <1>1, <1>3
<1>8. SubSeq(buf, 1, m) \in Seq(Samples)  BY <1>1
<1>9. AfterFrame(buf) = SubSeq(buf, m + 1, Len(buf))
  <2>1. CASE Len(buf) >= FRAME  BY <2>1 DEF AfterFrame, m
  <2>2. CASE Len(buf) < FRAME
    <3>1. AfterFrame(buf) = <<>> /\ m = Len(buf)  BY <1>1, <2>2 DEF AfterFrame, m
    <3>2. SubSeq(buf, Len(buf) + 1, Len(buf)) = <<>>  BY <1>1
    <3> QED  BY <3>1, <3>2
  <2> QED  BY <1>1, <2>1, <2>2
<1>10. SubSeq(buf, 1, m) \o SubSeq(buf, m + 1, Len(buf)) = buf
  <2>1. SubSeq(buf, 1, m) \o SubSeq(buf, m + 1, Len(buf)) = SubSeq(buf, 1, Len(buf))
    <3>1. /\ 1 \in 1 .. Len(buf) + 1 /\ m \in 1 - 1 .. Len(buf)
          /\ Len(buf) \in m .. Len(buf)
      BY <1>1
    <3> QED  BY <3>1, ConcatAdjacentSubSeq, Zenon
  <2> QED  BY <2>1, SubSeqFull
<1>11. {i \in 1 .. FRAME : frame[i] = 0} = m + 1 .. FRAME
  BY <1>1, <1>2, <1>3
<1>12. Cardinality(m + 1 .. FRAME) = FRAME - m
  BY <1>1, FS_Interval
<1>13. FRAME - m = IF Len(buf) >= FRAME THEN 0 ELSE FRAME - Len(buf)
  BY <1>1 DEF m
<1> QED
  BY <1>3, <1>6, <1>7, <1>8, <1>9, <1>10, <1>11, <1>12, <1>13 DEF frame

\* Splitting the chunk off the enhanced samples, when there is a whole one.
LEMMA ChunkSplit ==
  ASSUME BuffersOK
  PROVE  /\ Buffered \in Seq(Samples) /\ Len(Buffered) = Len(enhBuffer) + FRAME
         /\ Len(Buffered) >= CHUNK =>
              /\ SubSeq(Buffered, 1, CHUNK) \in Seq(Samples)
              /\ Len(SubSeq(Buffered, 1, CHUNK)) = CHUNK
              /\ SubSeq(Buffered, CHUNK + 1, Len(Buffered)) \in Seq(Samples)
              /\ Len(SubSeq(Buffered, CHUNK + 1, Len(Buffered))) = Len(Buffered) - CHUNK
<1>1. Frame(calls) \in Seq(Samples) /\ Len(Frame(calls)) = FRAME
  BY FrameIsSamples DEF BuffersOK
<1>2. Buffered \in Seq(Samples) /\ Len(Buffered) = Len(enhBuffer) + FRAME
  BY <1>1, ConcatProperties DEF Buffered, BuffersOK
<1>3. CHUNK \in Nat /\ CHUNK > 0  BY ChunkAssumption, FrameAssumption
<1> HIDE DEF Buffered
<1> QED  BY <1>2, <1>3

\* Every call of run() and reset() keeps the gate's invariant.
LEMMA GateStepKeepsInvariant == GateInv /\ [Next]_vars => GateInv'
<1> SUFFICES ASSUME GateInv, [Next]_vars  PROVE GateInv'
  OBVIOUS
<1>1. FRAME \in Nat /\ FRAME > 0 /\ CHUNK \in Nat /\ FRAME <= CHUNK /\ MaxCalls \in Nat
  BY FrameAssumption, ChunkAssumption, CallsAssumption
<1>2. /\ enhBuffer \in Seq(Samples) /\ outBuffer \in Seq(Samples) /\ calls \in Nat
      /\ returned \in Seq(Nat)
      /\ Len(enhBuffer) \in Nat /\ Len(outBuffer) \in Nat
      /\ Len(enhBuffer) + Len(outBuffer) < CHUNK
  BY DEF GateInv, BuffersOK, BacklogBounded, Backlog
<1>3. /\ Buffered \in Seq(Samples) /\ Len(Buffered) = Len(enhBuffer) + FRAME
      /\ Len(Buffered) >= CHUNK =>
           /\ SubSeq(Buffered, 1, CHUNK) \in Seq(Samples)
           /\ Len(SubSeq(Buffered, 1, CHUNK)) = CHUNK
           /\ SubSeq(Buffered, CHUNK + 1, Len(Buffered)) \in Seq(Samples)
           /\ Len(SubSeq(Buffered, CHUNK + 1, Len(Buffered))) = Len(Buffered) - CHUNK
  BY ChunkSplit DEF GateInv
<1> HIDE DEF Buffered
<1>4. CASE RunBuffers
  <2>1. /\ enhBuffer' = Buffered /\ Len(Buffered) < CHUNK
        /\ outBuffer' = AfterFrame(outBuffer) /\ returned' = FrameFrom(outBuffer)
        /\ calls' = calls + 1
    BY <1>1, <1>2, <1>3, <1>4 DEF RunBuffers, HasChunk, Emit, Called
  <2>2. BuffersOK'
    BY <1>2, <1>3, <2>1, EmittedFrame DEF BuffersOK
  <2>3. Len(outBuffer') = IF Len(outBuffer) >= FRAME THEN Len(outBuffer) - FRAME ELSE 0
    BY <1>2, <2>1, EmittedFrame
  <2>4. BacklogBounded'
    BY <1>1, <1>2, <1>3, <2>1, <2>3 DEF BacklogBounded, Backlog
  <2>5. PaddedAtEnd'
    BY <1>2, <2>1, EmittedFrame DEF PaddedAtEnd
  <2> QED  BY <2>2, <2>4, <2>5 DEF GateInv
<1>5. ASSUME NEW speech \in BOOLEAN, RunDecides(speech)  PROVE GateInv'
  <2> DEFINE gated == outBuffer \o SubSeq(Buffered, 1, CHUNK)
  <2>1. /\ enhBuffer' = SubSeq(Buffered, CHUNK + 1, Len(Buffered)) /\ Len(Buffered) >= CHUNK
        /\ outBuffer' = AfterFrame(gated) /\ returned' = FrameFrom(gated)
        /\ calls' = calls + 1
    BY <1>5 DEF RunDecides, HasChunk, Emit, Called
  <2>2. gated \in Seq(Samples) /\ Len(gated) = Len(outBuffer) + CHUNK
    BY <1>1, <1>2, <1>3, <2>1, ConcatProperties
  <2> HIDE DEF gated
  <2>3. BuffersOK'
    BY <1>2, <1>3, <2>1, <2>2, EmittedFrame DEF BuffersOK
  <2>4. Len(gated) >= FRAME  BY <1>1, <1>2, <2>2
  <2>5. Len(outBuffer') = Len(gated) - FRAME
    BY <2>1, <2>2, <2>4, EmittedFrame
  <2>6. Len(enhBuffer') = Len(enhBuffer) + FRAME - CHUNK
    BY <1>1, <1>2, <1>3, <2>1
  <2>7. BacklogBounded'
    BY <1>1, <1>2, <2>2, <2>5, <2>6 DEF BacklogBounded, Backlog
  <2>8. PaddedAtEnd'
    BY <2>1, <2>2, EmittedFrame DEF PaddedAtEnd
  <2> QED  BY <2>3, <2>7, <2>8 DEF GateInv
<1>6. CASE RunRaises
  <2>1. /\ enhBuffer' = SubSeq(Buffered, CHUNK + 1, Len(Buffered)) /\ Len(Buffered) >= CHUNK
        /\ outBuffer' = outBuffer /\ returned' = <<>> /\ calls' = calls + 1
    BY <1>6 DEF RunRaises, HasChunk, Called
  <2>2. BuffersOK'  BY <1>2, <1>3, <2>1 DEF BuffersOK
  <2>3. BacklogBounded'
    BY <1>1, <1>2, <1>3, <2>1 DEF BacklogBounded, Backlog
  <2>4. PaddedAtEnd'  BY <2>1 DEF PaddedAtEnd
  <2> QED  BY <2>2, <2>3, <2>4 DEF GateInv
<1>7. CASE Reset
  <2>1. enhBuffer' = <<>> /\ outBuffer' = <<>> /\ calls' = 0 /\ returned' = <<>>
    BY <1>7 DEF Reset
  <2> QED  BY <1>1, <2>1 DEF GateInv, BuffersOK, BacklogBounded, Backlog, PaddedAtEnd
<1>8. CASE UNCHANGED vars
  BY <1>8 DEF vars, GateInv, BuffersOK, BacklogBounded, Backlog, PaddedAtEnd
<1> QED  BY <1>4, <1>5, <1>6, <1>7, <1>8 DEF Next

\* The buffers of the gate, their bound and the place of the padding, in every
\* state that calls of run() and reset() reach.
THEOREM GateInvariant == Spec => []GateInv
<1>1. Init => GateInv
  BY FrameAssumption, ChunkAssumption
  DEF Init, GateInv, BuffersOK, BacklogBounded, Backlog, PaddedAtEnd
<1> QED  BY <1>1, GateStepKeepsInvariant, PTL DEF Spec

\* The gate of vad_gate.py holds back fewer samples than one VAD chunk.
THEOREM GateBacklogBounded == Spec => []BacklogBounded
<1>1. GateInv => BacklogBounded  BY DEF GateInv
<1> QED  BY <1>1, GateInvariant, PTL

\* A frame that run() returns has its zeros, if any, after its audio.
THEOREM GatePaddedAtEnd == Spec => []PaddedAtEnd
<1>1. GateInv => PaddedAtEnd  BY DEF GateInv
<1> QED  BY <1>1, GateInvariant, PTL

-----------------------------------------------------------------------------
(* The order of the samples, the delay and the gain *)

\* The sample that joins the gated ones next.
Pending == Enhanced - Len(enhBuffer) + 1

\* Whole chunks, n at most, are missing between two samples.
Follows(a, b, n) == \E lost \in 0 .. n : b = a + 1 + lost * CHUNK

\* Each sample follows the one before it, and next follows the last.
Linked(s, next, n) ==
  /\ \A i \in 1 .. Len(s) - 1 : Follows(s[i], s[i + 1], n)
  /\ s # <<>> => Follows(s[Len(s)], next, n)

Gated == Audio(returned) \o outBuffer

OrderInv ==
  /\ Audio(returned) \in Seq(Samples)
  /\ Linked(Gated, Pending, calls)
  /\ \A i \in 1 .. Len(enhBuffer) : enhBuffer[i] = Enhanced - Len(enhBuffer) + i

ValuesInv ==
  /\ gain \in Attenuated .. Unit
  /\ vadHeard \in 0 .. Enhanced
  /\ calls \in 0 .. MaxCalls
  /\ Len(returned) \in {0, FRAME}

StreamInv == GateInv /\ OrderInv /\ ValuesInv

\* What is left when the head of the queue was returned is in order still.
LEMMA LinkedSuffix ==
  ASSUME NEW a \in Seq(Samples), NEW b \in Seq(Samples), NEW next, NEW n, Linked(a \o b, next, n)
  PROVE  Linked(b, next, n)
<1> DEFINE ab == a \o b
<1>1. /\ ab \in Seq(Samples) /\ Len(ab) = Len(a) + Len(b)
      /\ \A i \in 1 .. Len(b) : ab[Len(a) + i] = b[i]
  BY ConcatProperties
<1>2. /\ \A i \in 1 .. Len(ab) - 1 : Follows(ab[i], ab[i + 1], n)
      /\ ab # <<>> => Follows(ab[Len(ab)], next, n)
  BY DEF Linked
<1> HIDE DEF ab
<1>3. Len(a) \in Nat /\ Len(b) \in Nat  OBVIOUS
<1>4. ASSUME NEW i \in 1 .. Len(b) - 1  PROVE Follows(b[i], b[i + 1], n)
  <2>1. Len(a) + i \in 1 .. Len(ab) - 1 /\ i \in 1 .. Len(b) /\ i + 1 \in 1 .. Len(b)
    BY <1>1, <1>3
  <2>2. ab[Len(a) + i] = b[i] /\ ab[Len(a) + i + 1] = b[i + 1]
    <3>1. Len(a) + (i + 1) = Len(a) + i + 1  BY <1>3
    <3> QED  BY <1>1, <2>1, <3>1
  <2> QED  BY <1>2, <2>1, <2>2
<1>5. ASSUME b # <<>>  PROVE Follows(b[Len(b)], next, n)
  <2>1. Len(b) \in 1 .. Len(b) /\ ab # <<>>  BY <1>1, <1>3, <1>5
  <2> QED  BY <1>1, <1>2, <2>1
<1> QED  BY <1>4, <1>5 DEF Linked

\* Samples that come one after the other, from the one that was expected, join the queue.
LEMMA LinkedJoin ==
  ASSUME NEW s \in Seq(Samples), NEW c \in Seq(Samples), NEW first \in Int, NEW n \in Nat,
         \A i \in 1 .. Len(c) : c[i] = first + i - 1,
         Linked(s, first, n)
  PROVE  Linked(s \o c, first + Len(c), n)
<1> DEFINE sc == s \o c
<1>1. /\ sc \in Seq(Samples) /\ Len(sc) = Len(s) + Len(c)
      /\ \A i \in 1 .. Len(s) : sc[i] = s[i]
      /\ \A i \in 1 .. Len(c) : sc[Len(s) + i] = c[i]
  BY ConcatProperties
<1> HIDE DEF sc
<1>2. Len(s) \in Nat /\ Len(c) \in Nat /\ CHUNK \in Nat  BY ChunkAssumption
<1>3. \A x \in Int : Follows(x, x + 1, n)
  <2>1. 0 \in 0 .. n /\ 0 * CHUNK = 0  BY <1>2
  <2>2. \A x \in Int : x + 1 = x + 1 + 0 * CHUNK  BY <2>1
  <2> QED  BY <2>1, <2>2 DEF Follows
<1>4. ASSUME NEW i \in 1 .. Len(sc) - 1  PROVE Follows(sc[i], sc[i + 1], n)
  <2>1. CASE i < Len(s)
    <3>1. i \in 1 .. Len(s) - 1 /\ i \in 1 .. Len(s) /\ i + 1 \in 1 .. Len(s)  BY <1>1, <1>2, <2>1
    <3> QED  BY <1>1, <3>1 DEF Linked
  <2>2. CASE i = Len(s)
    <3>1. 1 \in 1 .. Len(c) /\ i + 1 = Len(s) + 1 /\ i \in 1 .. Len(s) /\ s # <<>>
      BY <1>1, <1>2, <2>2
    <3>2. sc[i + 1] = first  BY <1>1, <3>1
    <3> QED  BY <1>1, <2>2, <3>1, <3>2 DEF Linked
  <2>3. CASE i > Len(s)
    <3>1. i - Len(s) \in 1 .. Len(c) /\ i - Len(s) + 1 \in 1 .. Len(c)  BY <1>1, <1>2, <2>3
    <3>2. Len(s) + (i - Len(s)) = i /\ Len(s) + (i - Len(s) + 1) = i + 1  BY <1>2
    <3>3. sc[i] = first + (i - Len(s)) - 1 /\ sc[i + 1] = first + (i - Len(s) + 1) - 1
      BY <1>1, <3>1, <3>2
    <3>4. sc[i + 1] = sc[i] + 1 /\ sc[i] \in Int  BY <1>2, <3>3
    <3> QED  BY <1>3, <3>4
  <2> QED  BY <1>2, <2>1, <2>2, <2>3
<1>5. ASSUME sc # <<>>  PROVE Follows(sc[Len(sc)], first + Len(c), n)
  <2>1. CASE Len(c) = 0
    <3>1. Len(sc) = Len(s) /\ s # <<>> /\ Len(s) \in 1 .. Len(s) /\ first + Len(c) = first
      BY <1>1, <1>2, <1>5, <2>1
    <3> QED  BY <1>1, <3>1 DEF Linked
  <2>2. CASE Len(c) # 0
    <3>1. Len(c) \in 1 .. Len(c)  BY <1>2, <2>2
    <3>2. sc[Len(sc)] = first + Len(c) - 1  BY <1>1, <3>1
    <3>3. sc[Len(sc)] \in Int /\ first + Len(c) = sc[Len(sc)] + 1  BY <1>2, <3>2
    <3> QED  BY <1>3, <3>3
  <2> QED  BY <2>1, <2>2
<1>6. Linked(sc, first + Len(c), n)  BY <1>4, <1>5 DEF Linked
<1> QED  BY <1>6 DEF sc

\* One more call, and perhaps one more chunk that is lost before next.
LEMMA LinkedLater ==
  ASSUME NEW s \in Seq(Samples), NEW next \in Int, NEW n \in Nat, Linked(s, next, n)
  PROVE  Linked(s, next, n + 1) /\ Linked(s, next + CHUNK, n + 1)
<1>1. CHUNK \in Nat  BY ChunkAssumption
<1>2. \A a, b : Follows(a, b, n) => Follows(a, b, n + 1)
  <2>1. \A lost \in 0 .. n : lost \in 0 .. n + 1  OBVIOUS
  <2> QED  BY <2>1 DEF Follows
<1>3. ASSUME NEW a \in Int, Follows(a, next, n)  PROVE Follows(a, next + CHUNK, n + 1)
  <2>1. PICK lost \in 0 .. n : next = a + 1 + lost * CHUNK  BY <1>3 DEF Follows
  <2>2. (lost + 1) * CHUNK = lost * CHUNK + CHUNK /\ lost * CHUNK \in Int  BY <1>1
  <2>3. next + CHUNK = a + 1 + (lost + 1) * CHUNK  BY <1>1, <2>1, <2>2
  <2>4. lost + 1 \in 0 .. n + 1  OBVIOUS
  <2> QED  BY <2>3, <2>4 DEF Follows
<1>4. s # <<>> => s[Len(s)] \in Int  BY DEF Samples
<1> QED  BY <1>2, <1>3, <1>4 DEF Linked

\* The frame of this call continues the samples that wait.
LEMMA BufferedContinues ==
  ASSUME GateInv, OrderInv
  PROVE  /\ \A i \in 1 .. Len(Buffered) : Buffered[i] = Pending + i - 1
         /\ Pending \in Int
         /\ (calls + 1) * FRAME = Enhanced + FRAME /\ Enhanced \in Nat
<1>1. FRAME \in Nat /\ calls \in Nat /\ Enhanced \in Nat /\ Enhanced = calls * FRAME
  BY FrameAssumption DEF GateInv, BuffersOK, Enhanced
<1>2. (calls + 1) * FRAME = Enhanced + FRAME  BY <1>1
<1>3. enhBuffer \in Seq(Samples) /\ Len(enhBuffer) \in Nat  BY DEF GateInv, BuffersOK
<1>4. Pending = Enhanced - Len(enhBuffer) + 1 /\ Pending \in Int  BY <1>1, <1>3 DEF Pending
<1>5. /\ Frame(calls) \in Seq(Samples) /\ Len(Frame(calls)) = FRAME
      /\ \A i \in 1 .. FRAME : Frame(calls)[i] = Enhanced + i
  BY <1>1, FrameIsSamples DEF Frame
<1>6. /\ Len(Buffered) = Len(enhBuffer) + FRAME
      /\ \A i \in 1 .. Len(enhBuffer) : Buffered[i] = enhBuffer[i]
      /\ \A i \in 1 .. FRAME : Buffered[Len(enhBuffer) + i] = Frame(calls)[i]
  <2> DEFINE f == Frame(calls)
  <2>1. f \in Seq(Samples) /\ Len(f) = FRAME /\ Buffered = enhBuffer \o f  BY <1>5 DEF Buffered
  <2> HIDE DEF f
  <2>2. /\ Len(Buffered) = Len(enhBuffer) + FRAME
        /\ \A i \in 1 .. Len(enhBuffer) : Buffered[i] = enhBuffer[i]
    <3>1. Len(enhBuffer \o f) = Len(enhBuffer) + Len(f)
      BY <1>3, <2>1, ConcatProperties
    <3>2. \A i \in 1 .. Len(enhBuffer) : (enhBuffer \o f)[i] = enhBuffer[i]
      BY <1>3, <2>1, ConcatProperties
    <3> QED  BY <2>1, <3>1, <3>2
  <2>3. \A i \in 1 .. Len(f) : Buffered[Len(enhBuffer) + i] = f[i]
    <3>1. \A i \in 1 .. Len(f) : (enhBuffer \o f)[Len(enhBuffer) + i] = f[i]
      BY <1>3, <2>1, ConcatProperties
    <3> QED  BY <2>1, <3>1
  <2> QED  BY <2>1, <2>2, <2>3 DEF f
<1>7. ASSUME NEW i \in 1 .. Len(Buffered)  PROVE Buffered[i] = Pending + i - 1
  <2>1. CASE i <= Len(enhBuffer)
    <3>1. i \in 1 .. Len(enhBuffer)  BY <2>1
    <3>2. Buffered[i] = Enhanced - Len(enhBuffer) + i  BY <1>6, <3>1 DEF OrderInv
    <3> QED  BY <1>1, <1>3, <1>4, <3>2
  <2>2. CASE i > Len(enhBuffer)
    <3>1. i - Len(enhBuffer) \in 1 .. FRAME /\ Len(enhBuffer) + (i - Len(enhBuffer)) = i
      BY <1>1, <1>3, <1>6, <2>2
    <3>2. Buffered[i] = Enhanced + (i - Len(enhBuffer))  BY <1>5, <1>6, <3>1
    <3> QED  BY <1>1, <1>3, <1>4, <3>2
  <2> QED  BY <1>3, <2>1, <2>2
<1> QED  BY <1>1, <1>2, <1>4, <1>7

\* The smoothed gain stays between the two gains it is an average of.
LEMMA SmoothedBetween ==
  ASSUME NEW g \in Attenuated .. Unit, NEW t \in Attenuated .. Unit
  PROVE  Smoothed(g, t) \in Attenuated .. Unit
<1>1. /\ Unit \in Nat /\ Attenuated \in Nat /\ Attenuated <= Unit
      /\ Smoothing \in Nat /\ 100 - Smoothing \in Nat /\ g \in Nat /\ t \in Nat
  BY GainAssumption
<1>2. \A x, a, b \in Nat : a <= b => x * a <= x * b  OBVIOUS
<1>3. /\ Smoothing * Attenuated <= Smoothing * g /\ Smoothing * g <= Smoothing * Unit
      /\ (100 - Smoothing) * Attenuated <= (100 - Smoothing) * t
      /\ (100 - Smoothing) * t <= (100 - Smoothing) * Unit
  BY <1>1, <1>2
<1>4. /\ Smoothing * Attenuated + (100 - Smoothing) * Attenuated = 100 * Attenuated
      /\ Smoothing * Unit + (100 - Smoothing) * Unit = 100 * Unit
  BY <1>1
<1> DEFINE sum == Smoothing * g + (100 - Smoothing) * t
<1>5. Smoothing * g \in Nat /\ (100 - Smoothing) * t \in Nat  BY <1>1
<1>6. sum \in Nat /\ 100 * Attenuated <= sum /\ sum <= 100 * Unit  BY <1>1, <1>3, <1>4, <1>5
<1> HIDE DEF sum
<1>7. sum \div 100 \in Attenuated .. Unit  BY <1>1, <1>6
<1> QED  BY <1>7 DEF Smoothed, sum

\* Every call of run() and reset() keeps the samples in order and the values in range.
LEMMA StreamStepKeepsInvariant == StreamInv /\ [Next]_vars => StreamInv'
<1> SUFFICES ASSUME StreamInv, [Next]_vars  PROVE OrderInv' /\ ValuesInv'
  BY GateStepKeepsInvariant DEF StreamInv
<1>1. /\ FRAME \in Nat /\ FRAME > 0 /\ CHUNK \in Nat /\ CHUNK > 0 /\ MaxCalls \in Nat
      /\ calls \in Nat /\ Len(enhBuffer) \in Nat /\ Len(outBuffer) \in Nat
      /\ outBuffer \in Seq(Samples) /\ Audio(returned) \in Seq(Samples)
  BY FrameAssumption, ChunkAssumption, CallsAssumption
  DEF StreamInv, OrderInv, GateInv, BuffersOK
<1>2. Attenuated \in Nat /\ Unit \in Nat /\ Attenuated <= Unit  BY GainAssumption
<1>3. /\ Buffered \in Seq(Samples) /\ Len(Buffered) = Len(enhBuffer) + FRAME
      /\ Len(Buffered) >= CHUNK =>
           /\ SubSeq(Buffered, 1, CHUNK) \in Seq(Samples)
           /\ Len(SubSeq(Buffered, 1, CHUNK)) = CHUNK
           /\ SubSeq(Buffered, CHUNK + 1, Len(Buffered)) \in Seq(Samples)
           /\ Len(SubSeq(Buffered, CHUNK + 1, Len(Buffered))) = Len(Buffered) - CHUNK
  BY ChunkSplit DEF StreamInv, GateInv
<1>4. /\ \A i \in 1 .. Len(Buffered) : Buffered[i] = Pending + i - 1
      /\ Pending \in Int /\ Pending = Enhanced - Len(enhBuffer) + 1
      /\ (calls + 1) * FRAME = Enhanced + FRAME /\ Enhanced \in Nat
  BY BufferedContinues DEF StreamInv, Pending
<1>5. Linked(outBuffer, Pending, calls)
  BY <1>1, LinkedSuffix DEF StreamInv, OrderInv, Gated
<1>6. Linked(outBuffer, Pending, calls + 1) /\ Linked(outBuffer, Pending + CHUNK, calls + 1)
  BY <1>1, <1>4, <1>5, LinkedLater
<1>7. /\ Audio(<<>>) = <<>>
      /\ Gated' = Audio(returned') \o outBuffer' /\ Enhanced' = calls' * FRAME
      /\ Pending' = Enhanced' - Len(enhBuffer') + 1
  BY DEF Audio, Gated, Enhanced, Pending
<1>8. ASSUME calls' = calls + 1  PROVE Enhanced' = Enhanced + FRAME
  <2>1. Enhanced' = (calls + 1) * FRAME  BY <1>7, <1>8
  <2> QED  BY <1>4, <2>1
<1>9. ASSUME NEW k \in Int, Enhanced' = Enhanced + FRAME, Len(enhBuffer') = Len(enhBuffer) + k
       PROVE  Pending' = Pending + FRAME - k
  <2>1. Pending' = (Enhanced + FRAME) - (Len(enhBuffer) + k) + 1  BY <1>7, <1>9
  <2>2. Pending = Enhanced - Len(enhBuffer) + 1  BY <1>4
  <2>3. Enhanced \in Nat  BY <1>4
  <2> QED  BY <1>1, <2>1, <2>2, <2>3
<1>10. ASSUME Len(Buffered) >= CHUNK, NEW i \in 1 .. Len(Buffered) - CHUNK
       PROVE  /\ SubSeq(Buffered, CHUNK + 1, Len(Buffered))[i] = Buffered[CHUNK + i]
              /\ CHUNK + i \in 1 .. Len(Buffered)
  <2>1. Buffered \in Seq(Samples) /\ Len(Buffered) \in Nat  BY <1>3
  <2> HIDE DEF Buffered
  <2>2. CHUNK + i = CHUNK + 1 + i - 1 /\ CHUNK + i \in 1 .. Len(Buffered)
    BY <1>1, <1>10, <2>1
  <2>3. i \in 1 .. Len(Buffered) - (CHUNK + 1) + 1  BY <1>1, <2>1
  <2>4. SubSeq(Buffered, CHUNK + 1, Len(Buffered))[i] = Buffered[CHUNK + 1 + i - 1]
    BY <1>1, <1>10, <2>1, <2>3
  <2> QED  BY <2>2, <2>4
<1>11. ASSUME \A i \in 1 .. Len(enhBuffer') : enhBuffer'[i] = Pending' + i - 1,
              Len(enhBuffer') \in Nat, Enhanced' \in Nat
       PROVE  \A i \in 1 .. Len(enhBuffer') : enhBuffer'[i] = Enhanced' - Len(enhBuffer') + i
  BY <1>7, <1>11
<1> HIDE DEF Buffered
<1>12. CASE RunBuffers
  <2>1. /\ enhBuffer' = Buffered /\ calls' = calls + 1 /\ calls < MaxCalls
        /\ outBuffer' = AfterFrame(outBuffer) /\ returned' = FrameFrom(outBuffer)
        /\ gain' = gain /\ vadHeard' = vadHeard
    BY <1>12 DEF RunBuffers, Emit, Called
  <2>2. Gated' = outBuffer /\ Audio(returned') \in Seq(Samples) /\ Len(returned') = FRAME
    BY <1>1, <1>7, <2>1, EmittedAudio
  <2>3. Enhanced' = Enhanced + FRAME /\ Pending' = Pending
    <3>1. Enhanced' = Enhanced + FRAME  BY <1>8, <2>1
    <3>2. Len(enhBuffer') = Len(enhBuffer) + FRAME  BY <1>3, <2>1
    <3>3. Pending' = Pending + FRAME - FRAME  BY <1>1, <1>9, <3>1, <3>2
    <3> QED  BY <1>1, <1>4, <3>1, <3>3
  <2>4. \A i \in 1 .. Len(enhBuffer') : enhBuffer'[i] = Enhanced' - Len(enhBuffer') + i
    <3>1. Len(enhBuffer') \in Nat /\ Enhanced' \in Nat  BY <1>1, <1>3, <1>4, <2>1, <2>3
    <3>2. \A i \in 1 .. Len(enhBuffer') : enhBuffer'[i] = Pending' + i - 1
      BY <1>4, <2>1, <2>3
    <3> QED  BY <1>11, <3>1, <3>2
  <2>5. OrderInv'  BY <1>6, <2>1, <2>2, <2>3, <2>4 DEF OrderInv
  <2>6. ValuesInv'  BY <1>1, <1>4, <2>1, <2>2, <2>3 DEF StreamInv, ValuesInv
  <2> QED  BY <2>5, <2>6
<1>13. ASSUME NEW speech \in BOOLEAN, RunDecides(speech)  PROVE OrderInv' /\ ValuesInv'
  <2> DEFINE chunk == SubSeq(Buffered, 1, CHUNK)
             gated == outBuffer \o chunk
  <2>1. /\ enhBuffer' = SubSeq(Buffered, CHUNK + 1, Len(Buffered)) /\ Len(Buffered) >= CHUNK
        /\ outBuffer' = AfterFrame(gated) /\ returned' = FrameFrom(gated)
        /\ calls' = calls + 1 /\ calls < MaxCalls
        /\ gain' = Smoothed(gain, IF speech THEN Unit ELSE Attenuated)
        /\ vadHeard' = Buffered[CHUNK]
    BY <1>13 DEF RunDecides, HasChunk, Emit, Called
  <2>2. chunk \in Seq(Samples) /\ Len(chunk) = CHUNK  BY <1>3, <2>1
  <2>3. \A i \in 1 .. Len(chunk) : chunk[i] = Pending + i - 1
    BY <1>1, <1>3, <1>4, <2>1, <2>2
  <2> HIDE DEF chunk
  <2>4. gated \in Seq(Samples)  BY <1>1, <2>2
  <2>5. Linked(gated, Pending + CHUNK, calls + 1)
    <3>1. calls + 1 \in Nat  BY <1>1
    <3>2. Linked(outBuffer \o chunk, Pending + Len(chunk), calls + 1)
      BY <1>1, <1>4, <1>6, <2>2, <2>3, <3>1, LinkedJoin
    <3> QED  BY <2>2, <3>2
  <2> HIDE DEF gated
  <2>6. Gated' = gated /\ Audio(returned') \in Seq(Samples) /\ Len(returned') = FRAME
    BY <1>7, <2>1, <2>4, EmittedAudio
  <2>7. Len(enhBuffer') = Len(Buffered) - CHUNK  BY <1>3, <2>1
  <2>8. Enhanced' = Enhanced + FRAME /\ Pending' = Pending + CHUNK
    <3>1. Enhanced' = Enhanced + FRAME  BY <1>8, <2>1
    <3>2. Len(Buffered) = Len(enhBuffer) + FRAME  BY <1>3
    <3>3. Len(enhBuffer') = Len(enhBuffer) + (FRAME - CHUNK)  BY <1>1, <2>7, <3>2
    <3>4. FRAME - CHUNK \in Int  BY <1>1
    <3>5. Pending' = Pending + FRAME - (FRAME - CHUNK)  BY <1>9, <3>1, <3>3, <3>4
    <3>6. Pending \in Int  BY <1>4
    <3> QED  BY <1>1, <3>1, <3>5, <3>6
  <2>9. \A i \in 1 .. Len(enhBuffer') : enhBuffer'[i] = Enhanced' - Len(enhBuffer') + i
    <3>1. Len(enhBuffer') \in Nat /\ Enhanced' \in Nat
      BY <1>1, <1>3, <1>4, <2>1, <2>7, <2>8
    <3>2. ASSUME NEW i \in 1 .. Len(enhBuffer')  PROVE enhBuffer'[i] = Pending' + i - 1
      <4>1. i \in 1 .. Len(Buffered) - CHUNK  BY <2>7
      <4>2. enhBuffer'[i] = Buffered[CHUNK + i] /\ CHUNK + i \in 1 .. Len(Buffered)
        BY <1>10, <2>1, <4>1
      <4> QED  BY <1>1, <1>4, <2>8, <4>2
    <3> QED  BY <1>11, <3>1, <3>2
  <2>10. OrderInv'  BY <2>1, <2>5, <2>6, <2>8, <2>9 DEF OrderInv
  <2>11. vadHeard' \in 0 .. Enhanced'
    <3>1. CHUNK \in 1 .. Len(Buffered)  BY <1>1, <1>3, <2>1
    <3>2. Buffered[CHUNK] \in Nat  BY <1>3, <3>1 DEF Samples
    <3>3. Buffered[CHUNK] = Pending + CHUNK - 1  BY <1>4, <3>1
    <3> QED  BY <1>1, <1>3, <1>4, <2>1, <2>8, <3>2, <3>3
  <2>12. gain' \in Attenuated .. Unit
    <3>1. (IF speech THEN Unit ELSE Attenuated) \in Attenuated .. Unit  BY <1>2
    <3> QED  BY <2>1, <3>1, SmoothedBetween DEF StreamInv, ValuesInv
  <2>13. ValuesInv'  BY <1>1, <2>1, <2>6, <2>11, <2>12 DEF ValuesInv
  <2> QED  BY <2>10, <2>13
<1>14. CASE RunRaises
  <2>1. /\ enhBuffer' = SubSeq(Buffered, CHUNK + 1, Len(Buffered)) /\ Len(Buffered) >= CHUNK
        /\ outBuffer' = outBuffer /\ returned' = <<>> /\ gain' = gain
        /\ calls' = calls + 1 /\ calls < MaxCalls
        /\ vadHeard' \in {vadHeard, Buffered[CHUNK]}
    BY <1>14 DEF RunRaises, HasChunk, Called
  <2>2. Gated' = outBuffer /\ Audio(returned') \in Seq(Samples) /\ Len(returned') = 0
    <3>1. Audio(returned') = <<>>  BY <1>7, <2>1
    <3>2. <<>> \o outBuffer = outBuffer  BY <1>1
    <3>3. Gated' = <<>> \o outBuffer  BY <1>7, <2>1, <3>1, Zenon
    <3>4. Len(returned') = 0  BY <2>1
    <3>5. Audio(returned') \in Seq(Samples)  BY <3>1
    <3> QED  BY <3>2, <3>3, <3>4, <3>5
  <2>3. Len(enhBuffer') = Len(Buffered) - CHUNK  BY <1>3, <2>1
  <2>4. Enhanced' = Enhanced + FRAME /\ Pending' = Pending + CHUNK
    <3>1. Enhanced' = Enhanced + FRAME  BY <1>8, <2>1
    <3>2. Len(Buffered) = Len(enhBuffer) + FRAME  BY <1>3
    <3>3. Len(enhBuffer') = Len(enhBuffer) + (FRAME - CHUNK)  BY <1>1, <2>3, <3>2
    <3>4. FRAME - CHUNK \in Int  BY <1>1
    <3>5. Pending' = Pending + FRAME - (FRAME - CHUNK)  BY <1>9, <3>1, <3>3, <3>4
    <3>6. Pending \in Int  BY <1>4
    <3> QED  BY <1>1, <3>1, <3>5, <3>6
  <2>5. \A i \in 1 .. Len(enhBuffer') : enhBuffer'[i] = Enhanced' - Len(enhBuffer') + i
    <3>1. Len(enhBuffer') \in Nat /\ Enhanced' \in Nat
      BY <1>1, <1>3, <1>4, <2>1, <2>3, <2>4
    <3>2. ASSUME NEW i \in 1 .. Len(enhBuffer')  PROVE enhBuffer'[i] = Pending' + i - 1
      <4>1. i \in 1 .. Len(Buffered) - CHUNK  BY <2>3
      <4>2. enhBuffer'[i] = Buffered[CHUNK + i] /\ CHUNK + i \in 1 .. Len(Buffered)
        BY <1>10, <2>1, <4>1
      <4> QED  BY <1>1, <1>4, <2>4, <4>2
    <3> QED  BY <1>11, <3>1, <3>2
  <2>6. OrderInv'  BY <1>6, <2>1, <2>2, <2>4, <2>5 DEF OrderInv
  <2>7. vadHeard' \in 0 .. Enhanced'
    <3>1. CHUNK \in 1 .. Len(Buffered)  BY <1>1, <1>3, <2>1
    <3>2. Buffered[CHUNK] \in Nat  BY <1>3, <3>1 DEF Samples
    <3>3. Buffered[CHUNK] = Pending + CHUNK - 1  BY <1>4, <3>1
    <3>4. vadHeard \in 0 .. Enhanced  BY DEF StreamInv, ValuesInv
    <3> QED  BY <1>1, <1>3, <1>4, <2>1, <2>4, <3>2, <3>3, <3>4
  <2>8. ValuesInv'  BY <1>1, <2>1, <2>2, <2>7 DEF StreamInv, ValuesInv
  <2> QED  BY <2>6, <2>8
<1>15. CASE Reset
  <2>1. /\ enhBuffer' = <<>> /\ outBuffer' = <<>> /\ calls' = 0 /\ returned' = <<>>
        /\ gain' = Unit /\ vadHeard' = 0
    BY <1>15 DEF Reset
  <2>2. Gated' = <<>> /\ Audio(returned') \in Seq(Samples) /\ Enhanced' = 0
    <3>1. Audio(returned') = <<>>  BY <1>7, <2>1
    <3>2. <<>> \o <<>> = <<>> /\ 0 * FRAME = 0  BY <1>1
    <3>3. Gated' = <<>> \o <<>> /\ Enhanced' = 0 * FRAME  BY <1>7, <2>1, <3>1, Zenon
    <3>4. Audio(returned') \in Seq(Samples)  BY <3>1
    <3> QED  BY <3>2, <3>3, <3>4
  <2>3. OrderInv'  BY <2>1, <2>2 DEF OrderInv, Linked
  <2>4. ValuesInv'  BY <1>1, <1>2, <2>1, <2>2 DEF ValuesInv
  <2> QED  BY <2>3, <2>4
<1>16. CASE UNCHANGED vars
  BY <1>16 DEF vars, StreamInv, OrderInv, ValuesInv, Gated, Pending, Enhanced
<1> QED  BY <1>12, <1>13, <1>14, <1>15, <1>16 DEF Next

\* The queue of the gate and its values, in every state that is reached.
THEOREM GateStream == Spec => []StreamInv
<1>1. Init => StreamInv
  <2> SUFFICES ASSUME Init  PROVE StreamInv
    OBVIOUS
  <2>1. /\ enhBuffer = <<>> /\ outBuffer = <<>> /\ gain = Unit /\ vadHeard = 0 /\ calls = 0
        /\ returned = <<>>
    BY DEF Init
  <2>2. GateInv
    BY <2>1, FrameAssumption, ChunkAssumption
    DEF GateInv, BuffersOK, BacklogBounded, Backlog, PaddedAtEnd
  <2>3. Audio(returned) = <<>>  BY <2>1 DEF Audio
  <2>4. Gated = <<>> /\ Enhanced = 0
    BY <2>1, <2>3, FrameAssumption DEF Gated, Enhanced
  <2>5. OrderInv
    <3>1. Linked(Gated, Pending, calls)  BY <2>4 DEF Linked
    <3>2. Audio(returned) \in Seq(Samples)  BY <2>3
    <3>3. \A i \in 1 .. Len(enhBuffer) : FALSE  BY <2>1
    <3> QED  BY <3>1, <3>2, <3>3 DEF OrderInv
  <2>6. ValuesInv
    BY <2>1, <2>4, GainAssumption, CallsAssumption DEF ValuesInv
  <2> QED  BY <2>2, <2>5, <2>6 DEF StreamInv
<1> QED  BY <1>1, StreamStepKeepsInvariant, PTL DEF Spec

\* The values of every variable of the gate.
THEOREM GateTypeOK == Spec => []TypeOK
<1>1. StreamInv => TypeOK  BY DEF StreamInv, GateInv, BuffersOK, ValuesInv, TypeOK
<1> QED  BY <1>1, GateStream, PTL

\* Samples leave the gate in the order they came, and only whole chunks are lost.
THEOREM GateInOrder == Spec => []InOrder
<1>1. ASSUME StreamInv  PROVE InOrder
  <2>1. /\ outBuffer \in Seq(Samples) /\ enhBuffer \in Seq(Samples) /\ calls \in Nat
        /\ Audio(returned) \in Seq(Samples)
    BY <1>1 DEF StreamInv, GateInv, BuffersOK, OrderInv
  <2>2. Enhanced \in Nat  BY <1>1, BufferedContinues DEF StreamInv
  <2>3. Pending \in Int /\ \A i \in 1 .. Len(enhBuffer) : enhBuffer[i] = Pending + i - 1
    BY <1>1, <2>1, <2>2 DEF StreamInv, OrderInv, Pending
  <2>4. Gated \in Seq(Samples) /\ InFlight = Gated \o enhBuffer
    BY <2>1 DEF Gated, InFlight
  <2>5. Linked(Gated \o enhBuffer, Pending + Len(enhBuffer), calls)
    BY <1>1, <2>1, <2>3, <2>4, LinkedJoin DEF StreamInv, OrderInv
  <2>6. \A i \in 1 .. Len(InFlight) - 1 : Follows(InFlight[i], InFlight[i + 1], calls)
    BY <2>4, <2>5 DEF Linked
  <2> QED  BY <1>1, <2>6 DEF InOrder, Follows, StreamInv, OrderInv
<1> QED  BY <1>1, GateStream, PTL

\* Every zero that run() returns adds one sample to the delay, and no other call
\* that returns moves it; one in which the VAD raises gives up a chunk of it.
THEOREM GateGapsDelay == Spec => GapsDelay
<1>1. ASSUME GateInv, [Next]_vars
      PROVE  [returned' # <<>> /\ calls' # 0 =>
                Backlog' = Backlog + Cardinality({i \in 1 .. FRAME : returned'[i] = 0})]_vars
  <2> SUFFICES ASSUME returned' # <<>>, calls' # 0, Next
               PROVE  Backlog' = Backlog + Cardinality({i \in 1 .. FRAME : returned'[i] = 0})
    BY <1>1
  <2>1. /\ FRAME \in Nat /\ FRAME > 0 /\ CHUNK \in Nat /\ FRAME <= CHUNK
        /\ outBuffer \in Seq(Samples) /\ Len(outBuffer) \in Nat /\ Len(enhBuffer) \in Nat
    BY <1>1, FrameAssumption, ChunkAssumption DEF GateInv, BuffersOK
  <2>2. /\ Buffered \in Seq(Samples) /\ Len(Buffered) = Len(enhBuffer) + FRAME
        /\ Len(Buffered) >= CHUNK =>
             /\ SubSeq(Buffered, 1, CHUNK) \in Seq(Samples)
             /\ Len(SubSeq(Buffered, 1, CHUNK)) = CHUNK
             /\ Len(SubSeq(Buffered, CHUNK + 1, Len(Buffered))) = Len(Buffered) - CHUNK
    BY <1>1, ChunkSplit DEF GateInv
  <2> HIDE DEF Buffered
  <2>3. ~RunRaises /\ ~Reset  BY DEF RunRaises, Reset
  <2>4. CASE RunBuffers
    <3>1. /\ enhBuffer' = Buffered
          /\ outBuffer' = AfterFrame(outBuffer) /\ returned' = FrameFrom(outBuffer)
      BY <2>4 DEF RunBuffers, Emit
    <3>2. Len(outBuffer') = IF Len(outBuffer) >= FRAME THEN Len(outBuffer) - FRAME ELSE 0
      BY <2>1, <3>1, EmittedFrame
    <3>3. Cardinality({i \in 1 .. FRAME : returned'[i] = 0})
            = IF Len(outBuffer) >= FRAME THEN 0 ELSE FRAME - Len(outBuffer)
      BY <2>1, <3>1, EmittedAudio
    <3>4. Backlog' = Len(enhBuffer') + Len(outBuffer') /\ Backlog = Len(enhBuffer) + Len(outBuffer)
      BY DEF Backlog
    <3>5. Len(enhBuffer') = Len(enhBuffer) + FRAME  BY <2>2, <3>1
    <3>6. CASE Len(outBuffer) >= FRAME  BY <2>1, <3>2, <3>3, <3>4, <3>5, <3>6
    <3>7. CASE Len(outBuffer) < FRAME
      <4>1. ~(Len(outBuffer) >= FRAME)  BY <2>1, <3>7
      <4>2. Len(outBuffer') = 0  BY <3>2, <4>1
      <4>3. Cardinality({i \in 1 .. FRAME : returned'[i] = 0}) = FRAME - Len(outBuffer)
        BY <3>3, <4>1
      <4> QED  BY <2>1, <3>4, <3>5, <4>2, <4>3
    <3> QED  BY <2>1, <3>6, <3>7
  <2>5. ASSUME NEW speech \in BOOLEAN, RunDecides(speech)
        PROVE  Backlog' = Backlog + Cardinality({i \in 1 .. FRAME : returned'[i] = 0})
    <3> DEFINE gated == outBuffer \o SubSeq(Buffered, 1, CHUNK)
    <3>1. /\ enhBuffer' = SubSeq(Buffered, CHUNK + 1, Len(Buffered)) /\ Len(Buffered) >= CHUNK
          /\ outBuffer' = AfterFrame(gated) /\ returned' = FrameFrom(gated)
      BY <2>5 DEF RunDecides, HasChunk, Emit
    <3>2. gated \in Seq(Samples) /\ Len(gated) = Len(outBuffer) + CHUNK
      BY <2>1, <2>2, <3>1, ConcatProperties
    <3> HIDE DEF gated
    <3>3. Len(gated) >= FRAME  BY <2>1, <3>2
    <3>4. Len(outBuffer') = Len(gated) - FRAME  BY <3>1, <3>2, <3>3, EmittedFrame
    <3>5. Cardinality({i \in 1 .. FRAME : returned'[i] = 0}) = 0
      BY <3>1, <3>2, <3>3, EmittedAudio
    <3>6. Backlog' = Len(enhBuffer') + Len(outBuffer') /\ Backlog = Len(enhBuffer) + Len(outBuffer)
      BY DEF Backlog
    <3>7. Len(enhBuffer') = Len(enhBuffer) + FRAME - CHUNK
      <4>1. Len(enhBuffer') = Len(Buffered) - CHUNK  BY <2>2, <3>1
      <4> QED  BY <2>1, <2>2, <4>1
    <3> QED  BY <2>1, <3>2, <3>4, <3>5, <3>6, <3>7
  <2> QED  BY <2>3, <2>4, <2>5 DEF Next
<1> QED  BY <1>1, GateInvariant, PTL DEF Spec, GapsDelay
=============================================================================
