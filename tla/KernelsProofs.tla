---------------------------- MODULE KernelsProofs ----------------------------
(***************************************************************************)
(* Proofs about Kernels for every set of calls: which GEMMs run to their   *)
(* end and that they hold the layer's product, a finished GRU the new      *)
(* state, attention each head's mix, and that no repack makes an operand   *)
(* leave its type; how far a quantised activation is from its value; that  *)
(* the fp32 layers compute their definitions and the transforms the DFT;   *)
(* how close the Winograd layers come; that the loader's lists agree.      *)
(***************************************************************************)
EXTENDS Kernels, FftProofs

-----------------------------------------------------------------------------
(* The steps of a call, by family *)

Others == {"wino", "fft", "conv", "blob", "attn"}

\* A call of these families is taken on by the family's own steps.
OwnStep ==
  /\ call'.family = "attn" => AttnNext
  /\ call'.family = "conv" => ConvNext
  /\ call'.family = "blob" => BlobNext
  /\ call'.family = "wino" => WinoNext
  /\ call'.family = "fft" => FftNext

\* A step begins a call, ends it, or goes on with a kernel of the call's family.
LEMMA FamilyStep ==
  ASSUME [KNext]_kvars
  PROVE  \/ UNCHANGED kvars
         \/ Return
         \/ stage = "idle" /\ (LoadLayer \/ QuantStart)
         \/ /\ stage = "idle" /\ stage' = "packed" /\ call' \in Calls
            /\ call'.family \in Others /\ OwnStep
         \/ /\ call' = call /\ call.family \in {"gemm", "gru"}
            /\ SumAndRepack \/ PrepareGemm \/ PrepareGru \/ Arm!ArmNext \/ X86Next
         \/ call' = call /\ call.family = "quant" /\ (QuantNext /\ ~QuantStart)
         \/ call' = call /\ call.family \in Others /\ OwnStep
<1>1. CASE UNCHANGED kvars \/ Return  BY <1>1
<1>2. CASE LoadLayer  BY <1>2 DEF LoadLayer, Starts
<1>3. CASE QuantStart  BY <1>3 DEF QuantStart, Starts
<1>4. CASE SumAndRepack \/ PrepareGemm
  BY <1>4 DEF SumAndRepack, PrepareGemm, Continues
<1>5. CASE PrepareGru
  <2>1. call.family = "gru" /\ UNCHANGED call  BY <1>5 DEF PrepareGru, Continues
  <2> QED  BY <1>5, <2>1
<1>6. CASE Arm!ArmNext
  <2>1. call.family \in {"gemm", "gru"} /\ UNCHANGED call
    BY <1>6
    DEF Arm!ArmNext, Arm!NeonEnter, Arm!DotprodEnter, Arm!I8mmEnter, Arm!DotprodGruEnter,
        Arm!I8mmGruEnter, Arm!NeonInt32, Arm!NeonK20, Arm!NeonFused, Arm!NeonAccum,
        Arm!NeonTrack, Arm!DotprodInt32, Arm!DotprodK20, Arm!DotprodFused, Arm!DotprodAccum,
        Arm!DotprodTrack, Arm!I8mmInt32, Arm!I8mmFused, Arm!I8mmAccum, Arm!I8mmTrack,
        Arm!NeonGru, Arm!DotprodGru, Arm!I8mmGru, Arm!Op, Arm!Runs, Arm!RowLoop, Arm!GruLoop,
        Arm!Continues
  <2> QED  BY <1>6, <2>1, SMTT(30)
<1>7. CASE X86Next
  <2>1. call.family \in {"gemm", "gru"} /\ UNCHANGED call
    BY <1>7
    DEF X86Next, Avx2Enter, Avx2Int32, Avx2K20, Avx2Fused, Avx2Accum, Avx2Track, Avx2GruEnter,
        Avx2Gru, VnniEnter, VnniGruEnter, AvxvnniInt32, AvxvnniK20, AvxvnniFused, AvxvnniAccum,
        AvxvnniTrack, AvxvnniGru, Avx512Int32, Avx512K20, Avx512Fused, Avx512Accum, Avx512Track,
        Avx512Gru, Avx2Loop, XOp, Runs, RowLoop, BlockLoop, BlockStep, PairLoop, GruLoop, Continues
  <2> QED  BY <1>7, <2>1, SMTT(30)
<1>8. CASE QuantNext /\ ~QuantStart
  BY <1>8
  DEF QuantNext, ScanRange, QuantiseFlat, QuantiseFp16, QuantiseTransposed, QuantiseConcat,
      Continues
<1>9. CASE WinoNext
  <2>1. call'.family = "wino"
    BY <1>9
    DEF WinoNext, WinoLoad, WinoDerive, WinoScan, WinoTransform, WinoGemm, WinoEpilogue, Starts,
        Continues
  <2>2. \/ stage = "idle" /\ stage' = "packed" /\ call' \in Calls
        \/ call' = call
    BY <1>9
    DEF WinoNext, WinoLoad, WinoDerive, WinoScan, WinoTransform, WinoGemm, WinoEpilogue, Starts,
        Continues
  <2> QED  BY <1>9, <2>1, <2>2 DEF OwnStep, Others
<1>10. CASE FftNext
  <2>1. call'.family = "fft"
    BY ZenonT(40), <1>10
    DEF FftNext, FftStart, FftInit, FftPackReal, FftPreInverse, FftStage0, FftRadix4, FftRadix2,
        FftPostForward, FftUnpack, FftContinues, Starts, Continues
  <2>2. \/ stage = "idle" /\ stage' = "packed" /\ call' \in Calls
        \/ call' = call
    BY Zenon, <1>10
    DEF FftNext, FftStart, FftInit, FftPackReal, FftPreInverse, FftStage0, FftRadix4, FftRadix2,
        FftPostForward, FftUnpack, FftContinues, Starts, Continues
  <2> QED  BY <1>10, <2>1, <2>2 DEF OwnStep, Others
<1>11. CASE ConvNext
  <2>1. CASE StridedStart \/ SgemmStart \/ TransStart
    <3>1. CASE StridedStart  BY <1>11, <3>1 DEF StridedStart, Starts, Others, OwnStep
    <3>2. CASE SgemmStart  BY <1>11, <3>2 DEF SgemmStart, Starts, Others, OwnStep
    <3>3. CASE TransStart  BY <1>11, <3>3 DEF TransStart, Starts, Others, OwnStep
    <3> QED  BY <2>1, <3>1, <3>2, <3>3
  <2>2. CASE StridedIm2col \/ SgemmEnter \/ SgemmBand
    <3>1. call' = call /\ call.family = "conv"
      BY <2>2 DEF StridedIm2col, SgemmEnter, SgemmBand, Continues
    <3> QED  BY <1>11, <3>1 DEF Others, OwnStep
  <2>3. CASE TransBias \/ TransChannel
    <3>1. call' = call /\ call.family = "conv"
      BY <2>3 DEF TransBias, TransChannel, Continues
    <3> QED  BY <1>11, <3>1 DEF Others, OwnStep
  <2> QED  BY <1>11, <2>1, <2>2, <2>3 DEF ConvNext
<1>12. CASE BlobNext
  <2>1. call'.family = "blob"
    BY <1>12
    DEF BlobNext, BlobStart, BlobRefused, BlobTake, BlobEnd, BlobFinalize, Starts, Continues
  <2>2. \/ stage = "idle" /\ stage' = "packed" /\ call' \in Calls
        \/ call' = call
    BY <1>12
    DEF BlobNext, BlobStart, BlobRefused, BlobTake, BlobEnd, BlobFinalize, Starts, Continues
  <2> QED  BY <1>12, <2>1, <2>2 DEF OwnStep, Others
<1>13. CASE AttnNext
  <2>1. call'.family = "attn"
    BY <1>13
    DEF AttnNext, AttnStart, AttnClear, AttnPack, AttnRepack, AttnScores, AttnMix, Starts,
        Continues
  <2>2. \/ stage = "idle" /\ stage' = "packed" /\ call' \in Calls
        \/ call' = call
    BY <1>13
    DEF AttnNext, AttnStart, AttnClear, AttnPack, AttnRepack, AttnScores, AttnMix, Starts,
        Continues
  <2> QED  BY <1>13, <2>1, <2>2 DEF OwnStep, Others
<1> QED
  BY <1>1, <1>2, <1>3, <1>4, <1>5, <1>6, <1>7, <1>8, <1>9, <1>10, <1>11, <1>12, <1>13
  DEF KNext

-----------------------------------------------------------------------------
(* Which GEMMs run to their end *)

\* The tile loops as far as control goes: rows outside, or blocks of columns
\* outside that store the first covered rows, a masked tile the rest of them.
RowShape ==
  /\ stage = "loop"
  /\ \/ /\ pos + 8 <= call.M /\ pos' = pos + 8
        /\ stage' = IF (call.N % 8) # 0 THEN "aborted" ELSE "loop"
     \/ pos + 8 > call.M /\ pos' = pos /\ stage' = IF pos < call.M THEN "aborted" ELSE "done"

BlockShape(covered, masked) ==
  /\ stage = "loop"
  /\ \/ /\ pos + 8 <= call.N /\ pos' = pos + 8
        /\ stage' = IF covered < call.M /\ ~masked THEN "aborted" ELSE "loop"
     \/ pos + 8 > call.N /\ pos' = pos /\ stage' = IF pos < call.N THEN "aborted" ELSE "done"

PairShape(covered, masked) ==
  /\ stage = "loop"
  /\ \/ /\ pos + 16 <= call.N /\ pos' = pos + 16
        /\ stage' = IF covered < call.M /\ ~masked THEN "aborted" ELSE "loop"
     \/ /\ pos + 16 > call.N /\ pos + 8 <= call.N /\ pos' = pos + 8
        /\ stage' = IF (call.M \div 8) * 8 < call.M THEN "aborted" ELSE "loop"
     \/ pos + 8 > call.N /\ pos' = pos /\ stage' = IF pos < call.N THEN "aborted" ELSE "done"

FloatOps == {"fused", "acc", "track"}

\* Every step of a GEMM after its operands are ready is one of these loops' or
\* enters one.
LEMMA GemmShapes ==
  ASSUME Arm!ArmNext \/ X86Next, call.family = "gemm"
  PROVE  \/ stage' = "loop" /\ pos' = 0
         \/ RowShape
         \/ BlockShape(AfterTwelves((call.M \div 24) * 24), TRUE)
         \/ BlockShape(AfterTwelves((call.M \div 24) * 24), FALSE)
         \/ BlockShape((call.M \div 8) * 8, FALSE)
         \/ /\ call.tier = "avxvnni" /\ call.op \in FloatOps
            /\ BlockShape(AfterTwelves(call.M), FALSE)
         \/ PairShape(AfterTwelves((call.M \div 24) * 24), TRUE)
         \/ PairShape(AfterTwelves((call.M \div 24) * 24), FALSE)
         \/ PairShape((call.M \div 8) * 8, FALSE)
<1>1. CASE Arm!NeonEnter \/ Arm!DotprodEnter \/ Arm!I8mmEnter
  BY <1>1 DEF Arm!NeonEnter, Arm!DotprodEnter, Arm!I8mmEnter, Arm!Continues
<1>2. CASE \/ Arm!NeonInt32 \/ Arm!NeonK20 \/ Arm!NeonFused \/ Arm!NeonAccum \/ Arm!NeonTrack
           \/ Arm!DotprodInt32 \/ Arm!DotprodK20 \/ Arm!DotprodFused \/ Arm!DotprodAccum
           \/ Arm!DotprodTrack
           \/ Arm!I8mmInt32 \/ Arm!I8mmFused \/ Arm!I8mmAccum \/ Arm!I8mmTrack
  <2>1. RowShape
    BY <1>2
    DEF Arm!NeonInt32, Arm!NeonK20, Arm!NeonFused, Arm!NeonAccum, Arm!NeonTrack,
        Arm!DotprodInt32, Arm!DotprodK20, Arm!DotprodFused, Arm!DotprodAccum, Arm!DotprodTrack,
        Arm!I8mmInt32, Arm!I8mmFused, Arm!I8mmAccum, Arm!I8mmTrack, Arm!RowLoop, Arm!Continues,
        Arm!MR, Arm!NR, RowShape
  <2> QED  BY <2>1
<1>3. CASE Arm!DotprodGruEnter \/ Arm!I8mmGruEnter \/ Arm!NeonGru \/ Arm!DotprodGru \/ Arm!I8mmGru
  BY <1>3
  DEF Arm!DotprodGruEnter, Arm!I8mmGruEnter, Arm!NeonGru, Arm!DotprodGru, Arm!I8mmGru, Arm!Runs
<1>4. CASE Avx2Enter \/ VnniEnter
  BY <1>4 DEF Avx2Enter, VnniEnter, Continues
<1>5. CASE Avx2GruEnter \/ VnniGruEnter \/ Avx2Gru \/ AvxvnniGru \/ Avx512Gru
  BY <1>5 DEF Avx2GruEnter, VnniGruEnter, Avx2Gru, AvxvnniGru, Avx512Gru, Runs
<1>6. CASE Avx2Int32 \/ Avx2Fused \/ Avx2Accum \/ Avx2Track
  BY <1>6
  DEF Avx2Int32, Avx2Fused, Avx2Accum, Avx2Track, Avx2Loop, BlockLoop, BlockStep, Continues,
      BlockShape, MR, NR
<1>7. CASE Avx2K20
  <2>1. RowShape  BY <1>7 DEF Avx2K20, RowLoop, Continues, RowShape, MR, NR
  <2> QED  BY <2>1
<1>8. CASE AvxvnniInt32 \/ AvxvnniK20
  BY <1>8 DEF AvxvnniInt32, AvxvnniK20, BlockLoop, BlockStep, Continues, BlockShape, NR
<1>9. CASE AvxvnniFused \/ AvxvnniAccum \/ AvxvnniTrack
  BY <1>9
  DEF AvxvnniFused, AvxvnniAccum, AvxvnniTrack, XOp, Runs, FloatOps, BlockLoop, BlockStep,
      Continues, BlockShape, NR
<1>10. CASE Avx512Int32 \/ Avx512K20 \/ Avx512Fused \/ Avx512Accum \/ Avx512Track
  <2>1. CASE Avx512Int32
    <3>1. PairLoop(Avx512Rows, TRUE)  BY <2>1 DEF Avx512Int32
    <3>2. PairShape(Avx512Rows, TRUE)
      BY <3>1 DEF PairLoop, BlockStep, Continues, PairShape, MR, NR
    <3> QED  BY <3>2 DEF Avx512Rows
  <2>2. CASE Avx512K20
    <3>1. PairLoop((call.M \div MR) * MR, FALSE)  BY <2>2 DEF Avx512K20
    <3>2. PairShape((call.M \div 8) * 8, FALSE)
      BY <3>1 DEF PairLoop, BlockStep, Continues, PairShape, MR, NR
    <3> QED  BY <3>2
  <2>3. CASE Avx512Fused \/ Avx512Accum \/ Avx512Track
    <3>1. PairLoop(Avx512Rows, FALSE)  BY <2>3 DEF Avx512Fused, Avx512Accum, Avx512Track
    <3>2. PairShape(Avx512Rows, FALSE)
      BY <3>1 DEF PairLoop, BlockStep, Continues, PairShape, MR, NR
    <3> QED  BY <3>2 DEF Avx512Rows
  <2> QED  BY <1>10, <2>1, <2>2, <2>3
<1> QED
  BY <1>1, <1>2, <1>3, <1>4, <1>5, <1>6, <1>7, <1>8, <1>9, <1>10 DEF Arm!ArmNext, X86Next

\* The loop counter of a GEMM counts in eights.
TilesInv ==
  /\ call \in Calls \cup {NoCall}
  /\ call.family = "gemm" /\ stage = "loop" => pos \in Nat /\ pos % 8 = 0
  /\ MultiplesOfEightRun

\* What 12-row tiles and 8-row tiles cover of a number of rows that 8 divides:
\* all of it up to a multiple of 24; all but 4 rows when 16 are left of 24.
LEMMA TwelvesThenEights ==
  ASSUME call.M \in Nat, call.M % 8 = 0
  PROVE  /\ AfterTwelves((call.M \div 24) * 24) = call.M
         /\ AfterTwelves(call.M) = call.M \/ call.M % 24 = 16
<1> DEFINE M == call.M
           q == M \div 24
<1>1. q \in Nat /\ M = 24 * q + (M % 24) /\ M % 24 \in {0, 8, 16}  OBVIOUS
<1> HIDE DEF q, M
<1>2. AfterTwelves((M \div 24) * 24) = M
  <2>1. ((q * 24) \div 12) * 12 = 24 * q  BY <1>1
  <2>2. AfterTwelves(q * 24) = 24 * q + ((M - 24 * q) \div 8) * 8
    BY <2>1 DEF AfterTwelves, MR, M
  <2> QED  BY <1>1, <2>2 DEF q
<1>3. AfterTwelves(M) = M \/ M % 24 = 16
  <2>1. CASE M % 24 = 0
    <3>1. (M \div 12) * 12 = M  BY <1>1, <2>1
    <3> QED  BY <1>1, <3>1 DEF AfterTwelves, MR, M
  <2>2. CASE M % 24 = 8
    <3>1. (M \div 12) * 12 = M - 8  BY <1>1, <2>2
    <3> QED  BY <1>1, <3>1 DEF AfterTwelves, MR, M
  <2> QED  BY <1>1, <2>1, <2>2
<1> QED  BY <1>2, <1>3 DEF M

\* A step of a tile loop keeps the count, and aborts on odd shapes only.
LEMMA LoopKeepsTiles ==
  ASSUME TilesInv, call.family = "gemm", call' = call, Arm!ArmNext \/ X86Next
  PROVE  TilesInv'
<1>1. call.M \in Nat /\ call.N \in Nat
  <2>1. call \in Calls  BY DEF TilesInv, NoCall
  <2> QED  BY <2>1, LayersAssumption
<1>2. CASE stage' = "loop" /\ pos' = 0
  BY <1>2 DEF TilesInv, MultiplesOfEightRun
<1>3. CASE RowShape
  BY <1>1, <1>3 DEF RowShape, TilesInv, MultiplesOfEightRun
<1>4. CASE \/ BlockShape(AfterTwelves((call.M \div 24) * 24), TRUE)
           \/ BlockShape(AfterTwelves((call.M \div 24) * 24), FALSE)
           \/ BlockShape((call.M \div 8) * 8, FALSE)
  BY <1>1, <1>4, TwelvesThenEights DEF BlockShape, TilesInv, MultiplesOfEightRun
<1>5. CASE /\ call.tier = "avxvnni" /\ call.op \in FloatOps
           /\ BlockShape(AfterTwelves(call.M), FALSE)
  BY <1>1, <1>5, TwelvesThenEights DEF BlockShape, TilesInv, MultiplesOfEightRun, FloatOps
<1>6. CASE \/ PairShape(AfterTwelves((call.M \div 24) * 24), TRUE)
           \/ PairShape(AfterTwelves((call.M \div 24) * 24), FALSE)
           \/ PairShape((call.M \div 8) * 8, FALSE)
  BY <1>1, <1>6, TwelvesThenEights DEF PairShape, TilesInv, MultiplesOfEightRun
<1> QED  BY <1>2, <1>3, <1>4, <1>5, <1>6, GemmShapes

\* A GEMM whose rows and columns are multiples of 8 finishes on every tier, but
\* the float kernels of AVX-VNNI with 16 rows left of 24.
THEOREM KernelsFinish == KSpec => []MultiplesOfEightRun
<1>1. KInit => TilesInv
  BY DEF KInit, TilesInv, MultiplesOfEightRun, NoCall
<1>2. ASSUME TilesInv, [KNext]_kvars PROVE TilesInv'
  <2>1. CASE UNCHANGED kvars  BY <1>2, <2>1 DEF kvars, TilesInv, MultiplesOfEightRun
  <2>2. CASE Return  BY <2>2 DEF Return, TilesInv, MultiplesOfEightRun, NoCall
  <2>3. CASE stage = "idle" /\ (LoadLayer \/ QuantStart)
    <3>1. stage' = "packed" /\ call' \in Calls  BY <2>3 DEF LoadLayer, QuantStart, Starts
    <3> QED  BY <3>1 DEF TilesInv, MultiplesOfEightRun
  <2>4. CASE stage' = "packed" /\ call' \in Calls  BY <2>4 DEF TilesInv, MultiplesOfEightRun
  <2>5. CASE call' = call /\ call.family # "gemm"  BY <1>2, <2>5 DEF TilesInv, MultiplesOfEightRun
  <2>6. CASE call' = call /\ call.family = "gemm" /\ (SumAndRepack \/ PrepareGemm)
    <3>1. stage' \in {"loaded", "ready"}  BY <2>6 DEF SumAndRepack, PrepareGemm, Continues
    <3> QED  BY <1>2, <2>6, <3>1 DEF TilesInv, MultiplesOfEightRun
  <2>7. ~(PrepareGru /\ call.family = "gemm")  BY DEF PrepareGru
  <2>8. CASE call' = call /\ call.family = "gemm" /\ (Arm!ArmNext \/ X86Next)
    BY <1>2, <2>8, LoopKeepsTiles
  <2> QED
    BY <1>2, <2>1, <2>2, <2>3, <2>4, <2>5, <2>6, <2>7, <2>8, FamilyStep DEF Others
<1>3. TilesInv => MultiplesOfEightRun  BY DEF TilesInv
<1> QED  BY <1>1, <1>2, <1>3, PTL DEF KSpec

-----------------------------------------------------------------------------
(* How far a quantised activation is from its value *)

\* a / num, rounded to q within half a step, then clamped to the codes.
LEMMA ClampedCode ==
  ASSUME NEW num \in Nat \ {0}, NEW a \in Int, -(257 * num) <= 2 * a, 2 * a <= 255 * num,
         NEW q \in Int, 2 * (q * num) - num <= 2 * a, 2 * a <= 2 * (q * num) + num,
         NEW floor \in Int, floor = -128 \/ floor = -127
  PROVE  /\ Clamp(floor, 127, q) \in floor .. 127
         /\ 2 * AbsOf(a - Clamp(floor, 127, q) * num) <= 3 * num
<1>1. q * num \in Int  OBVIOUS
<1>2. q <= 128
  <2> SUFFICES ASSUME 129 <= q PROVE FALSE  OBVIOUS
  <2>1. 129 * num <= q * num  BY ProductMonotone
  <2> QED  BY <1>1, <2>1
<1>3. q >= -129
  <2> SUFFICES ASSUME q <= -130 PROVE FALSE  OBVIOUS
  <2>1. q * num <= (-130) * num  BY ProductMonotone
  <2> QED  BY <1>1, <2>1
<1>4. CASE q \in floor .. 127
  <2>1. Clamp(floor, 127, q) = q  BY <1>4 DEF Clamp, Greatest, Least
  <2> QED  BY <1>1, <1>4, <2>1 DEF AbsOf
<1>5. CASE q = 128
  <2>1. Clamp(floor, 127, q) = 127  BY <1>5 DEF Clamp, Greatest, Least
  <2> QED  BY <1>5, <2>1 DEF AbsOf
<1>6. CASE q < floor
  <2>1. Clamp(floor, 127, q) = floor  BY <1>6 DEF Clamp, Greatest, Least
  <2>2. q = -129 \/ (q = -128 /\ floor = -127)  BY <1>3, <1>6
  <2> QED  BY <1>6, <2>1, <2>2 DEF AbsOf
<1> QED  BY <1>2, <1>4, <1>5, <1>6

\* Scale and zero point are such that the codes reach value x: to within half a
\* step of their range.
Reaches(q, x) ==
  /\ -(257 * q.num) <= 2 * (x * q.den + (q.zp - 128) * q.num)
  /\ 2 * (x * q.den + (q.zp - 128) * q.num) <= 255 * q.num

Params(q) == q.num \in Nat \ {0} /\ q.den \in Nat /\ q.zp \in 0 .. 255

\* c is what a vector body or a scalar tail makes of x.
CodeOf(c, q, x) ==
  \/ \E floor \in {-128, -127} :
       c = Clamp(floor, 127, RoundEven(x * q.den + (q.zp - 128) * q.num, q.num))
  \/ c = Clamp(-127, 127, RoundAway(x * q.den, q.num) + q.zp - 128)

Close(c, q, x) ==
  LET back == c + 128 - q.zp IN
  /\ 2 * AbsOf(x * q.den - back * q.num) <= 3 * q.num
  /\ x = 0 => back = 0 \/ (q.zp = 0 /\ back = 1)

\* Bodies and tails, whatever way they round, stay within a step and a half.
LEMMA CodesClose ==
  ASSUME NEW q, Params(q), NEW x \in Int, Reaches(q, x), NEW c, CodeOf(c, q, x)
  PROVE  Close(c, q, x)
<1> DEFINE num == q.num
           zp == q.zp
           xd == x * q.den
           off == (zp - 128) * num
           a == xd + off
<1>1. /\ num \in Nat \ {0} /\ zp \in 0 .. 255 /\ xd \in Int /\ off \in Int
      /\ x = 0 => xd = 0
  BY DEF Params
<1>2. -(257 * num) <= 2 * a /\ 2 * a <= 255 * num  BY DEF Reaches
<1>3. PICK floor \in {-128, -127}, r \in Int :
        /\ c = Clamp(floor, 127, r)
        /\ 2 * (r * num) - num <= 2 * a /\ 2 * a <= 2 * (r * num) + num
  <2>1. CASE \E floor \in {-128, -127} :
               c = Clamp(floor, 127, RoundEven(x * q.den + (q.zp - 128) * q.num, q.num))
    <3>1. PICK floor \in {-128, -127} : c = Clamp(floor, 127, RoundEven(a, num))  BY <2>1
    <3>2. a \in Int  BY <1>1
    <3> HIDE DEF a, num
    <3>3. /\ RoundEven(a, num) \in Int
          /\ 2 * (RoundEven(a, num) * num) - num <= 2 * a
          /\ 2 * a <= 2 * (RoundEven(a, num) * num) + num
      BY <1>1, <3>2, RoundEvenClose, Zenon
    <3> QED  BY <3>1, <3>3
  <2>2. CASE c = Clamp(-127, 127, RoundAway(x * q.den, q.num) + q.zp - 128)
    <3> DEFINE e == RoundAway(xd, num)
    <3>1. c = Clamp(-127, 127, e + zp - 128)  BY <2>2
    <3> HIDE DEF xd, num, zp
    <3>2. e \in Int /\ 2 * (e * num) - num <= 2 * xd /\ 2 * xd <= 2 * (e * num) + num
      BY <1>1, RoundAwayClose, Zenon
    <3> HIDE DEF e
    <3>3. (e + zp - 128) * num = e * num + off /\ e * num \in Int /\ e + zp - 128 \in Int
      BY <1>1, <3>2
    <3>4. 2 * ((e + zp - 128) * num) - num <= 2 * a /\ 2 * a <= 2 * ((e + zp - 128) * num) + num
      BY <1>1, <3>2, <3>3
    <3> QED  BY <3>1, <3>3, <3>4
  <2> QED  BY <2>1, <2>2 DEF CodeOf
<1> HIDE DEF num, zp, xd
<1>4. /\ c \in floor .. 127 /\ 2 * AbsOf(a - c * num) <= 3 * num
  <2>1. a \in Int  BY <1>1
  <2>2. floor \in Int /\ (floor = -128 \/ floor = -127) /\ r \in Int /\ num \in Nat \ {0}
    BY <1>1
  <2>4. /\ -(257 * num) <= 2 * a /\ 2 * a <= 255 * num
        /\ 2 * (r * num) - num <= 2 * a /\ 2 * a <= 2 * (r * num) + num
    BY <1>2, <1>3
  <2> HIDE DEF a
  <2>3. /\ Clamp(floor, 127, r) \in floor .. 127
        /\ 2 * AbsOf(a - Clamp(floor, 127, r) * num) <= 3 * num
    BY <2>1, <2>2, <2>4, ClampedCode, Zenon
  <2> QED  BY <1>3, <2>3
<1>5. (c + 128 - zp) * num = c * num - off /\ c * num \in Int  BY <1>1, <1>4
<1>6. 2 * AbsOf(xd - (c + 128 - zp) * num) <= 3 * num
  <2>1. xd - (c + 128 - zp) * num = a - c * num  BY <1>1, <1>5
  <2> QED  BY <1>4, <2>1
<1>7. ASSUME x = 0 PROVE c + 128 - zp = 0 \/ (zp = 0 /\ c + 128 - zp = 1)
  <2>1. a = (zp - 128) * num  BY <1>1, <1>7
  <2>2. ~(r >= zp - 128 + 1)
    <3> SUFFICES ASSUME zp - 128 + 1 <= r PROVE FALSE  BY <1>1
    <3>1. (zp - 128 + 1) * num <= r * num  BY <1>1, ProductMonotone
    <3>2. (zp - 128 + 1) * num = (zp - 128) * num + num  BY <1>1
    <3> QED  BY <1>1, <1>3, <2>1, <3>1, <3>2
  <2>3. ~(r <= zp - 128 - 1)
    <3> SUFFICES ASSUME r <= zp - 128 - 1 PROVE FALSE  BY <1>1
    <3>1. r * num <= (zp - 128 - 1) * num  BY <1>1, ProductMonotone
    <3>2. (zp - 128 - 1) * num = (zp - 128) * num - num  BY <1>1
    <3> QED  BY <1>1, <1>3, <2>1, <3>1, <3>2
  <2>4. r = zp - 128  BY <1>1, <2>2, <2>3
  <2> QED  BY <1>1, <1>3, <2>4 DEF Clamp, Greatest, Least
<1> QED  BY <1>6, <1>7 DEF Close, num, zp, xd
\* pick_qparams: the range is extended to zero, the zero point needs no clamp, and
\* every value of the range is reached.
LEMMA ScannedParams ==
  ASSUME NEW vmin \in Int, NEW vmax \in Int, vmin <= vmax
  PROVE  LET q == PickQparams(vmin, vmax)
         IN  Params(q) /\ \A x \in vmin .. vmax : Reaches(q, x)
<1> DEFINE lo == Least(vmin, 0)
           hi == Greatest(vmax, 0)
           span == IF hi > lo THEN hi - lo ELSE 1
           z == RoundAway(-lo * 255, span)
           q == PickQparams(vmin, vmax)
<1>1. /\ lo \in Int /\ hi \in Int /\ lo <= 0 /\ 0 <= hi /\ lo <= vmin /\ vmax <= hi
      /\ span \in Nat \ {0} /\ (span = hi - lo \/ (span = 1 /\ lo = 0 /\ hi = 0))
      /\ -lo * 255 \in Int
  BY DEF Least, Greatest
<1> HIDE DEF lo, hi, span
<1>2. /\ z \in Int
      /\ 2 * (z * span) - span <= 2 * (-lo * 255) /\ 2 * (-lo * 255) <= 2 * (z * span) + span
  BY <1>1, RoundAwayClose, Zenon
<1>3. q = [num |-> span, den |-> 255, zp |-> Clamp(0, 255, z)]
  BY DEF PickQparams, lo, hi, span
<1> HIDE DEF z, q
<1>4. z * span \in Int  BY <1>1, <1>2
<1>5. ~(z <= -1)
  <2> SUFFICES ASSUME z <= -1 PROVE FALSE  OBVIOUS
  <2>1. z * span <= (-1) * span  BY <1>1, <1>2, ProductMonotone
  <2> QED  BY <1>1, <1>2, <1>4, <2>1
<1>6. ~(256 <= z)
  <2> SUFFICES ASSUME 256 <= z PROVE FALSE  OBVIOUS
  <2>1. 256 * span <= z * span  BY <1>1, <1>2, ProductMonotone
  <2> QED  BY <1>1, <1>2, <1>4, <2>1
<1>7. z \in 0 .. 255 /\ Clamp(0, 255, z) = z
  BY <1>2, <1>5, <1>6 DEF Clamp, Greatest, Least
<1>8. q.num = span /\ q.den = 255 /\ q.zp = z  BY <1>3, <1>7
<1>9. ASSUME NEW x \in vmin .. vmax PROVE Reaches(q, x)
  <2>1. (z - 128) * span = z * span - 128 * span  BY <1>1, <1>2
  <2>2. lo <= x /\ x <= hi  BY <1>1
  <2>3. /\ -(257 * span) <= 2 * (x * 255 + (z - 128) * span)
        /\ 2 * (x * 255 + (z - 128) * span) <= 255 * span
    BY <1>1, <1>2, <1>4, <2>1, <2>2
  <2> QED  BY <1>8, <2>3 DEF Reaches
<1> QED  BY <1>1, <1>7, <1>8, <1>9 DEF Params, q

\* The symmetric scale reaches every magnitude up to its maximum.
LEMMA SymmetricParams ==
  ASSUME NEW m \in Nat, NEW q, q = [num |-> IF m = 0 THEN 1 ELSE m, den |-> 127, zp |-> 128]
  PROVE  Params(q) /\ \A x \in -m .. m : Reaches(q, x)
<1>1. q.num = (IF m = 0 THEN 1 ELSE m) /\ q.den = 127 /\ q.zp = 128  OBVIOUS
<1>2. Params(q)  BY <1>1 DEF Params
<1>3. ASSUME NEW x \in -m .. m PROVE Reaches(q, x)
  <2>1. (128 - 128) * q.num = 0  BY <1>1
  <2> QED  BY <1>1, <2>1 DEF Reaches
<1> QED  BY <1>2, <1>3

-----------------------------------------------------------------------------
(* The quantiser *)

Tensor == mem.x \in [0 .. Elements - 1 -> Int]

\* The parameters that a scan leaves reach every element.
ReadyToQuantise ==
  /\ Tensor /\ mem = [x |-> mem.x, q |-> mem.q, out |-> <<>>]
  /\ Params(mem.q) /\ \A i \in 0 .. Elements - 1 : Reaches(mem.q, mem.x[i])

QuantInv ==
  /\ call \in Calls \cup {NoCall}
  /\ call.family = "quant" =>
       /\ stage = "packed" => Tensor
       /\ stage = "ready" => ReadyToQuantise
  /\ QuantiserBounds

\* Every element of a call has an index, and one in the source.
LEMMA SourceInTensor ==
  ASSUME call \in Calls, call.family = "quant"
  PROVE  /\ call.M \in Nat \ {0} /\ call.K \in Nat \ {0} /\ Elements \in Nat \ {0}
         /\ 0 \in 0 .. Elements - 1
         /\ \A i \in 0 .. Elements - 1 :
              (i % call.K) * call.M + (i \div call.K) \in 0 .. Elements - 1
<1>1. call.M \in Nat \ {0} /\ call.K \in Nat \ {0}  BY TensorsAssumption
<1> DEFINE M == call.M
           K == call.K
<1>2. M \in Nat \ {0} /\ K \in Nat \ {0}  BY <1>1
<1>5. Elements = M * K  BY DEF Elements
<1> HIDE DEF M, K
<1>3. M * K \in Nat \ {0}
  <2>1. 1 * K <= M * K  BY <1>2, ProductMonotone
  <2> QED  BY <1>2, <2>1
<1>4. ASSUME NEW i \in 0 .. M * K - 1
      PROVE  (i % K) * M + (i \div K) \in 0 .. M * K - 1
  <2> DEFINE r == i % K
             p == i \div K
  <2>1. r \in 0 .. K - 1  BY <1>2, DivMod
  <2>2. 0 <= p /\ p < M /\ p \in Int
    <3>1. K * 0 <= i /\ i < K * M /\ i \in Int /\ M \in Int /\ 0 \in Int  BY <1>2, <1>3
    <3>2. 0 <= p /\ p < M  BY <1>2, <3>1, DivBounds, Zenon
    <3>3. p \in Int  BY <1>2, <3>1, DivMod, Zenon
    <3> QED  BY <3>2, <3>3
  <2> HIDE DEF r, p
  <2>3. r * M <= (K - 1) * M  BY <1>2, <2>1, ProductMonotone
  <2>4. (K - 1) * M = M * K - M /\ 0 * M <= r * M  BY <1>2, <2>1, ProductMonotone
  <2>5. r * M + p \in 0 .. M * K - 1  BY <1>2, <1>3, <2>1, <2>2, <2>3, <2>4
  <2> QED  BY <2>5 DEF r, p
<1> QED  BY <1>2, <1>3, <1>4, <1>5 DEF M, K

\* The scan leaves parameters that reach what it scanned.
LEMMA ScanReaches ==
  ASSUME call \in Calls, Tensor, ScanRange, stage' # "aborted"
  PROVE  call' = call /\ stage' = "ready" /\ ReadyToQuantise'
<1> DEFINE x == mem.x
           up == [i \in Nat |-> x[i] - x[0]]
           down == [i \in Nat |-> x[0] - x[i]]
           vmax == x[0] + MaxTo(Elements, up)
           vmin == x[0] - MaxTo(Elements, down)
           q == IF call.op = "scaled" THEN MaxAbsParams(x) ELSE PickQparams(vmin, vmax)
<1>1. call' = call /\ stage' = "ready" /\ mem' = [x |-> x, q |-> q, out |-> <<>>]
  BY DEF ScanRange, Continues
<1>2. Elements \in Nat \ {0} /\ 0 \in 0 .. Elements - 1
  BY SourceInTensor DEF ScanRange
<1>3. \A i \in 0 .. Elements - 1 : x[i] \in Int /\ i \in Nat  BY <1>2 DEF Tensor
<1>4. Params(q) /\ \A i \in 0 .. Elements - 1 : Reaches(q, x[i])
  <2>1. CASE call.op # "scaled"
    <3>1. \A i \in 0 .. Elements - 1 : up[i] = x[i] - x[0] /\ down[i] = x[0] - x[i]  BY <1>3
    <3>2. \A i \in 0 .. Elements - 1 : up[i] \in Int /\ down[i] \in Int  BY <1>2, <1>3, <3>1
    <3>3. Elements \in Nat  BY <1>2
    <3> HIDE DEF x, up, down
    <3>4. /\ MaxTo(Elements, up) \in Nat /\ MaxTo(Elements, down) \in Nat
          /\ \A i \in 0 .. Elements - 1 :
               up[i] <= MaxTo(Elements, up) /\ down[i] <= MaxTo(Elements, down)
      BY <3>2, <3>3, MaxToBounds
    <3>5. /\ vmin \in Int /\ vmax \in Int /\ vmin <= vmax
          /\ \A i \in 0 .. Elements - 1 : x[i] \in vmin .. vmax
      BY <1>2, <1>3, <3>1, <3>4
    <3> HIDE DEF vmin, vmax
    <3>6. Params(q) /\ \A y \in vmin .. vmax : Reaches(q, y)
      BY <2>1, <3>5, ScannedParams
    <3> HIDE DEF q
    <3> QED  BY <3>5, <3>6
  <2>2. CASE call.op = "scaled"
    <3> DEFINE size == [i \in Nat |-> AbsOf(x[i])]
               mx == MaxTo(Elements, size)
    <3>1. \A i \in 0 .. Elements - 1 : size[i] = AbsOf(x[i])  BY <1>3
    <3>2. \A i \in 0 .. Elements - 1 : size[i] \in Int  BY <1>3, <3>1 DEF AbsOf
    <3>3. Elements \in Nat  BY <1>2
    <3>4. q = [num |-> IF mx = 0 THEN 1 ELSE mx, den |-> 127, zp |-> 128]
      BY <2>2 DEF MaxAbsParams
    <3> HIDE DEF x, size, q
    <3>5. mx \in Nat /\ \A i \in 0 .. Elements - 1 : size[i] <= mx  BY <3>2, <3>3, MaxToBounds
    <3>6. \A i \in 0 .. Elements - 1 : x[i] \in -mx .. mx  BY <1>3, <3>1, <3>5 DEF AbsOf
    <3> HIDE DEF mx
    <3>7. Params(q) /\ \A y \in -mx .. mx : Reaches(q, y)  BY <3>4, <3>5, SymmetricParams
    <3> QED  BY <3>6, <3>7
  <2> QED  BY <2>1, <2>2
<1>5. Elements' = Elements  BY <1>1 DEF Elements
<1> HIDE DEF q
<1> QED  BY <1>1, <1>4, <1>5 DEF ReadyToQuantise, Tensor

\* Each code is written from its own element, with the parameters of the scan.
LEMMA CodesWritten ==
  ASSUME call \in Calls, call.family = "quant", ReadyToQuantise,
         stage = "ready", stage' # "aborted",
         QuantiseFlat \/ QuantiseFp16 \/ QuantiseTransposed \/ QuantiseConcat
  PROVE  /\ call' = call /\ stage' = "done" /\ mem'.q = mem.q
         /\ \A i \in 0 .. Elements - 1 :
              /\ SourceOf(i)' = SourceOf(i) /\ SourceOf(i) \in Int /\ Reaches(mem.q, SourceOf(i))
              /\ CodeOf(mem'.out[i], mem.q, SourceOf(i))
<1> DEFINE Es == 0 .. Elements - 1
<1>1. \A i \in Es : SourceOf(i) \in Int /\ Reaches(mem.q, SourceOf(i))
  <2>1. \A i \in Es : mem.x[i] \in Int /\ Reaches(mem.q, mem.x[i])  BY DEF ReadyToQuantise, Tensor
  <2>2. \A i \in Es : (i % call.K) * call.M + (i \div call.K) \in Es  BY SourceInTensor
  <2> HIDE DEF Es
  <2> QED  BY <2>1, <2>2 DEF SourceOf
<1>2. \A x, floor : floor \in {-128, -127} => CodeOf(BodyCode(x, floor), mem.q, x)
  BY DEF CodeOf, BodyCode
<1>3. \A x : CodeOf(TailCode(x), mem.q, x)  BY DEF CodeOf, TailCode
<1>4. PICK f : /\ Continues("done", 0, [mem EXCEPT !.out = f])
               /\ \A i \in Es : CodeOf(f[i], mem.q, SourceOf(i))
  <2>1. CASE QuantiseFlat
    <3> DEFINE f == [i \in Es |-> IF i < Body(Elements) THEN BodyCode(mem.x[i], -127)
                                                        ELSE TailCode(mem.x[i])]
    <3>1. Continues("done", 0, [mem EXCEPT !.out = f]) /\ call.op \in {"flat", "scaled"}
      BY <2>1 DEF QuantiseFlat
    <3>2. \A i \in Es : SourceOf(i) = mem.x[i]  BY <3>1 DEF SourceOf
    <3>3. \A i \in Es : CodeOf(f[i], mem.q, mem.x[i])  BY <1>2, <1>3
    <3> HIDE DEF f
    <3> QED  BY <3>1, <3>2, <3>3
  <2>2. CASE QuantiseFp16
    <3> DEFINE f == [i \in Es |-> BodyCode(mem.x[i], -128)]
    <3>1. Continues("done", 0, [mem EXCEPT !.out = f]) /\ call.op = "fp16"
      BY <2>2 DEF QuantiseFp16
    <3>2. \A i \in Es : SourceOf(i) = mem.x[i]  BY <3>1 DEF SourceOf
    <3>3. \A i \in Es : CodeOf(f[i], mem.q, mem.x[i])  BY <1>2
    <3> HIDE DEF f
    <3> QED  BY <3>1, <3>2, <3>3
  <2>3. CASE QuantiseTransposed
    BY <2>3, <1>2, <1>3, ZenonT(40) DEF QuantiseTransposed, SourceOf, Continues
  <2>4. CASE QuantiseConcat
    BY <2>4, <1>2, <1>3, ZenonT(40) DEF QuantiseConcat, SourceOf, Continues
  <2> QED  BY <2>1, <2>2, <2>3, <2>4
<1>5. /\ call' = call /\ stage' = "done" /\ mem'.q = mem.q /\ mem'.x = mem.x /\ mem'.out = f
  BY <1>4 DEF Continues, ReadyToQuantise
<1>6. \A i \in Es : SourceOf(i)' = SourceOf(i)  BY <1>5 DEF SourceOf
<1> QED  BY <1>1, <1>4, <1>5, <1>6

\* Codes decode to within a step and a half of what they stand for, whatever the
\* tensor, its range, the tier and the operation.
THEOREM KernelsQuantiserBounds == KSpec => []QuantiserBounds
<1>1. KInit => QuantInv
  BY DEF KInit, QuantInv, QuantiserBounds, NoCall
<1>2. ASSUME QuantInv, [KNext]_kvars PROVE QuantInv'
  <2>1. CASE UNCHANGED kvars
    BY <1>2, <2>1
    DEF kvars, QuantInv, QuantiserBounds, ReadyToQuantise, Tensor, Elements, SourceOf
  <2>2. CASE Return  BY <2>2 DEF Return, QuantInv, QuantiserBounds, NoCall
  <2>3. CASE LoadLayer
    <3>1. stage' = "packed" /\ call' \in Calls /\ call'.family \in {"gemm", "gru"}
      BY <2>3 DEF LoadLayer, Starts
    <3> QED  BY <3>1 DEF QuantInv, QuantiserBounds
  <2>4. CASE QuantStart
    <3>1. PICK c \in Calls : /\ c.family = "quant" /\ call' = c /\ stage' = "packed"
                             /\ mem' = [x |-> [i \in 0 .. c.M * c.K - 1 |-> Sample(c.data, i)]]
      BY <2>4 DEF QuantStart, Starts
    <3>2. Tensor'  BY <3>1, TensorsAssumption DEF Tensor, Elements
    <3> QED  BY <3>1, <3>2 DEF QuantInv, QuantiserBounds
  <2>5. CASE stage' = "packed" /\ call' \in Calls /\ call'.family \in Others
    BY <2>5 DEF QuantInv, QuantiserBounds, Others
  <2>6. CASE call' = call /\ call.family # "quant"
    BY <1>2, <2>6 DEF QuantInv, QuantiserBounds
  <2>7. CASE call' = call /\ call.family = "quant" /\ ScanRange
    <3>1. call \in Calls /\ Tensor  BY <1>2, <2>7 DEF QuantInv, NoCall, ScanRange
    <3>2. CASE stage' = "aborted"
      BY <1>2, <2>7, <3>2 DEF QuantInv, QuantiserBounds
    <3>3. CASE stage' # "aborted"
      <4>1. call' = call /\ stage' = "ready" /\ ReadyToQuantise'
        BY <2>7, <3>1, <3>3, ScanReaches
      <4> QED  BY <3>1, <4>1 DEF QuantInv, QuantiserBounds
    <3> QED  BY <3>2, <3>3
  <2>8. CASE /\ call' = call /\ call.family = "quant"
             /\ QuantiseFlat \/ QuantiseFp16 \/ QuantiseTransposed \/ QuantiseConcat
    <3>1. stage = "ready" /\ call \in Calls /\ ReadyToQuantise
      BY <1>2, <2>8
      DEF QuantInv, NoCall, QuantiseFlat, QuantiseFp16, QuantiseTransposed, QuantiseConcat
    <3>2. CASE stage' = "aborted"
      BY <1>2, <2>8, <3>2 DEF QuantInv, QuantiserBounds
    <3>3. CASE stage' # "aborted"
      <4>1. /\ stage' = "done" /\ mem'.q = mem.q
            /\ \A i \in 0 .. Elements - 1 :
                 /\ SourceOf(i)' = SourceOf(i) /\ SourceOf(i) \in Int
                 /\ Reaches(mem.q, SourceOf(i)) /\ CodeOf(mem'.out[i], mem.q, SourceOf(i))
        BY <2>8, <3>1, <3>3, CodesWritten
      <4>2. Params(mem.q)  BY <3>1 DEF ReadyToQuantise
      <4>3. \A i \in 0 .. Elements - 1 : Close(mem'.out[i], mem.q, SourceOf(i))
        BY <4>1, <4>2, CodesClose
      <4>4. Elements' = Elements  BY <2>8 DEF Elements
      <4>5. QuantiserBounds'
        BY <4>1, <4>2, <4>3, <4>4 DEF QuantiserBounds, Close, Params
      <4> QED  BY <2>8, <3>1, <4>1, <4>5 DEF QuantInv
    <3> QED  BY <3>2, <3>3
  <2> QED
    BY <1>2, <2>1, <2>2, <2>3, <2>4, <2>5, <2>6, <2>7, <2>8, FamilyStep DEF Others, QuantNext
<1>3. QuantInv => QuantiserBounds  BY DEF QuantInv
<1> QED  BY <1>1, <1>2, <1>3, PTL DEF KSpec

-----------------------------------------------------------------------------
(* The fp32 layers *)

\* Byte of column n and depth k, where the tiles of the fp32 GEMM read it.
BlockAt(B, K, n, k) == B[(n \div SGEMM_NR) * K * SGEMM_NR + k * SGEMM_NR + (n % SGEMM_NR)]

\* A weight of the packed fp32 B is read back there.
LEMMA PackBRead ==
  ASSUME NEW w, NEW N \in Nat, NEW K \in Nat, NEW n \in 0 .. N - 1, NEW k \in 0 .. K - 1
  PROVE  BlockAt(PackB(w, N, K), K, n, k) = w[n][k]
<1> DEFINE b == n \div 8
           c == n % 8
           r == k * 8 + c
           s == 8 * K
           e == b * K * 8 + k * 8 + c
           nb == (N + 8 - 1) \div 8
<1>1. b \in Nat /\ c \in 0 .. 7 /\ n = 8 * b + c /\ nb \in Nat /\ b < nb  OBVIOUS
<1>2. r \div 8 = k /\ r % 8 = c /\ r \in 0 .. s - 1
  <2>1. k \in Nat /\ k < K /\ K * 8 = s /\ 8 \in Nat \ {0} /\ c \in 0 .. 8 - 1  OBVIOUS
  <2> HIDE DEF c, s
  <2>2. (k * 8 + c) \div 8 = k /\ (k * 8 + c) % 8 = c /\ k * 8 + c \in 0 .. K * 8 - 1
    BY <1>1, <2>1, TileOffset, Zenon
  <2> QED  BY <2>1, <2>2
<1>3. e = b * s + r
  <2>1. b * K * 8 = b * (8 * K)  BY <1>1
  <2>2. b * K * 8 \in Int /\ k * 8 \in Int  BY <1>1
  <2> QED  BY <1>1, <2>1, <2>2
<1>4. e \div s = b /\ e % s = r /\ e \in 0 .. nb * s - 1
  <2>1. s \in Nat \ {0}  OBVIOUS
  <2> HIDE DEF b, s, r, nb, e
  <2>2. (b * s + r) \div s = b /\ (b * s + r) % s = r /\ b * s + r \in 0 .. nb * s - 1
    BY <1>1, <1>2, <2>1, TileOffset, Zenon
  <2> QED  BY <1>3, <2>2
<1>5. e % 8 = c
  <2> DEFINE q == b * K + k
  <2>1. q \in Int /\ e = 8 * q + c /\ 8 \in Nat \ {0}
    <3>1. b * K \in Int /\ b * K * 8 = 8 * (b * K)  BY <1>1
    <3> HIDE DEF b, c
    <3> QED  BY <3>1, <1>1
  <2> HIDE DEF q, e, b
  <2>2. (8 * q + c) % 8 = c  BY <1>1, <2>1, DivModUnique
  <2> QED  BY <2>1, <2>2
<1>6. nb * s = nb * 8 * K  BY <1>1
<1>7. e \in 0 .. ((N + 8 - 1) \div 8) * 8 * K - 1  BY <1>4, <1>6
<1>8. PackB(w, N, K)[e] =
        LET m == (e \div (8 * K)) * 8 + (e % 8)
        IN  IF m < N THEN w[m][(e % (8 * K)) \div 8] ELSE 0
  BY <1>7, Zenon DEF PackB, SGEMM_NR
<1>9. (e \div (8 * K)) * 8 + (e % 8) = n /\ (e % (8 * K)) \div 8 = k
  <2>1. e \div (8 * K) = b /\ e % (8 * K) = r  BY <1>4
  <2> HIDE DEF e
  <2>2. (e % (8 * K)) \div 8 = k  BY <1>2, <2>1
  <2>3. b * 8 + c = n  BY <1>1
  <2> HIDE DEF b, c, r
  <2> QED  BY <1>5, <2>1, <2>2, <2>3
<1> HIDE DEF e
<1>10. PackB(w, N, K)[e] = w[n][k]  BY <1>8, <1>9
<1> QED  BY <1>10 DEF BlockAt, e, SGEMM_NR

\* The GEMM of a call: its shape, its operands, and cell n of row m.
Strided == call.op = "strided"
ConvDepth == IF Strided THEN 2 * call.ci * call.stride ELSE call.K
ConvRows == IF Strided THEN FNew - (ENC_K0 \div call.stride) + 1 ELSE call.M
Input(m, k) ==
  IF Strided THEN Reshaped(k \div 2, m + (k % 2)) ELSE Code(call.data, 0, m, k)
Untouched(m, n) == ConvBias(m * call.N + n)

ConvTerms(m, n) == [k \in Nat |-> Input(m, k) * Weight(call.data, 0, n, k)]

ConvFinal(m, n) ==
  (IF Strided THEN ConvBias(n) ELSE IF call.beta = 0 THEN 0 ELSE Untouched(m, n))
  + SumTo(ConvDepth, ConvTerms(m, n))

ReadsB(B) ==
  \A n \in 0 .. call.N - 1, k \in 0 .. ConvDepth - 1 :
    BlockAt(B, ConvDepth, n, k) = Weight(call.data, 0, n, k)
ReadsA(A) ==
  \A m \in 0 .. ConvRows - 1, k \in 0 .. ConvDepth - 1 : A[m * ConvDepth + k] = Input(m, k)

\* A call of the strided convolution, and the place where tap k of output m falls.
StridedCall == call \in Calls /\ call.family = "conv" /\ Strided
TapAt(m, k) == m * call.stride + k - StridedPad
InputAt(ch, at) == IF at \in 0 .. call.freq - 1 THEN InRow(ch, at) ELSE 0

\* The taps of channel ch of output m, as the definition of the layer has them.
TapsOf(m, n, ch) ==
  [k \in Nat |->
     LET at == m * call.stride + k - StridedPad
     IN  IF at \in 0 .. call.freq - 1
         THEN Weight(call.data, 0, n,
                     ((k % call.stride) * call.ci + ch) * 2 + k \div call.stride) * InRow(ch, at)
         ELSE 0]

\* The sizes of a strided layer after its reshape.
LEMMA StridedSizes ==
  ASSUME StridedCall
  PROVE  /\ call.stride = 4 /\ StridedPad = 2 /\ ConvDepth = 8 * call.ci
         /\ ConvRows = FNew - 1 /\ FNew = (call.freq + 4) \div 4 /\ ConvRows \in Nat
         /\ call.freq \in Nat \ {0} /\ call.ci \in Nat \ {0} /\ call.N \in Nat \ {0}
<1>1. /\ {call.freq, call.ci, call.N, call.stride} \subseteq Nat \ {0} /\ 2 * call.stride = 8
  BY ConvAssumption DEF StridedCall, Strided, ENC_K0
<1>2. call.stride = 4  BY <1>1
<1>3. StridedPad = 2  BY <1>2 DEF StridedPad, ENC_K0
<1>4. FNew = (call.freq + 4) \div 4
  BY <1>1, <1>2, <1>3 DEF FNew
<1>5. ConvDepth = 8 * call.ci  BY <1>1, <1>2 DEF ConvDepth, StridedCall
<1>6. ConvRows = FNew - 1
  <2>1. ENC_K0 \div call.stride = 2  BY <1>2 DEF ENC_K0
  <2>2. FNew \in Int  BY <1>1, <1>4
  <2> QED  BY <2>1, <2>2 DEF ConvRows, StridedCall
<1>7. FNew - 1 \in Nat  BY <1>1, <1>4
<1> QED  BY <1>1, <1>2, <1>3, <1>4, <1>5, <1>6, <1>7

\* The reshaped input has at phase p the values p past the multiples of the stride,
\* with zeros where the padding is.
LEMMA ReshapedRow ==
  ASSUME StridedCall, NEW m \in 0 .. ConvRows - 1, NEW b \in 0 .. 1, NEW p \in 0 .. 3,
         NEW ch \in 0 .. call.ci - 1
  PROVE  Reshaped(p * call.ci + ch, m + b) = InputAt(ch, TapAt(m, 4 * b + p))
<1>1. /\ call.stride = 4 /\ StridedPad = 2 /\ ConvRows = FNew - 1
      /\ FNew = (call.freq + 4) \div 4 /\ call.freq \in Nat \ {0} /\ call.ci \in Nat \ {0}
  BY StridedSizes
<1> DEFINE i == p * call.ci + ch
           f == m + b
           first == Least(FNew, (StridedPad - p + call.stride - 1) \div call.stride)
           last  == Greatest(first - 1,
                      Least(FNew - 1, (call.freq - 1 + StridedPad - p) \div call.stride))
<1>2. i % call.ci = ch /\ i \div call.ci = p
  <2>1. p \in Nat /\ 4 \in Nat /\ p < 4  OBVIOUS
  <2> QED  BY <1>1, <2>1, TileOffset, Zenon
<1>3. Reshaped(i, f)
        = IF f \in first .. last THEN InRow(ch, f * call.stride + p - StridedPad) ELSE 0
  <2> HIDE DEF i, f
  <2> QED  BY <1>2 DEF Reshaped
<1>4. f * call.stride + p - StridedPad = TapAt(m, 4 * b + p)  BY <1>1 DEF TapAt
<1>5. f \in first .. last <=> TapAt(m, 4 * b + p) \in 0 .. call.freq - 1
  BY <1>1 DEF TapAt, Least, Greatest
<1> QED  BY <1>3, <1>4, <1>5 DEF InputAt

\* The same place in the packed order and in that of the definition.
LEMMA StridedTerm ==
  ASSUME StridedCall, NEW m \in 0 .. ConvRows - 1, NEW n \in 0 .. call.N - 1,
         NEW b \in 0 .. 1, NEW p \in 0 .. 3, NEW ch \in 0 .. call.ci - 1
  PROVE  /\ ConvTerms(m, n)[2 * (p * call.ci + ch) + b] = TapsOf(m, n, ch)[4 * b + p]
         /\ Input(m, 2 * (p * call.ci + ch) + b) \in Int
         /\ Weight(call.data, 0, n, 2 * (p * call.ci + ch) + b) \in Int
<1>1. /\ call.stride = 4 /\ StridedPad = 2 /\ call.ci \in Nat \ {0} /\ call.freq \in Nat
      /\ call.N \in Nat \ {0} /\ ConvRows \in Nat
  BY StridedSizes
<1> DEFINE i == p * call.ci + ch
           j == 2 * i + b
           k == 4 * b + p
           at == TapAt(m, k)
           wt == Weight(call.data, 0, n, j)
<1>2. i \in 0 .. 4 * call.ci - 1
  <2>1. p \in Nat /\ 4 \in Nat /\ p < 4  OBVIOUS
  <2> QED  BY <1>1, <2>1, TileOffset, Zenon
<1>3. j \in 0 .. 8 * call.ci - 1 /\ j \div 2 = i /\ j % 2 = b
  <2> HIDE DEF i
  <2> QED  BY <1>1, <1>2
<1>4. wt \in Int /\ \A t \in 0 .. call.freq - 1 : InRow(ch, t) \in Int
  <2>1. /\ \A y \in 0 .. call.N - 1, z \in 0 .. ENC_K0 * call.ci - 1 :
             Weight(call.data, 0, y, z) \in Int
        /\ \A y \in 0 .. call.ci - 1, z \in 0 .. call.freq - 1 : Code(call.data, 0, y, z) \in Int
    BY ConvAssumption DEF StridedCall, Strided
  <2> HIDE DEF j
  <2> QED  BY <1>3, <2>1 DEF InRow, ENC_K0
<1>5. k \in Nat /\ k % 4 = p /\ k \div 4 = b  OBVIOUS
<1>6. Input(m, j) = InputAt(ch, at)
  <2>1. Reshaped(i, m + b) = InputAt(ch, at)  BY ReshapedRow
  <2> HIDE DEF i, j, at
  <2> QED  BY <1>3, <2>1 DEF Input, StridedCall
<1>7. InputAt(ch, at) \in Int
  <2> HIDE DEF at
  <2> QED  BY <1>4 DEF InputAt
<1>8. TapsOf(m, n, ch)[k] = IF at \in 0 .. call.freq - 1 THEN wt * InRow(ch, at) ELSE 0
  <2>1. TapsOf(m, n, ch)[k] =
          IF at \in 0 .. call.freq - 1
          THEN Weight(call.data, 0, n, ((k % call.stride) * call.ci + ch) * 2 + k \div call.stride)
                 * InRow(ch, at)
          ELSE 0
    <3> HIDE DEF k
    <3> QED  BY <1>5 DEF TapsOf, TapAt
  <2>2. ((k % call.stride) * call.ci + ch) * 2 + k \div call.stride = j
    <3>1. k % call.stride = p /\ k \div call.stride = b  BY <1>1, <1>5
    <3>2. (p * call.ci + ch) * 2 + b = j
      <4>1. i \in Int /\ j = 2 * i + b  BY <1>2
      <4> HIDE DEF i, j
      <4>2. i * 2 + b = j  BY <4>1
      <4> QED  BY <4>2 DEF i
    <3> HIDE DEF k, j
    <3> QED  BY <3>1, <3>2
  <2> HIDE DEF k, j, at
  <2> QED  BY <2>1, <2>2
<1>9. ConvTerms(m, n)[j] = Input(m, j) * wt
  <2>1. j \in Nat  BY <1>3
  <2> HIDE DEF j
  <2> QED  BY <2>1 DEF ConvTerms
<1>10. InputAt(ch, at) * wt = IF at \in 0 .. call.freq - 1 THEN wt * InRow(ch, at) ELSE 0
  <2> HIDE DEF at, wt
  <2>1. CASE at \in 0 .. call.freq - 1  BY <1>4, <2>1 DEF InputAt
  <2>2. CASE at \notin 0 .. call.freq - 1
    <3>1. InputAt(ch, at) = 0 /\ 0 * wt = 0  BY <1>4, <2>2 DEF InputAt
    <3> QED  BY <2>2, <3>1
  <2> QED  BY <2>1, <2>2
<1> HIDE DEF at, wt
<1>11. ConvTerms(m, n)[j] = TapsOf(m, n, ch)[k] /\ Input(m, j) \in Int /\ wt \in Int
  BY <1>4, <1>6, <1>7, <1>8, <1>9, <1>10
<1> QED  BY <1>11 DEF wt

\* Every term of the strided product is one of the terms above.
LEMMA StridedPlaces ==
  ASSUME NEW n \in Nat \ {0}, NEW j \in 0 .. 8 * n - 1
  PROVE  \E b \in 0 .. 1, p \in 0 .. 3, c \in 0 .. n - 1 : j = 2 * (p * n + c) + b
<1> DEFINE i == j \div 2
           b == j % 2
           p == i \div n
           c == i % n
<1>1. i \in Nat /\ i < 4 * n /\ b \in 0 .. 1 /\ j = 2 * i + b  OBVIOUS
<1>2. i = n * p + c /\ c \in 0 .. n - 1 /\ p \in Int
  <2>1. i \in Int /\ n \in Nat \ {0}  BY <1>1
  <2> HIDE DEF i
  <2> QED  BY <2>1, DivMod
<1>3. 0 <= p /\ p < 4
  <2>1. n \in Nat \ {0} /\ i \in Int /\ 0 \in Int /\ 4 \in Int /\ n * 0 <= i /\ i < n * 4
    BY <1>1
  <2> HIDE DEF i
  <2> QED  BY <2>1, DivBounds
<1>4. p \in 0 .. 3 /\ n * p = p * n  BY <1>2, <1>3
<1> HIDE DEF i, b, p, c
<1>5. j = 2 * (p * n + c) + b  BY <1>1, <1>2, <1>4
<1> QED  BY <1>1, <1>2, <1>4, <1>5

\* A row of the reshaped input times a column is the sum over channels and taps.
LEMMA StridedProduct ==
  ASSUME StridedCall, NEW m \in 0 .. ConvRows - 1, NEW n \in 0 .. call.N - 1
  PROVE  /\ SumTo(ConvDepth, ConvTerms(m, n))
              = SumTo(call.ci, [ch \in Nat |-> SumTo(ENC_K0, TapsOf(m, n, ch))])
         /\ \A k \in 0 .. ConvDepth - 1 :
              Input(m, k) \in Int /\ Weight(call.data, 0, n, k) \in Int
<1> DEFINE t == ConvTerms(m, n)
           u == [ch \in Nat |-> TapsOf(m, n, ch)]
           D1 == call.ci
<1>1. D1 \in Nat \ {0} /\ ConvDepth = 8 * D1  BY StridedSizes
<1>2. \A b \in 0 .. 1, p \in 0 .. 3, ch \in 0 .. D1 - 1 :
        /\ t[2 * (p * D1 + ch) + b] = u[ch][4 * b + p]
        /\ Input(m, 2 * (p * D1 + ch) + b) \in Int
        /\ Weight(call.data, 0, n, 2 * (p * D1 + ch) + b) \in Int
  <2> SUFFICES ASSUME NEW b \in 0 .. 1, NEW p \in 0 .. 3, NEW ch \in 0 .. D1 - 1
               PROVE  /\ t[2 * (p * D1 + ch) + b] = u[ch][4 * b + p]
                      /\ Input(m, 2 * (p * D1 + ch) + b) \in Int
                      /\ Weight(call.data, 0, n, 2 * (p * D1 + ch) + b) \in Int
    OBVIOUS
  <2>1. u[ch] = TapsOf(m, n, ch)
    <3>1. ch \in Nat  BY <1>1
    <3> QED  BY <3>1
  <2>2. /\ t[2 * (p * D1 + ch) + b] = TapsOf(m, n, ch)[4 * b + p]
        /\ Input(m, 2 * (p * D1 + ch) + b) \in Int
        /\ Weight(call.data, 0, n, 2 * (p * D1 + ch) + b) \in Int
    BY StridedTerm
  <2> HIDE DEF t, u, D1
  <2> QED  BY <2>1, <2>2
<1>3. \A j \in 0 .. 8 * D1 - 1 :
        Input(m, j) \in Int /\ Weight(call.data, 0, n, j) \in Int
  <2> HIDE DEF D1, t, u
  <2> TAKE j \in 0 .. 8 * D1 - 1
  <2>1. PICK b \in 0 .. 1, p \in 0 .. 3, ch \in 0 .. D1 - 1 : j = 2 * (p * D1 + ch) + b
    BY <1>1, StridedPlaces
  <2> QED  BY <1>2, <2>1
<1>4. \A j \in 0 .. 8 * D1 - 1 : t[j] \in Int
  <2> TAKE j \in 0 .. 8 * D1 - 1
  <2>1. j \in Nat  BY <1>1
  <2>2. t[j] = Input(m, j) * Weight(call.data, 0, n, j)  BY <2>1 DEF ConvTerms
  <2> QED  BY <1>3, <2>2
<1>5. EightApart(t, u, D1)
  <2> HIDE DEF t, u, D1
  <2> SUFFICES ASSUME NEW ch \in 0 .. D1 - 1
               PROVE  /\ u[ch][0] = t[2 * ch] /\ u[ch][4] = t[2 * ch + 1]
                      /\ u[ch][1] = t[2 * (D1 + ch)] /\ u[ch][5] = t[2 * (D1 + ch) + 1]
                      /\ u[ch][2] = t[2 * (2 * D1 + ch)] /\ u[ch][6] = t[2 * (2 * D1 + ch) + 1]
                      /\ u[ch][3] = t[2 * (3 * D1 + ch)] /\ u[ch][7] = t[2 * (3 * D1 + ch) + 1]
    BY DEF EightApart
  <2>1. \A b \in 0 .. 1, p \in 0 .. 3 : t[2 * (p * D1 + ch) + b] = u[ch][4 * b + p]
    BY <1>2
  <2>2. /\ t[2 * (0 * D1 + ch) + 0] = u[ch][4 * 0 + 0]
        /\ t[2 * (0 * D1 + ch) + 1] = u[ch][4 * 1 + 0]
        /\ t[2 * (1 * D1 + ch) + 0] = u[ch][4 * 0 + 1]
        /\ t[2 * (1 * D1 + ch) + 1] = u[ch][4 * 1 + 1]
        /\ t[2 * (2 * D1 + ch) + 0] = u[ch][4 * 0 + 2]
        /\ t[2 * (2 * D1 + ch) + 1] = u[ch][4 * 1 + 2]
        /\ t[2 * (3 * D1 + ch) + 0] = u[ch][4 * 0 + 3]
        /\ t[2 * (3 * D1 + ch) + 1] = u[ch][4 * 1 + 3]
    <3>1. {0, 1} \subseteq 0 .. 1 /\ {0, 1, 2, 3} \subseteq 0 .. 3  OBVIOUS
    <3> QED  BY <2>1, <3>1, Zenon
  <2> QED  BY <1>1, <2>2
<1>6. SumTo(8 * D1, t) = SumTo(D1, [ch \in Nat |-> SumTo(8, u[ch])])
  <2>1. D1 \in Nat  BY <1>1
  <2> HIDE DEF t, u, D1
  <2> QED  BY <1>4, <1>5, <2>1, SumToInterleaved, Zenon
<1>7. [ch \in Nat |-> SumTo(8, u[ch])] = [ch \in Nat |-> SumTo(ENC_K0, TapsOf(m, n, ch))]
  BY DEF ENC_K0
<1> HIDE DEF t, u
<1> QED  BY <1>1, <1>3, <1>6, <1>7 DEF t

GemmFields == {"B", "M", "K", "beta", "bias", "A", "C"}

\* A call of the driver, with or without bias.
DriverCall == call \in Calls /\ call.family = "conv" /\ call.op \in {"strided", "sgemm"}

\* What the driver is handed: with a bias, nothing is accumulated on C.
Entered(b) ==
  /\ GemmFields \subseteq DOMAIN b
  /\ b.M = ConvRows /\ b.K = ConvDepth /\ b.bias = Strided
  /\ b.beta = IF Strided THEN 0 ELSE call.beta
  /\ ReadsB(b.B) /\ ReadsA(b.A)

\* The rows below p have their product, the others what C held before.
Banded(p, C) ==
  /\ DOMAIN C = 0 .. ConvRows * call.N - 1
  /\ \A m \in 0 .. ConvRows - 1, n \in 0 .. call.N - 1 :
       C[m * call.N + n] = IF m < p THEN ConvFinal(m, n) ELSE Untouched(m, n)

GemmAt(st, p, b) ==
  /\ st = "packed" => ReadsB(b.B)
  /\ st = "loop" => Entered(b) /\ p \in Nat /\ Banded(p, b.C)
  /\ st = "done" => Banded(ConvRows, b.C)

\* The sizes and the operands of a product that the GEMM driver takes.
LEMMA DriverSizes ==
  ASSUME DriverCall
  PROVE  /\ ConvRows \in Nat /\ ConvDepth \in Nat /\ call.N \in Nat \ {0}
         /\ \A m \in 0 .. ConvRows - 1, n \in 0 .. call.N - 1, k \in 0 .. ConvDepth - 1 :
              Input(m, k) \in Int /\ Weight(call.data, 0, n, k) \in Int
<1>1. CASE Strided
  <2>1. StridedCall  BY <1>1 DEF StridedCall, DriverCall
  <2>2. call.ci \in Nat \ {0} /\ ConvRows \in Nat /\ call.N \in Nat \ {0}
        /\ ConvDepth = 8 * call.ci
    BY <2>1, StridedSizes
  <2>3. \A m \in 0 .. ConvRows - 1, n \in 0 .. call.N - 1 :
          \A k \in 0 .. ConvDepth - 1 : Input(m, k) \in Int /\ Weight(call.data, 0, n, k) \in Int
    BY <2>1, StridedProduct, Zenon
  <2> QED  BY <2>2, <2>3
<1>2. CASE ~Strided
  <2>1. call.op = "sgemm"  BY <1>2 DEF DriverCall, Strided
  <2>2. ConvRows = call.M /\ ConvDepth = call.K  BY <1>2 DEF ConvRows, ConvDepth
  <2>3. /\ {call.M, call.N} \subseteq Nat \ {0} /\ call.K \in Nat
        /\ \A n \in 0 .. call.N - 1, k \in 0 .. call.K - 1 : Weight(call.data, 0, n, k) \in Int
        /\ \A m \in 0 .. call.M - 1, k \in 0 .. call.K - 1 : Code(call.data, 0, m, k) \in Int
    BY <2>1, ConvAssumption DEF DriverCall
  <2> QED  BY <1>2, <2>2, <2>3 DEF Input
<1> QED  BY <1>1, <1>2

\* Both kinds of tile leave the cell's product.
LEMMA TilesExact ==
  ASSUME DriverCall, Entered(mem), NEW m \in 0 .. ConvRows - 1, NEW n \in 0 .. call.N - 1,
         mem.C[m * call.N + n] = Untouched(m, n)
  PROVE  TileCell(m, n) = ConvFinal(m, n) /\ TailCell(m, n) = ConvFinal(m, n)
<1> DEFINE t == [k \in Nat |->
                   mem.A[m * mem.K + k]
                   * mem.B[(n \div SGEMM_NR) * mem.K * SGEMM_NR + k * SGEMM_NR + (n % SGEMM_NR)]]
           s == SumTo(ConvDepth, ConvTerms(m, n))
<1>1. ConvDepth \in Nat /\ \A k \in 0 .. ConvDepth - 1 :
                             Input(m, k) \in Int /\ Weight(call.data, 0, n, k) \in Int
  BY DriverSizes
<1>2. ASSUME NEW k \in 0 .. ConvDepth - 1
      PROVE  t[k] = ConvTerms(m, n)[k] /\ ConvTerms(m, n)[k] \in Int
  <2>1. k \in Nat  BY <1>1
  <2>2. mem.A[m * mem.K + k] = Input(m, k)  BY DEF Entered, ReadsA
  <2>3. mem.B[(n \div SGEMM_NR) * mem.K * SGEMM_NR + k * SGEMM_NR + (n % SGEMM_NR)]
          = Weight(call.data, 0, n, k)
    BY DEF Entered, ReadsB, BlockAt
  <2>4. t[k] = Input(m, k) * Weight(call.data, 0, n, k)  BY <2>1, <2>2, <2>3
  <2>5. ConvTerms(m, n)[k] = Input(m, k) * Weight(call.data, 0, n, k)  BY <2>1 DEF ConvTerms
  <2> HIDE DEF t
  <2> QED  BY <1>1, <2>4, <2>5
<1>3. SumTo(mem.K, t) = s
  <2>1. mem.K = ConvDepth  BY DEF Entered
  <2> HIDE DEF t
  <2>2. SumTo(ConvDepth, t) = SumTo(ConvDepth, ConvTerms(m, n))  BY <1>1, <1>2, SumToSame
  <2> QED  BY <2>1, <2>2
<1>4. s \in Int
  <2>1. \A i \in 0 .. ConvDepth : SumTo(i, ConvTerms(m, n)) \in Int  BY <1>1, <1>2, SumToInt
  <2>2. ConvDepth \in 0 .. ConvDepth  BY <1>1
  <2> QED  BY <2>1, <2>2
<1>5. TileCell(m, n) = TileSeed(n) + s + (IF mem.beta = 0 THEN 0 ELSE mem.C[m * call.N + n])
  <2>1. TileCell(m, n) =
          TileSeed(n) + SumTo(mem.K, t) + (IF mem.beta = 0 THEN 0 ELSE mem.C[m * call.N + n])
    BY DEF TileCell
  <2> HIDE DEF t, s
  <2> QED  BY <1>3, <2>1
<1>6. TailCell(m, n) =
        (IF mem.bias THEN ConvBias(n) ELSE IF mem.beta = 0 THEN 0 ELSE mem.C[m * call.N + n]) + s
  <2>1. TailCell(m, n) =
          (IF mem.bias THEN ConvBias(n) ELSE IF mem.beta = 0 THEN 0 ELSE mem.C[m * call.N + n])
            + SumTo(mem.K, t)
    BY DEF TailCell
  <2> HIDE DEF t, s
  <2> QED  BY <1>3, <2>1
<1>7. ConvBias(n) \in Int /\ Untouched(m, n) \in Int
  <2>1. n \in Int /\ m \in Int /\ call.N \in Int /\ m * call.N + n \in Int  BY DriverSizes
  <2> QED  BY <2>1 DEF ConvBias, Untouched
<1>8. mem.bias = Strided /\ mem.beta = IF Strided THEN 0 ELSE call.beta  BY DEF Entered
<1>9. ConvFinal(m, n) =
        (IF Strided THEN ConvBias(n) ELSE IF call.beta = 0 THEN 0 ELSE Untouched(m, n)) + s
  BY DEF ConvFinal
<1> HIDE DEF t, s
<1> QED
  <2>1. CASE Strided  BY <1>4, <1>5, <1>6, <1>7, <1>8, <1>9, <2>1 DEF TileSeed
  <2>2. CASE ~Strided  BY <1>4, <1>5, <1>6, <1>7, <1>8, <1>9, <2>2 DEF TileSeed
  <2> QED  BY <2>1, <2>2

\* Where row m, column n of the result is, and that every entry is in some row.
LEMMA ConvCell ==
  ASSUME NEW M \in Nat, NEW N \in Nat \ {0}
  PROVE  /\ \A m \in 0 .. M - 1, n \in 0 .. N - 1 :
              (m * N + n) \div N = m /\ (m * N + n) % N = n /\ m * N + n \in 0 .. M * N - 1
         /\ \A e \in 0 .. M * N - 1 :
              e \div N \in 0 .. M - 1 /\ e % N \in 0 .. N - 1 /\ (e \div N) * N + (e % N) = e
<1>1. ASSUME NEW m \in 0 .. M - 1, NEW n \in 0 .. N - 1
      PROVE  (m * N + n) \div N = m /\ (m * N + n) % N = n /\ m * N + n \in 0 .. M * N - 1
  <2>1. m \in Nat /\ m < M  OBVIOUS
  <2> QED  BY <2>1, TileOffset, Zenon
<1>2. ASSUME NEW e \in 0 .. M * N - 1
      PROVE  e \div N \in 0 .. M - 1 /\ e % N \in 0 .. N - 1 /\ (e \div N) * N + (e % N) = e
  <2> DEFINE q == e \div N
             r == e % N
  <2>1. e \in Int  OBVIOUS
  <2>2. e = N * q + r /\ r \in 0 .. N - 1 /\ q \in Int  BY <2>1, DivMod, Zenon
  <2>3. 0 <= q /\ q < M
    <3>1. N * 0 <= e /\ e < N * M /\ 0 \in Int /\ M \in Int  OBVIOUS
    <3> HIDE DEF q
    <3> QED  BY <2>1, <3>1, DivBounds DEF q
  <2> HIDE DEF q, r
  <2>4. N * q = q * N  BY <2>2
  <2>5. q \in 0 .. M - 1 /\ r \in 0 .. N - 1 /\ q * N + r = e  BY <2>2, <2>3, <2>4
  <2> QED  BY <2>5 DEF q, r
<1> QED  BY <1>1, <1>2

\* What a call does not change, for the driver.
LEMMA DriverKept ==
  ASSUME call' = call, NEW st, NEW p, NEW b, GemmAt(st, p, b), stage' = st, pos' = p, mem' = b
  PROVE  GemmAt(stage, pos, mem)'
<1>1. /\ ConvRows' = ConvRows /\ ConvDepth' = ConvDepth /\ (Strided' <=> Strided)
  BY DEF ConvRows, ConvDepth, Strided, FNew, StridedPad
<1>2. \A i, f : Reshaped(i, f)' = Reshaped(i, f)  BY DEF Reshaped, FNew, StridedPad, InRow
<1>3. \A m, k : Input(m, k)' = Input(m, k)  BY <1>1, <1>2 DEF Input
<1>4. \A m, n : Untouched(m, n)' = Untouched(m, n)  BY DEF Untouched
<1>5. \A m, n : ConvTerms(m, n)' = ConvTerms(m, n)  BY <1>3 DEF ConvTerms
<1>6. \A m, n : ConvFinal(m, n)' = ConvFinal(m, n)  BY <1>1, <1>4, <1>5 DEF ConvFinal
<1>7. \A B : ReadsB(B)' <=> ReadsB(B)  BY <1>1 DEF ReadsB
<1>8. \A A : ReadsA(A)' <=> ReadsA(A)  BY <1>1, <1>3 DEF ReadsA
<1>9. \A q, C : Banded(q, C)' <=> Banded(q, C)  BY <1>1, <1>4, <1>6 DEF Banded
<1>10. \A c : Entered(c)' <=> Entered(c)  BY <1>1, <1>7, <1>8 DEF Entered
<1> QED  BY <1>1, <1>7, <1>9, <1>10 DEF GemmAt

\* A band of rows is computed from operands and cells that no band has touched.
LEMMA DriverBand ==
  ASSUME DriverCall, GemmAt(stage, pos, mem), SgemmBand
  PROVE  GemmAt(stage, pos, mem)'
<1> DEFINE full == pos + SGEMM_MR <= mem.M
           end == IF full THEN pos + SGEMM_MR ELSE mem.M
           cell(m, n) == IF full /\ n < (call.N \div SGEMM_NR) * SGEMM_NR
                         THEN TileCell(m, n) ELSE TailCell(m, n)
           C == [e \in DOMAIN mem.C |->
                   IF e \div call.N \in pos .. end - 1
                   THEN cell(e \div call.N, e % call.N) ELSE mem.C[e]]
           b == [mem EXCEPT !.C = C]
           st == IF end = mem.M THEN "done" ELSE "loop"
<1>1. call' = call /\ stage = "loop" /\ stage' = st /\ pos' = end /\ mem' = b
  BY DEF SgemmBand, Continues
<1>2. Entered(mem) /\ pos \in Nat /\ Banded(pos, mem.C) /\ mem.M = ConvRows
  BY <1>1 DEF GemmAt, Entered
<1>3. ConvRows \in Nat /\ call.N \in Nat \ {0}  BY DriverSizes
<1>4. end \in Nat /\ (end = mem.M \/ (end = pos + 8 /\ end <= mem.M))
  BY <1>2, <1>3 DEF SGEMM_MR
<1>5. /\ b.C = C /\ b.B = mem.B /\ b.A = mem.A /\ b.M = mem.M /\ b.K = mem.K
      /\ b.beta = mem.beta /\ b.bias = mem.bias /\ GemmFields \subseteq DOMAIN b
  <2>1. GemmFields \subseteq DOMAIN mem  BY <1>2 DEF Entered
  <2> HIDE DEF C
  <2> QED  BY <2>1 DEF GemmFields
<1>6. Banded(end, C)
  <2>1. DOMAIN C = 0 .. ConvRows * call.N - 1  BY <1>2 DEF Banded
  <2>2. ASSUME NEW m \in 0 .. ConvRows - 1, NEW n \in 0 .. call.N - 1
        PROVE  C[m * call.N + n] = IF m < end THEN ConvFinal(m, n) ELSE Untouched(m, n)
    <3> DEFINE e == m * call.N + n
    <3>1. e \div call.N = m /\ e % call.N = n /\ e \in DOMAIN mem.C
      <4>1. e \div call.N = m /\ e % call.N = n /\ e \in 0 .. ConvRows * call.N - 1
        BY <1>3, ConvCell
      <4> QED  BY <1>2, <4>1 DEF Banded
    <3>2. mem.C[e] = IF m < pos THEN ConvFinal(m, n) ELSE Untouched(m, n)  BY <1>2 DEF Banded
    <3>3. C[e] = IF m \in pos .. end - 1 THEN cell(m, n) ELSE mem.C[e]
      <4> HIDE DEF e, end, full, cell
      <4> QED  BY <3>1
    <3>4. CASE m < pos
      <4>1. m < end  BY <1>2, <1>3, <1>4, <3>4
      <4>2. ~(m \in pos .. end - 1)  BY <1>2, <3>4
      <4> HIDE DEF C, end, cell, e
      <4>3. C[e] = ConvFinal(m, n)  BY <3>2, <3>3, <3>4, <4>2
      <4> QED  BY <4>1, <4>3 DEF e
    <3>5. CASE m \in pos .. end - 1
      <4>1. mem.C[e] = Untouched(m, n) /\ m < end  BY <1>2, <1>4, <3>2, <3>5
      <4>2. TileCell(m, n) = ConvFinal(m, n) /\ TailCell(m, n) = ConvFinal(m, n)
        BY <1>2, <4>1, TilesExact
      <4>3. cell(m, n) = ConvFinal(m, n)
        <5> HIDE DEF full
        <5> QED  BY <4>2
      <4> HIDE DEF C, end, cell, e
      <4>4. C[e] = ConvFinal(m, n)  BY <3>3, <3>5, <4>3
      <4> QED  BY <4>1, <4>4 DEF e
    <3>6. CASE ~(m < pos) /\ ~(m \in pos .. end - 1)
      <4>1. ~(m < end)  BY <1>2, <1>3, <1>4, <3>6
      <4> HIDE DEF C, end, cell, e
      <4>2. C[e] = Untouched(m, n)  BY <3>2, <3>3, <3>6
      <4> QED  BY <4>1, <4>2 DEF e
    <3> QED  BY <3>4, <3>5, <3>6
  <2> HIDE DEF C, end
  <2> QED  BY <2>1, <2>2 DEF Banded
<1>7. Entered(b)
  <2> HIDE DEF b, C
  <2> QED  BY <1>2, <1>5 DEF Entered
<1>8. GemmAt(st, end, b)
  <2> HIDE DEF b, C, end
  <2> QED  BY <1>2, <1>4, <1>5, <1>6, <1>7 DEF GemmAt
<1> HIDE DEF b, end, st
<1> QED  BY <1>1, <1>8, DriverKept

\* The packed weights are those of the layer.
LEMMA DriverPacks ==
  ASSUME NEW c \in Calls, c.family = "conv", c.op \in {"strided", "sgemm"}, call' = c, NEW B,
         B = PackB([n \in Nat |-> [k \in Nat |-> Weight(c.data, 0, n, k)]], c.N,
                   IF c.op = "strided" THEN 2 * c.ci * c.stride ELSE c.K)
  PROVE  ReadsB(B)'
<1> DEFINE w == [n \in Nat |-> [k \in Nat |-> Weight(c.data, 0, n, k)]]
           K == IF c.op = "strided" THEN 2 * c.ci * c.stride ELSE c.K
<1>1. K \in Nat /\ c.N \in Nat
  <2>1. CASE c.op = "strided"
    <3>1. {c.N, c.ci, c.stride} \subseteq Nat /\ 2 * c.stride = 8
      BY <2>1, ConvAssumption DEF ENC_K0
    <3>2. c.stride = 4  BY <3>1
    <3> QED  BY <2>1, <3>1, <3>2
  <2>2. CASE c.op # "strided"
    <3>1. c.N \in Nat /\ c.K \in Nat  BY <2>2, ConvAssumption
    <3> QED  BY <2>2, <3>1
  <2> QED  BY <2>1, <2>2
<1>2. ConvDepth' = K  BY DEF ConvDepth, Strided
<1>3. ASSUME NEW n \in 0 .. c.N - 1, NEW k \in 0 .. K - 1
      PROVE  BlockAt(B, K, n, k) = Weight(c.data, 0, n, k)
  <2>1. n \in Nat /\ k \in Nat  BY <1>1
  <2>2. w[n][k] = Weight(c.data, 0, n, k)  BY <2>1
  <2> HIDE DEF w, K
  <2>3. BlockAt(PackB(w, c.N, K), K, n, k) = w[n][k]  BY <1>1, PackBRead
  <2>4. B = PackB(w, c.N, K)  BY DEF w, K
  <2> QED  BY <2>2, <2>3, <2>4
<1> HIDE DEF K
<1> QED  BY <1>2, <1>3 DEF ReadsB

\* The strided convolution enters the driver with its reshaped input, the GEMM
\* with the caller's.
LEMMA DriverEnters ==
  ASSUME DriverCall, GemmAt(stage, pos, mem), StridedIm2col \/ SgemmEnter
  PROVE  GemmAt(stage, pos, mem)'
<1> DEFINE b == [B |-> mem.B, M |-> ConvRows, K |-> ConvDepth,
                 beta |-> IF Strided THEN 0 ELSE call.beta, bias |-> Strided,
                 A |-> [e \in 0 .. ConvRows * ConvDepth - 1 |->
                          Input(e \div ConvDepth, e % ConvDepth)],
                 C |-> [e \in 0 .. ConvRows * call.N - 1 |-> ConvBias(e)]]
<1>1. ConvRows \in Nat /\ ConvDepth \in Nat /\ call.N \in Nat \ {0}  BY DriverSizes
<1>2. call' = call /\ stage = "packed" /\ stage' = "loop" /\ pos' = 0 /\ mem' = b
  <2>1. CASE StridedIm2col
    <3> DEFINE Ci == call.ci * call.stride
               buffers(M, K, S) ==
                 [B |-> mem.B, M |-> M, K |-> K, beta |-> 0, bias |-> TRUE,
                  A |-> [e \in 0 .. S - 1 |-> Reshaped((e % K) \div 2, (e \div K) + (e % 2))],
                  C |-> [e \in 0 .. M * call.N - 1 |-> ConvBias(e)]]
    <3>0. StridedCall  BY <2>1 DEF StridedIm2col, StridedCall, DriverCall, Strided
    <3>1. Strided /\ call.stride = 4 /\ call.ci \in Nat /\ ConvDepth = 8 * call.ci
      BY <3>0, StridedSizes DEF StridedCall
    <3>2. 2 * Ci = ConvDepth  BY <3>1
    <3>3. ConvRows = FNew - (ENC_K0 \div call.stride) + 1  BY <3>1 DEF ConvRows
    <3>4. \A e \in 0 .. ConvRows * ConvDepth - 1 :
            Reshaped((e % ConvDepth) \div 2, (e \div ConvDepth) + (e % 2))
              = Input(e \div ConvDepth, e % ConvDepth)
      <4> TAKE e \in 0 .. ConvRows * ConvDepth - 1
      <4> DEFINE r == e % ConvDepth
                 q == e \div ConvDepth
      <4>1. e % 2 = r % 2
        <5>1. call.ci \in Nat \ {0}  BY <3>0, StridedSizes
        <5>2. ConvDepth \in Nat \ {0} /\ e \in Int  BY <1>1, <3>1, <5>1
        <5>3. e = ConvDepth * q + r /\ r \in 0 .. ConvDepth - 1 /\ q \in Int
          BY <5>2, DivMod, Zenon
        <5> HIDE DEF q, r
        <5>4. ConvDepth * q = 2 * (4 * (call.ci * q)) /\ call.ci * q \in Int  BY <3>1, <5>3
        <5>5. e = 2 * (4 * (call.ci * q)) + r  BY <5>3, <5>4
        <5> QED  BY <5>3, <5>4, <5>5
      <4> HIDE DEF r, q
      <4> QED  BY <3>1, <4>1 DEF Input, r, q
    <3>5. LET M == FNew - (ENC_K0 \div call.stride) + 1
          IN  Continues("loop", 0, buffers(M, 2 * Ci, M * 2 * Ci)) /\ stage = "packed"
      BY <2>1 DEF StridedIm2col
    <3>6. Continues("loop", 0, buffers(ConvRows, ConvDepth, ConvRows * ConvDepth))
          /\ stage = "packed"
      <4>1. ConvRows * 2 * Ci = ConvRows * ConvDepth
        <5>1. Ci \in Nat  BY <3>1
        <5> HIDE DEF Ci
        <5>2. ConvRows * 2 * Ci = ConvRows * (2 * Ci)  BY <1>1, <5>1
        <5> QED  BY <3>2, <5>2
      <4> HIDE DEF Ci, buffers
      <4> QED  BY <3>2, <3>3, <3>5, <4>1
    <3>7. buffers(ConvRows, ConvDepth, ConvRows * ConvDepth) = b
      <4>1. [e \in 0 .. ConvRows * ConvDepth - 1 |->
               Reshaped((e % ConvDepth) \div 2, (e \div ConvDepth) + (e % 2))]
              = [e \in 0 .. ConvRows * ConvDepth - 1 |->
                   Input(e \div ConvDepth, e % ConvDepth)]
        BY <3>4
      <4> QED  BY <3>1, <4>1
    <3> HIDE DEF buffers, b, Ci
    <3> QED  BY <3>6, <3>7 DEF Continues
  <2>2. CASE SgemmEnter
    <3>1. ~Strided /\ ConvRows = call.M /\ ConvDepth = call.K
      BY <2>2 DEF SgemmEnter, Strided, ConvRows, ConvDepth
    <3>2. \A m, k : Input(m, k) = Code(call.data, 0, m, k)  BY <3>1 DEF Input
    <3>3. [e \in 0 .. call.M * call.K - 1 |-> Code(call.data, 0, e \div call.K, e % call.K)]
            = [e \in 0 .. ConvRows * ConvDepth - 1 |->
                 Input(e \div ConvDepth, e % ConvDepth)]
      BY <3>1, <3>2
    <3>4. /\ stage = "packed"
          /\ Continues("loop", 0,
               [B |-> mem.B, M |-> call.M, K |-> call.K, beta |-> call.beta, bias |-> FALSE,
                A |-> [e \in 0 .. call.M * call.K - 1 |->
                         Code(call.data, 0, e \div call.K, e % call.K)],
                C |-> [e \in 0 .. call.M * call.N - 1 |-> ConvBias(e)]])
      BY <2>2, Zenon DEF SgemmEnter
    <3>5. [e \in 0 .. call.M * call.N - 1 |-> ConvBias(e)]
            = [e \in 0 .. ConvRows * call.N - 1 |-> ConvBias(e)]
      BY <3>1
    <3>6. Strided = FALSE  BY <3>1
    <3>7. call.beta = IF Strided THEN 0 ELSE call.beta  BY <3>1
    <3> HIDE DEF b
    <3>8. mem' = b  BY <3>1, <3>3, <3>4, <3>5, <3>6, <3>7, Zenon DEF Continues, b
    <3> QED  BY <3>4, <3>8 DEF Continues
  <2> QED  BY <2>1, <2>2
<1>3. Banded(0, b.C)
  <2>1. \A m \in 0 .. ConvRows - 1, n \in 0 .. call.N - 1 :
          m * call.N + n \in 0 .. ConvRows * call.N - 1
    BY <1>1, ConvCell
  <2>3. \A m \in 0 .. ConvRows - 1 : ~(m < 0)  BY <1>1
  <2>2. b.C = [e \in 0 .. ConvRows * call.N - 1 |-> ConvBias(e)]  OBVIOUS
  <2> HIDE DEF b
  <2> QED  BY <2>1, <2>2, <2>3 DEF Banded, Untouched
<1>4. ReadsA(b.A)
  <2>1. ASSUME NEW m \in 0 .. ConvRows - 1, NEW k \in 0 .. ConvDepth - 1
        PROVE  b.A[m * ConvDepth + k] = Input(m, k)
    <3>1. ConvDepth \in Nat \ {0}  BY <1>1
    <3>2. /\ (m * ConvDepth + k) \div ConvDepth = m /\ (m * ConvDepth + k) % ConvDepth = k
          /\ m * ConvDepth + k \in 0 .. ConvRows * ConvDepth - 1
      BY <1>1, <3>1, ConvCell
    <3>3. b.A = [e \in 0 .. ConvRows * ConvDepth - 1 |->
                   Input(e \div ConvDepth, e % ConvDepth)]
      OBVIOUS
    <3> HIDE DEF b
    <3> QED  BY <3>2, <3>3
  <2> HIDE DEF b
  <2> QED  BY <2>1 DEF ReadsA
<1>5. GemmAt("loop", 0, b)
  <2>1. ReadsB(mem.B)  BY <1>2 DEF GemmAt
  <2>2. /\ GemmFields \subseteq DOMAIN b /\ b.M = ConvRows /\ b.K = ConvDepth
        /\ b.bias = Strided /\ b.beta = (IF Strided THEN 0 ELSE call.beta) /\ b.B = mem.B
    BY DEF GemmFields
  <2> HIDE DEF b
  <2> QED  BY <1>3, <1>4, <2>1, <2>2 DEF GemmAt, Entered
<1> HIDE DEF b
<1> QED  BY <1>2, <1>5, DriverKept

\* What the driver leaves is what the layer defines.
LEMMA DriverExact ==
  ASSUME DriverCall, Banded(ConvRows, mem.C), NEW e \in DOMAIN mem.C
  PROVE  IF Strided THEN mem.C[e] = StridedAt(e \div call.N, e % call.N)
         ELSE mem.C[e] = (IF call.beta = 0 THEN 0 ELSE ConvBias(e))
                         + SumTo(call.K, [k \in Nat |-> Code(call.data, 0, e \div call.N, k)
                                                        * Weight(call.data, 0, e % call.N, k)])
<1> DEFINE m == e \div call.N
           n == e % call.N
<1>1. ConvRows \in Nat /\ call.N \in Nat \ {0}  BY DriverSizes
<1>2. m \in 0 .. ConvRows - 1 /\ n \in 0 .. call.N - 1 /\ m * call.N + n = e
  <2>1. e \in 0 .. ConvRows * call.N - 1  BY DEF Banded
  <2> QED  BY <1>1, <2>1, ConvCell
<1>3. mem.C[e] = ConvFinal(m, n) /\ Untouched(m, n) = ConvBias(e)
  <2> HIDE DEF m, n
  <2>1. mem.C[m * call.N + n] = IF m < ConvRows THEN ConvFinal(m, n) ELSE Untouched(m, n)
    BY <1>2 DEF Banded
  <2>2. m < ConvRows  BY <1>1, <1>2
  <2> QED  BY <1>2, <2>1, <2>2 DEF Untouched
<1>4. CASE Strided
  <2>1. StridedCall  BY <1>4 DEF StridedCall, DriverCall
  <2>2. SumTo(ConvDepth, ConvTerms(m, n))
          = SumTo(call.ci, [ch \in Nat |-> SumTo(ENC_K0, TapsOf(m, n, ch))])
    <3> HIDE DEF m, n
    <3> QED  BY <1>2, <2>1, StridedProduct, Zenon
  <2>3. StridedAt(m, n)
          = ConvBias(n) + SumTo(call.ci, [ch \in Nat |-> SumTo(ENC_K0, TapsOf(m, n, ch))])
    <3> HIDE DEF m, n
    <3> QED  BY DEF StridedAt, TapsOf
  <2> HIDE DEF m, n
  <2>4. mem.C[e] = StridedAt(m, n)  BY <1>3, <1>4, <2>2, <2>3 DEF ConvFinal
  <2> QED  BY <1>4, <2>4 DEF m, n
<1>5. CASE ~Strided
  <2>1. ConvTerms(m, n) = [k \in Nat |-> Code(call.data, 0, m, k) * Weight(call.data, 0, n, k)]
    <3> HIDE DEF m, n
    <3> QED  BY <1>5 DEF ConvTerms, Input
  <2>2. ConvDepth = call.K  BY <1>5 DEF ConvDepth
  <2>3. mem.C[e] = (IF call.beta = 0 THEN 0 ELSE ConvBias(e)) + SumTo(ConvDepth, ConvTerms(m, n))
    <3> HIDE DEF m, n
    <3> QED  BY <1>3, <1>5 DEF ConvFinal
  <2> QED  BY <1>5, <2>1, <2>2, <2>3
<1> QED  BY <1>4, <1>5

TransCall == call \in Calls /\ call.family = "conv" /\ call.op = "transposed"

\* What input frame f adds to place p of output row o, by tap; and what channel i does.
TapTerm(i, o, p, f) ==
  LET k == p - f * call.stride + TransPad
  IN  IF k \in 0 .. call.K - 1 THEN Tap(i, o, k) * Code(call.data, 0, f, i) ELSE 0
ChannelTerm(i, o, p) == SumTo(call.freq, [f \in Nat |-> TapTerm(i, o, p, f)])
ChannelTerms(o, p) == [i \in Nat |-> ChannelTerm(i, o, p)]

\* Every entry has its bias and the taps of the channels below top.
Channels(top, C) ==
  /\ DOMAIN C = 0 .. call.N * OutFreq - 1
  /\ \A e \in DOMAIN C :
       C[e] = ConvBias(e \div OutFreq)
              + SumTo(top, ChannelTerms(e \div OutFreq, e % OutFreq))

TransAt(st, p, b) ==
  /\ st = "loop" => p \in 0 .. call.ci - 1 /\ "C" \in DOMAIN b /\ Channels(p, b.C)
  /\ st = "done" => Channels(call.ci, b.C)

\* The sizes of a transposed layer.
LEMMA TransSizes ==
  ASSUME TransCall
  PROVE  /\ {call.freq, call.ci, call.N, call.K, call.stride, OutFreq} \subseteq Nat \ {0}
         /\ TransPad \in Nat /\ OutFreq = (call.freq - 1) * call.stride - 2 * TransPad + call.K
<1>1. /\ {call.freq, call.ci, call.N, call.K, call.stride} \subseteq Nat \ {0}
      /\ call.stride <= call.K
  <2>1. /\ {call.freq, call.ci, call.N, call.stride} \subseteq Nat \ {0} /\ call.K = 8
        /\ call.stride <= call.K
    BY ConvAssumption DEF TransCall
  <2> QED  BY <2>1
<1>2. TransPad \in Nat /\ 2 * TransPad <= call.K - call.stride  BY <1>1 DEF TransPad
<1>3. OutFreq = (call.freq - 1) * call.stride - 2 * TransPad + call.K  BY DEF OutFreq
<1>4. (call.freq - 1) * call.stride \in Nat
  <2>1. call.freq - 1 \in Nat /\ call.stride \in Nat  BY <1>1
  <2> QED  BY <2>1
<1> QED  BY <1>1, <1>2, <1>3, <1>4

\* The three loops of fe_conv_transpose1d, up to InnerFirst - 1, up to InnerLast
\* and from there on, follow each other and stay within the input: one of them,
\* and one only, takes each frame.
LEMMA EachFrameOnce ==
  ASSUME TransCall
  PROVE  0 <= InnerFirst /\ InnerFirst <= InnerLast + 1 /\ InnerLast < call.freq
<1> DEFINE S == call.stride
           a == TransPad + S - 1
           b == (call.freq - 1) * S - TransPad
<1>1. /\ {call.freq, S} \subseteq Nat \ {0} /\ TransPad \in Nat /\ call.K \in Nat
      /\ OutFreq \in Nat /\ OutFreq = (call.freq - 1) * S - 2 * TransPad + call.K
  BY TransSizes
<1>2. (call.freq - 1) * S \in Nat
  <2>1. call.freq - 1 \in Nat /\ S \in Nat  BY <1>1
  <2> QED  BY <2>1
<1>3. OutFreq - call.K + TransPad = b
  <2>1. ASSUME NEW x \in Nat, OutFreq = x - 2 * TransPad + call.K
        PROVE  OutFreq - call.K + TransPad = x - TransPad
    BY <1>1, <2>1
  <2> QED  BY <1>1, <1>2, <2>1
<1>4. InnerFirst = a \div S /\ InnerLast = b \div S  BY <1>3 DEF InnerFirst, InnerLast
<1>5. InnerFirst <= InnerLast + 1
  <2>1. a \div S <= b \div S + 1  BY ConvAssumption DEF TransCall, TransPad
  <2> QED  BY <1>4, <2>1
<1>6. a \in Nat /\ b \in Int  BY <1>1, <1>2
<1>7. /\ a = S * (a \div S) + (a % S) /\ a % S \in 0 .. S - 1 /\ a \div S \in Int
      /\ b = S * (b \div S) + (b % S) /\ b % S \in 0 .. S - 1 /\ b \div S \in Int
  <2>1. a \in Int /\ S \in Nat \ {0}  BY <1>1, <1>6
  <2> QED  BY <1>6, <2>1, DivMod, Zenon
<1>8. 0 <= InnerFirst
  <2>1. a \div S >= 0  BY <1>1, <1>6
  <2> QED  BY <1>4, <2>1
<1>9. InnerLast < call.freq
  <2> DEFINE y == b \div S
  <2>1. y \in Int /\ S * y = y * S /\ y * S \in Int  BY <1>1, <1>7
  <2>2. y * S <= (call.freq - 1) * S
    <3>1. S * y <= b  BY <1>1, <1>6, <1>7, <2>1
    <3> HIDE DEF y
    <3> QED  BY <1>1, <1>2, <2>1, <3>1
  <2>3. ASSUME y >= call.freq PROVE FALSE
    <3>1. call.freq * S <= y * S
      <4>1. call.freq \in Int /\ S \in Nat  BY <1>1
      <4> HIDE DEF y
      <4> QED  BY <2>1, <2>3, <4>1, ProductMonotone
    <3>2. call.freq * S = (call.freq - 1) * S + S /\ call.freq * S \in Int  BY <1>1
    <3> HIDE DEF y
    <3> QED  BY <1>1, <1>2, <2>1, <2>2, <3>1, <3>2
  <2> QED  BY <1>1, <1>4, <2>1, <2>3
<1> QED  BY <1>5, <1>8, <1>9

\* Interior frames store within their row, so that the missing guard decides nothing.
LEMMA StampInRow ==
  ASSUME TransCall, NEW o \in 0 .. call.N - 1, NEW f \in 0 .. call.freq - 1, NEW e \in Int
  PROVE  Stamped(o, f, e) <=>
           /\ e - o * OutFreq \in 0 .. OutFreq - 1
           /\ (e - o * OutFreq) - f * call.stride + TransPad \in 0 .. call.K - 1
<1> DEFINE S == call.stride
           p == e - o * OutFreq
           first == InnerFirst
           last == InnerLast
<1>1. /\ {call.freq, call.N, call.K, S, OutFreq} \subseteq Nat \ {0} /\ TransPad \in Nat
  BY TransSizes
<1>2. o * OutFreq \in Int /\ f * S \in Int /\ p \in Int
  <2>1. o \in Int /\ f \in Int /\ OutFreq \in Int /\ S \in Int  BY <1>1
  <2>2. o * OutFreq \in Int /\ f * S \in Int  BY <2>1
  <2> QED  BY <2>2
<1>3. p - (f * S - TransPad) = p - f * S + TransPad  BY <1>1, <1>2
<1>4. Stamped(o, f, e) <=>
        /\ p - (f * S - TransPad) \in 0 .. call.K - 1
        /\ f \in first .. last \/ p \in 0 .. OutFreq - 1
  BY DEF Stamped
<1>5. f \in first .. last => TransPad <= f * S /\ f * S <= OutFreq - call.K + TransPad
  <2> SUFFICES ASSUME f \in first .. last
               PROVE  TransPad <= f * S /\ f * S <= OutFreq - call.K + TransPad
    OBVIOUS
  <2> DEFINE x == TransPad + S - 1
             y == OutFreq - call.K + TransPad
  <2>1. x \in Int /\ y \in Int /\ S \in Nat \ {0} /\ f \in Int  BY <1>1
  <2>2. x = S * (x \div S) + (x % S) /\ x % S \in 0 .. S - 1 /\ x \div S \in Int
    BY <2>1, DivMod, Zenon
  <2>3. y = S * (y \div S) + (y % S) /\ y % S \in 0 .. S - 1 /\ y \div S \in Int
    BY <2>1, DivMod, Zenon
  <2>4. first = x \div S /\ last = y \div S  BY DEF InnerFirst, InnerLast
  <2>5. first \in Int /\ last \in Int /\ first <= f /\ f <= last  BY <2>1, <2>2, <2>3, <2>4
  <2>6. first * S <= f * S /\ f * S <= last * S  BY <2>1, <2>5, ProductMonotone
  <2>7. x = S * first + (x % S) /\ y = S * last + (y % S)  BY <2>2, <2>3, <2>4
  <2>8. S * first = first * S /\ S * last = last * S /\ first * S \in Int /\ last * S \in Int
    BY <2>1, <2>5
  <2>9. x >= TransPad + S - 1 /\ y <= OutFreq - call.K + TransPad  BY <2>1
  <2> HIDE DEF x, y, first, last, S
  <2>10. TransPad <= first * S
    <3> DEFINE rest == x % S
    <3>1. rest \in Int /\ rest <= S - 1 /\ S \in Int  BY <2>1, <2>2
    <3>2. x = first * S + rest  BY <2>7, <2>8
    <3> HIDE DEF rest
    <3> QED  BY <1>1, <2>8, <2>9, <3>1, <3>2
  <2>11. last * S <= OutFreq - call.K + TransPad
    BY <1>1, <2>1, <2>3, <2>7, <2>8, <2>9
  <2> QED  BY <1>1, <1>2, <2>6, <2>8, <2>10, <2>11
<1> HIDE DEF p, S, first, last
<1>6. Stamped(o, f, e) <=> p \in 0 .. OutFreq - 1 /\ p - f * S + TransPad \in 0 .. call.K - 1
  BY <1>1, <1>2, <1>3, <1>4, <1>5
<1> QED  BY <1>6 DEF p, S

\* The taps and the inputs are integers.
LEMMA TapTermInt ==
  ASSUME TransCall, NEW i \in 0 .. call.ci - 1, NEW o \in 0 .. call.N - 1,
         NEW f \in 0 .. call.freq - 1, NEW p \in Int
  PROVE  TapTerm(i, o, p, f) \in Int
<1> DEFINE k == p - f * call.stride + TransPad
<1>1. /\ \A y \in 0 .. call.ci - 1, z \in 0 .. call.N * call.K - 1 :
           Weight(call.data, 1, y, z) \in Int
      /\ \A y \in 0 .. call.freq - 1, z \in 0 .. call.ci - 1 : Code(call.data, 0, y, z) \in Int
  BY ConvAssumption DEF TransCall
<1>2. call.N \in Nat \ {0} /\ call.K \in Nat \ {0}  BY TransSizes
<1>3. ASSUME k \in 0 .. call.K - 1 PROVE Tap(i, o, k) * Code(call.data, 0, f, i) \in Int
  <2>1. o * call.K + k \in 0 .. call.N * call.K - 1
    <3>1. \A m \in 0 .. call.N - 1, n \in 0 .. call.K - 1 :
            m * call.K + n \in 0 .. call.N * call.K - 1
      <4>1. call.N \in Nat  BY <1>2
      <4> QED  BY <1>2, <4>1, ConvCell
    <3> HIDE DEF k
    <3> QED  BY <1>3, <3>1
  <2>2. Tap(i, o, k) \in Int
    <3> HIDE DEF k
    <3> QED  BY <1>1, <2>1 DEF Tap
  <2>3. Code(call.data, 0, f, i) \in Int  BY <1>1
  <2> HIDE DEF k
  <2> QED  BY <2>2, <2>3
<1>4. TapTerm(i, o, p, f) = IF k \in 0 .. call.K - 1
                            THEN Tap(i, o, k) * Code(call.data, 0, f, i) ELSE 0
  BY DEF TapTerm
<1> HIDE DEF k
<1> QED  BY <1>3, <1>4

\* A channel adds an integer to each place.
LEMMA ChannelInt ==
  ASSUME TransCall, NEW i \in 0 .. call.ci - 1, NEW o \in 0 .. call.N - 1, NEW p \in Int
  PROVE  ChannelTerm(i, o, p) \in Int
<1> DEFINE t == [f \in Nat |-> TapTerm(i, o, p, f)]
<1>1. call.freq \in Nat  BY TransSizes
<1>2. \A f \in 0 .. call.freq - 1 : t[f] \in Int
  <2> TAKE f \in 0 .. call.freq - 1
  <2>1. f \in Nat  BY <1>1
  <2>2. t[f] = TapTerm(i, o, p, f)  BY <2>1
  <2> HIDE DEF t
  <2> QED  BY <2>2, TapTermInt
<1> HIDE DEF t
<1>3. \A n \in 0 .. call.freq : SumTo(n, t) \in Int  BY <1>1, <1>2, SumToInt
<1>4. call.freq \in 0 .. call.freq  BY <1>1
<1> QED  BY <1>3, <1>4 DEF ChannelTerm, t

\* What a channel stores in a row: nothing in another row, its taps in this one.
StampTerm(i, o, e, f) ==
  IF Stamped(o, f, e)
  THEN Tap(i, o, e - o * OutFreq - (f * call.stride - TransPad)) * Code(call.data, 0, f, i)
  ELSE 0

\* The stamps of a channel on a row add up to its term there, and are 0 elsewhere.
LEMMA RowStamps ==
  ASSUME TransCall, NEW i, NEW o \in 0 .. call.N - 1, NEW e \in 0 .. call.N * OutFreq - 1
  PROVE  SumTo(call.freq, [f \in Nat |-> StampTerm(i, o, e, f)])
           = IF o = e \div OutFreq THEN ChannelTerm(i, o, e % OutFreq) ELSE 0
<1> DEFINE p == e - o * OutFreq
           t == [f \in Nat |-> StampTerm(i, o, e, f)]
           u == [f \in Nat |-> TapTerm(i, o, e % OutFreq, f)]
           r == e % OutFreq
           q == e \div OutFreq
<1>1. /\ {call.freq, call.N, call.K, call.stride, OutFreq} \subseteq Nat \ {0} /\ TransPad \in Nat
  BY TransSizes
<1>2. q \in 0 .. call.N - 1 /\ r \in 0 .. OutFreq - 1 /\ q * OutFreq + r = e
  <2>1. call.N \in Nat /\ OutFreq \in Nat \ {0}  BY <1>1
  <2> QED  BY <2>1, ConvCell
<1>3. e \in Int /\ p \in Int /\ o * OutFreq \in Int
  <2>1. e \in Int /\ o \in Int /\ OutFreq \in Int
    <3>1. call.N * OutFreq \in Int  BY <1>1
    <3> QED  BY <1>1, <3>1
  <2>2. o * OutFreq \in Int  BY <2>1
  <2> QED  BY <2>1, <2>2
<1>4. CASE o = q
  <2>1. p = r
    <3>1. q * OutFreq \in Int  BY <1>3, <1>4
    <3> HIDE DEF q, r
    <3> QED  BY <1>2, <1>3, <1>4, <3>1
  <2>2. ASSUME NEW f \in 0 .. call.freq - 1 PROVE t[f] = u[f]
    <3>1. f \in Nat /\ f * call.stride \in Int
      <4>1. f \in Nat /\ call.stride \in Nat  BY <1>1
      <4> QED  BY <4>1
    <3>2. p - (f * call.stride - TransPad) = r - f * call.stride + TransPad
      <4> HIDE DEF p, r
      <4> QED  BY <1>1, <1>3, <2>1, <3>1
    <3>3. Stamped(o, f, e) <=> /\ p \in 0 .. OutFreq - 1
                               /\ p - f * call.stride + TransPad \in 0 .. call.K - 1
      BY <1>3, StampInRow
    <3>4. Stamped(o, f, e) <=> r - f * call.stride + TransPad \in 0 .. call.K - 1
      <4> HIDE DEF p, r
      <4> QED  BY <1>2, <2>1, <3>3
    <3>5. t[f] = StampTerm(i, o, e, f) /\ u[f] = TapTerm(i, o, r, f)  BY <3>1
    <3>6. StampTerm(i, o, e, f) = IF Stamped(o, f, e)
                                  THEN Tap(i, o, p - (f * call.stride - TransPad))
                                         * Code(call.data, 0, f, i)
                                  ELSE 0
      BY DEF StampTerm
    <3>7. TapTerm(i, o, r, f) = IF r - f * call.stride + TransPad \in 0 .. call.K - 1
                                THEN Tap(i, o, r - f * call.stride + TransPad)
                                       * Code(call.data, 0, f, i)
                                ELSE 0
      BY DEF TapTerm
    <3> HIDE DEF t, u, p, r
    <3> QED  BY <3>2, <3>4, <3>5, <3>6, <3>7
  <2>3. SumTo(call.freq, t) = SumTo(call.freq, u)
    <3>1. call.freq \in Nat  BY <1>1
    <3> HIDE DEF t, u
    <3> QED  BY <2>2, <3>1, SumToSame
  <2>4. ChannelTerm(i, o, r) = SumTo(call.freq, u)  BY DEF ChannelTerm
  <2> HIDE DEF u, r, q
  <2> QED  BY <1>4, <2>3, <2>4 DEF q, r
<1>5. CASE o # q
  <2>1. ~(p \in 0 .. OutFreq - 1)
    <3> SUFFICES ASSUME p \in 0 .. OutFreq - 1 PROVE FALSE  OBVIOUS
    <3>1. OutFreq \in Nat \ {0} /\ o \in Int  BY <1>1
    <3>2. (OutFreq * o + p) \div OutFreq = o  BY <3>1, DivModUnique, Zenon
    <3>3. OutFreq * o + p = e
      <4>1. OutFreq * o = o * OutFreq  BY <3>1
      <4> QED  BY <1>3, <4>1
    <3> HIDE DEF p
    <3> QED  BY <1>5, <3>2, <3>3
  <2>2. ASSUME NEW f \in 0 .. call.freq - 1 PROVE t[f] = 0
    <3>1. f \in Nat  BY <1>1
    <3>2. ~Stamped(o, f, e)  BY <1>3, <2>1, StampInRow
    <3> QED  BY <3>1, <3>2 DEF StampTerm
  <2>3. SumTo(call.freq, t) \in Int /\ call.freq * 0 <= SumTo(call.freq, t)
        /\ SumTo(call.freq, t) <= call.freq * 0
    <3>1. call.freq \in Nat /\ 0 \in Int /\ \A f \in 0 .. call.freq - 1 : t[f] \in 0 .. 0
      BY <1>1, <2>2
    <3> HIDE DEF t
    <3> QED  BY <3>1, SumToBounds
  <2>4. call.freq * 0 = 0  BY <1>1
  <2>5. SumTo(call.freq, t) = 0
    <3> HIDE DEF t
    <3> QED  BY <2>3, <2>4
  <2> HIDE DEF q
  <2> QED  BY <1>5, <2>5 DEF q
<1> QED  BY <1>4, <1>5

\* What is true of a transposed layer depends on its call and memory only.
LEMMA TransKept ==
  ASSUME call' = call, NEW st, NEW p, NEW b, TransAt(st, p, b), stage' = st, pos' = p, mem' = b
  PROVE  TransAt(stage, pos, mem)'
<1>1. OutFreq' = OutFreq /\ TransPad' = TransPad  BY DEF OutFreq, TransPad
<1>2. \A i, o, q, f : TapTerm(i, o, q, f)' = TapTerm(i, o, q, f)  BY <1>1 DEF TapTerm, Tap
<1>3. \A i, o, q : ChannelTerm(i, o, q)' = ChannelTerm(i, o, q)  BY <1>2 DEF ChannelTerm
<1>4. \A o, q : ChannelTerms(o, q)' = ChannelTerms(o, q)  BY <1>3 DEF ChannelTerms
<1>5. \A top, C : Channels(top, C)' <=> Channels(top, C)  BY <1>1, <1>4 DEF Channels
<1> QED  BY <1>5 DEF TransAt

\* The rows begin at their bias, with no channel in.
LEMMA TransEnters ==
  ASSUME TransCall, TransBias
  PROVE  TransAt(stage, pos, mem)'
<1> DEFINE C == [e \in 0 .. call.N * OutFreq - 1 |-> ConvBias(e \div OutFreq)]
           b == [C |-> C]
<1>1. call' = call /\ stage' = "loop" /\ pos' = 0 /\ mem' = b  BY DEF TransBias, Continues
<1>2. Channels(0, C)
  <2>1. ASSUME NEW e \in 0 .. call.N * OutFreq - 1
        PROVE  C[e] = ConvBias(e \div OutFreq)
                      + SumTo(0, ChannelTerms(e \div OutFreq, e % OutFreq))
    <3>1. C[e] = ConvBias(e \div OutFreq)  OBVIOUS
    <3>2. SumTo(0, ChannelTerms(e \div OutFreq, e % OutFreq)) = 0  BY SumToStep
    <3>3. ConvBias(e \div OutFreq) \in Int
      <4>1. OutFreq \in Nat \ {0} /\ call.N \in Nat \ {0}  BY TransSizes
      <4>2. call.N * OutFreq \in Int  BY <4>1
      <4>3. e \in Int  BY <4>2
      <4>4. e \div OutFreq \in Int  BY <4>1, <4>3, DivMod
      <4> QED  BY <4>4 DEF ConvBias
    <3> HIDE DEF C
    <3> QED  BY <3>1, <3>2, <3>3
  <2>2. DOMAIN C = 0 .. call.N * OutFreq - 1  OBVIOUS
  <2> HIDE DEF C
  <2> QED  BY <2>1, <2>2 DEF Channels
<1>3. TransAt("loop", 0, b)
  <2>1. 0 \in 0 .. call.ci - 1
    <3>1. call.ci \in Nat \ {0}  BY TransSizes
    <3> QED  BY <3>1
  <2>2. "C" \in DOMAIN b /\ b.C = C  OBVIOUS
  <2> HIDE DEF b, C
  <2> QED  BY <1>2, <2>1, <2>2 DEF TransAt
<1> HIDE DEF b
<1> QED  BY <1>1, <1>3, TransKept

\* A channel's stamps add its taps to each row, and nothing across rows.
LEMMA TransAdds ==
  ASSUME TransCall, TransAt(stage, pos, mem), TransChannel
  PROVE  TransAt(stage, pos, mem)'
<1> DEFINE rowSum(e) ==
             [o \in Nat |-> SumTo(call.freq, [f \in Nat |-> StampTerm(pos, o, e, f)])]
           add(e) == SumTo(call.N, rowSum(e))
           C == [e \in DOMAIN mem.C |-> mem.C[e] + add(e)]
           b == [C |-> C]
           st == IF pos + 1 = call.ci THEN "done" ELSE "loop"
<1>1. call' = call /\ stage = "loop" /\ stage' = st /\ pos' = pos + 1 /\ mem' = b
  BY DEF TransChannel, Continues, StampTerm
<1>2. pos \in 0 .. call.ci - 1 /\ Channels(pos, mem.C)  BY <1>1 DEF TransAt
<1>3. /\ {call.freq, call.ci, call.N, OutFreq} \subseteq Nat \ {0}
  BY TransSizes
<1>4. ASSUME NEW e \in 0 .. call.N * OutFreq - 1
      PROVE  C[e] = ConvBias(e \div OutFreq)
                    + SumTo(pos + 1, ChannelTerms(e \div OutFreq, e % OutFreq))
  <2> DEFINE q == e \div OutFreq
             r == e % OutFreq
             t == ChannelTerms(q, r)
             u == rowSum(e)
  <2>1. q \in 0 .. call.N - 1 /\ r \in 0 .. OutFreq - 1
    <3>1. call.N \in Nat /\ OutFreq \in Nat \ {0}  BY <1>3
    <3> QED  BY <3>1, ConvCell
  <2>2. q \in Int /\ r \in Int /\ pos \in Nat  BY <1>2, <1>3, <2>1
  <2>3. \A o \in 0 .. call.N - 1 : u[o] = IF o = q THEN ChannelTerm(pos, q, r) ELSE 0
    <3> TAKE o \in 0 .. call.N - 1
    <3>1. o \in Nat  BY <1>3
    <3>2. u[o] = SumTo(call.freq, [f \in Nat |-> StampTerm(pos, o, e, f)])  BY <3>1
    <3>3. SumTo(call.freq, [f \in Nat |-> StampTerm(pos, o, e, f)])
            = IF o = e \div OutFreq THEN ChannelTerm(pos, o, e % OutFreq) ELSE 0
      BY RowStamps
    <3> HIDE DEF u
    <3> QED  BY <3>2, <3>3
  <2>4. ChannelTerm(pos, q, r) \in Int
    <3> HIDE DEF q, r
    <3> QED  BY <1>2, <2>1, <2>2, ChannelInt
  <2>5. add(e) = ChannelTerm(pos, q, r)
    <3>1. call.N \in Nat  BY <1>3
    <3> HIDE DEF u, q, r
    <3>2. u[q] = ChannelTerm(pos, q, r)  BY <2>1, <2>3
    <3>3. \A o \in 0 .. call.N - 1 : o # q => u[o] = 0  BY <2>3
    <3>4. SumTo(call.N, u) = u[q]  BY <2>1, <2>4, <3>1, <3>2, <3>3, SumToSingle
    <3> QED  BY <3>2, <3>4 DEF u
  <2>6. SumTo(pos + 1, t) = SumTo(pos, t) + t[pos]
    <3> HIDE DEF t
    <3> QED  BY <2>2, SumToStep
  <2>7. t[pos] = ChannelTerm(pos, q, r)
    <3> HIDE DEF q, r
    <3> QED  BY <2>2 DEF ChannelTerms
  <2>8. SumTo(pos, t) \in Int
    <3>1. \A i \in 0 .. pos - 1 : t[i] \in Int
      <4> TAKE i \in 0 .. pos - 1
      <4>1. i \in 0 .. call.ci - 1 /\ i \in Nat  BY <1>2, <1>3
      <4> HIDE DEF q, r
      <4>2. t[i] = ChannelTerm(i, q, r)  BY <4>1 DEF ChannelTerms
      <4>3. ChannelTerm(i, q, r) \in Int  BY <2>1, <2>2, <4>1, ChannelInt
      <4> QED  BY <4>2, <4>3
    <3>2. pos \in 0 .. pos  BY <2>2
    <3> HIDE DEF t
    <3> QED  BY <2>2, <3>1, <3>2, SumToInt
  <2>9. mem.C[e] = ConvBias(q) + SumTo(pos, t) /\ e \in DOMAIN mem.C  BY <1>2 DEF Channels
  <2>10. C[e] = mem.C[e] + add(e)
    <3> HIDE DEF add
    <3> QED  BY <2>9
  <2>11. ConvBias(q) \in Int
    <3> HIDE DEF q
    <3> QED  BY <2>2 DEF ConvBias
  <2> HIDE DEF C, add, t, q, r
  <2>12. C[e] = ConvBias(q) + SumTo(pos + 1, t)
    BY <2>4, <2>5, <2>6, <2>7, <2>8, <2>9, <2>10, <2>11
  <2> QED  BY <2>12 DEF t, q, r
<1>5. Channels(pos + 1, C)
  <2>1. DOMAIN C = 0 .. call.N * OutFreq - 1  BY <1>2 DEF Channels
  <2> HIDE DEF C
  <2> QED  BY <1>4, <2>1 DEF Channels
<1>6. TransAt(st, pos + 1, b)
  <2>1. "C" \in DOMAIN b /\ b.C = C
    <3> HIDE DEF C
    <3> QED  OBVIOUS
  <2>2. st = "loop" => pos + 1 \in 0 .. call.ci - 1  BY <1>2, <1>3
  <2>3. st = "done" => pos + 1 = call.ci  OBVIOUS
  <2> HIDE DEF b, C, st
  <2> QED  BY <1>5, <2>1, <2>2, <2>3 DEF TransAt
<1> HIDE DEF b, st
<1> QED  BY <1>1, <1>6, TransKept

\* What the channels add up to is what the layer defines.
LEMMA TransExact ==
  ASSUME TransCall, Channels(call.ci, mem.C), NEW e \in DOMAIN mem.C
  PROVE  mem.C[e] = TransposedAt(e \div OutFreq, e % OutFreq)
<1> DEFINE o == e \div OutFreq
           p == e % OutFreq
<1>1. mem.C[e] = ConvBias(o) + SumTo(call.ci, ChannelTerms(o, p))  BY DEF Channels
<1>2. TransposedAt(o, p) = ConvBias(o) + SumTo(call.ci, ChannelTerms(o, p))
  <2> HIDE DEF o, p
  <2> QED  BY DEF TransposedAt, ChannelTerms, ChannelTerm, TapTerm
<1> HIDE DEF o, p
<1>3. mem.C[e] = TransposedAt(o, p)  BY <1>1, <1>2
<1> QED  BY <1>3 DEF o, p

-----------------------------------------------------------------------------
(* ConvExact *)

ConvInv ==
  /\ call \in Calls \cup {NoCall}
  /\ call.family = "conv" =>
       /\ call.op \in {"strided", "sgemm", "transposed"}
       /\ call.op \in {"strided", "sgemm"} => GemmAt(stage, pos, mem)
       /\ call.op = "transposed" => TransAt(stage, pos, mem)

\* A step that makes or keeps a call of an fp32 layer is one of these layers'.
LEMMA ConvStep ==
  ASSUME [KNext]_kvars, call'.family = "conv"
  PROVE  UNCHANGED kvars \/ ConvNext
<1>1. ~Return  BY DEF Return, NoCall
<1>2. ~LoadLayer  BY DEF LoadLayer, Starts
<1>3. ~QuantStart  BY DEF QuantStart, Starts
<1>4. ~(call' = call /\ call.family \in {"gemm", "gru", "quant"})  OBVIOUS
<1> QED  BY <1>1, <1>2, <1>3, <1>4, FamilyStep DEF OwnStep

\* The strided convolution, the transposed one and the fp32 GEMM compute their
\* definitions for every shape, number of channels and tail.  The strided layer has
\* a kernel of 8, two strides long; the transposed one has 8 taps and any stride at
\* which its edge loops do not meet, as the engine's have (ConvAssumption).
THEOREM KernelsConvExact == KSpec => []ConvExact
<1>1. KInit => ConvInv
  BY DEF KInit, ConvInv, NoCall
<1>2. ASSUME ConvInv, [KNext]_kvars PROVE ConvInv'
  <2>1. call' \in Calls \cup {NoCall}
    <3>1. CASE UNCHANGED kvars  BY <1>2, <3>1 DEF ConvInv, kvars
    <3>2. CASE Return  BY <3>2 DEF Return
    <3>3. CASE LoadLayer \/ QuantStart  BY <3>3 DEF LoadLayer, QuantStart, Starts
    <3>4. CASE call' \in Calls \/ call' = call  BY <1>2, <3>4 DEF ConvInv
    <3> QED  BY <1>2, <3>1, <3>2, <3>3, <3>4, FamilyStep
  <2>2. CASE call'.family # "conv"  BY <2>1, <2>2 DEF ConvInv
  <2>3. CASE UNCHANGED kvars /\ call'.family = "conv"
    <3>1. call' = call /\ stage' = stage /\ pos' = pos /\ mem' = mem  BY <2>3 DEF kvars
    <3>2. call.op \in {"strided", "sgemm"} => GemmAt(stage, pos, mem)'
      BY <1>2, <2>3, <3>1, DriverKept DEF ConvInv
    <3>3. call.op = "transposed" => TransAt(stage, pos, mem)'
      BY <1>2, <2>3, <3>1, TransKept DEF ConvInv
    <3> QED  BY <1>2, <2>1, <2>3, <3>1, <3>2, <3>3 DEF ConvInv
  <2>4. CASE StridedStart \/ SgemmStart
    <3>1. PICK c \in Calls :
            /\ c.family = "conv" /\ c.op \in {"strided", "sgemm"}
            /\ call' = c /\ stage' = "packed"
            /\ \E B : /\ mem' = [B |-> B]
                     /\ B = PackB([n \in Nat |-> [k \in Nat |-> Weight(c.data, 0, n, k)]], c.N,
                                  IF c.op = "strided" THEN 2 * c.ci * c.stride ELSE c.K)
      <4>1. CASE StridedStart
        <5>1. PICK c \in Calls :
                /\ c.family = "conv" /\ c.op = "strided" /\ call' = c /\ stage' = "packed"
                /\ mem' = [B |-> PackB([n \in Nat |-> [k \in Nat |-> Weight(c.data, 0, n, k)]],
                                       c.N, 2 * c.ci * c.stride)]
          BY <4>1 DEF StridedStart, Starts
        <5> QED  BY <5>1
      <4>2. CASE SgemmStart
        <5>1. PICK c \in Calls :
                /\ c.family = "conv" /\ c.op = "sgemm" /\ call' = c /\ stage' = "packed"
                /\ mem' = [B |-> PackB([n \in Nat |-> [k \in Nat |-> Weight(c.data, 0, n, k)]],
                                       c.N, c.K)]
          BY <4>2 DEF SgemmStart, Starts
        <5> QED  BY <5>1
      <4> QED  BY <2>4, <4>1, <4>2
    <3>2. PICK B : /\ mem' = [B |-> B]
                   /\ B = PackB([n \in Nat |-> [k \in Nat |-> Weight(c.data, 0, n, k)]], c.N,
                                IF c.op = "strided" THEN 2 * c.ci * c.stride ELSE c.K)
      BY <3>1
    <3>3. GemmAt(stage, pos, mem)'
      <4>1. ReadsB(mem.B)'
        <5>1. ReadsB(B)'  BY <3>1, <3>2, DriverPacks
        <5>2. mem'.B = B  BY <3>2
        <5> QED  BY <5>1, <5>2 DEF ReadsB
      <4> QED  BY <3>1, <4>1 DEF GemmAt
    <3> QED  BY <2>1, <3>1, <3>3 DEF ConvInv
  <2>5. CASE TransStart
    <3>1. call'.op = "transposed" /\ stage' = "packed"  BY <2>5 DEF TransStart, Starts
    <3> QED  BY <2>1, <3>1 DEF ConvInv, TransAt
  <2>6. CASE StridedIm2col \/ SgemmEnter \/ SgemmBand
    <3>1. call' = call /\ call.family = "conv" /\ call.op \in {"strided", "sgemm"}
      BY <2>6 DEF StridedIm2col, SgemmEnter, SgemmBand, Continues
    <3>2. DriverCall /\ GemmAt(stage, pos, mem)
      BY <1>2, <3>1 DEF ConvInv, DriverCall, NoCall
    <3>3. GemmAt(stage, pos, mem)'  BY <2>6, <3>2, DriverEnters, DriverBand
    <3> QED  BY <2>1, <3>1, <3>3 DEF ConvInv
  <2>7. CASE TransBias \/ TransChannel
    <3>1. call' = call /\ call.family = "conv" /\ call.op = "transposed"
      BY <2>7 DEF TransBias, TransChannel, Continues
    <3>2. TransCall /\ TransAt(stage, pos, mem)
      BY <1>2, <3>1 DEF ConvInv, TransCall, NoCall
    <3>3. TransAt(stage, pos, mem)'  BY <2>7, <3>2, TransEnters, TransAdds
    <3> QED  BY <2>1, <3>1, <3>3 DEF ConvInv
  <2> QED
    BY <1>2, <2>2, <2>3, <2>4, <2>5, <2>6, <2>7, ConvStep DEF ConvNext
<1>3. ConvInv => ConvExact
  <2> SUFFICES ASSUME ConvInv, stage = "done", call.family = "conv", NEW e \in DOMAIN mem.C
               PROVE  mem.C[e] =
                 CASE call.op = "strided" -> StridedAt(e \div call.N, e % call.N)
                   [] call.op = "transposed" -> TransposedAt(e \div OutFreq, e % OutFreq)
                   [] call.op = "sgemm" ->
                        (IF call.beta = 0 THEN 0 ELSE ConvBias(e))
                        + SumTo(call.K, [k \in Nat |-> Code(call.data, 0, e \div call.N, k)
                                                       * Weight(call.data, 0, e % call.N, k)])
    BY DEF ConvExact
  <2>1. CASE call.op \in {"strided", "sgemm"}
    <3>1. DriverCall /\ Banded(ConvRows, mem.C)
      BY <2>1 DEF ConvInv, DriverCall, GemmAt, NoCall
    <3>2. IF Strided THEN mem.C[e] = StridedAt(e \div call.N, e % call.N)
          ELSE mem.C[e] = (IF call.beta = 0 THEN 0 ELSE ConvBias(e))
                         + SumTo(call.K, [k \in Nat |-> Code(call.data, 0, e \div call.N, k)
                                                        * Weight(call.data, 0, e % call.N, k)])
      BY <3>1, DriverExact
    <3> QED  BY <2>1, <3>2 DEF Strided
  <2>2. CASE call.op = "transposed"
    <3>1. TransCall /\ Channels(call.ci, mem.C)
      BY <2>2 DEF ConvInv, TransCall, TransAt, NoCall
    <3>2. mem.C[e] = TransposedAt(e \div OutFreq, e % OutFreq)  BY <3>1, TransExact
    <3> QED  BY <2>2, <3>2
  <2> QED  BY <2>1, <2>2 DEF ConvInv
<1> QED  BY <1>1, <1>2, <1>3, PTL DEF KSpec

-----------------------------------------------------------------------------
(* Winograd *)

\* Row p of channel ch of a frame x, its transform, the taps and what is derived of them.
FrameAt(c, x, p, ch) == IF p \in 0 .. c.M - 1 THEN x[p * c.K + ch] ELSE 0

PartAt(c, x, i, t, ch) ==
  CASE i = 0 -> FrameAt(c, x, 2 * t - 1, ch) - FrameAt(c, x, 2 * t + 1, ch)
    [] i = 1 -> FrameAt(c, x, 2 * t, ch) + FrameAt(c, x, 2 * t + 1, ch)
    [] i = 2 -> FrameAt(c, x, 2 * t + 1, ch) - FrameAt(c, x, 2 * t, ch)
    [] i = 3 -> FrameAt(c, x, 2 * t, ch) - FrameAt(c, x, 2 * t + 2, ch)

Tap3(c, W, n, ch, j) == PackedAt(W, 3 * c.K, n, 3 * ch + j)
DerivedAt(c, W, i, n, ch) ==
  Derived(i, Tap3(c, W, n, ch, 0), Tap3(c, W, n, ch, 1), Tap3(c, W, n, ch, 2))

Cols(c) == 0 .. c.N - 1
Chans(c) == 0 .. c.K - 1
Tiles(c) == 0 .. (c.M \div 2) - 1

\* The call of a layer and its buffers, from the load on: whole numbers.
WinoCall(c) == c \in Calls /\ c.family = "wino"
WholeFrame(c, b) ==
  /\ \A n \in Cols(c), j \in 0 .. 3 * c.K - 1 : PackedAt(b.W, 3 * c.K, n, j) \in Int
  /\ \A e \in 0 .. c.M * c.K - 1 : b.x[e] \in Int

\* Once derived, the weights of each component are coded by their rows' peaks.
CodedWeights(c, b) ==
  \A i \in Components, n \in Cols(c) :
    /\ b.top[i][n] \in Nat
    /\ \A ch \in Chans(c) : Coded(DerivedAt(c, b.W, i, n, ch), b.top[i][n], PackedAt(b.wg[i], c.K, n, ch))

\* Once scanned, no element of a transform exceeds its component's peak.
Scanned(c, b) ==
  \A i \in Components :
    /\ b.peak[i] \in Nat \ {0}
    /\ \A t \in Tiles(c), ch \in Chans(c) : PartAt(c, b.x, i, t, ch) \in -b.peak[i] .. b.peak[i]

\* Once transformed, the frame is coded too.
CodedFrame(c, b) ==
  \A i \in Components, t \in Tiles(c), ch \in Chans(c) :
    Coded(PartAt(c, b.x, i, t, ch), b.peak[i], b.dq[i][t * c.K + ch])

\* The products of the first p components.
ProductAt(c, b, i, t, n) ==
  SumTo(c.K, [k \in Nat |-> b.dq[i][t * c.K + k] * PackedAt(b.wg[i], c.K, n, k)])
Multiplied(c, p, b) ==
  \A i \in Components : i < p =>
    \A t \in Tiles(c), n \in Cols(c) : b.U[i][t][n] = ProductAt(c, b, i, t, n)

\* WinogradClose, of a call and its buffers.
ConvolvedAt(c, b, f, n) ==
  SumTo(3 * c.K, [j \in Nat |-> PackedAt(b.W, 3 * c.K, n, j) * FrameAt(c, b.x, f + (j % 3) - 1, j \div 3)])
Slack(c, b, n) == [i \in Nat |-> b.peak[i] * b.top[i][n] * c.K * 128]
CloseTo(c, b) ==
  \A f \in 0 .. c.M - 1, n \in Cols(c) :
    LET want == 2 * 127 * 127 * (ConvolvedAt(c, b, f, n) + IF c.bias THEN Bias3(n) ELSE 0)
    IN  AbsOf(b.y[f][n] - want)
          <= SumTo(4, [i \in Nat |-> IF i \in WinoParts(f) THEN Slack(c, b, n)[i] ELSE 0])

WinoFields == {"x", "W", "wg", "top", "peak", "dq", "U"}

WinoAt(c, st, p, b) ==
  /\ WholeFrame(c, b)
  /\ st \in {"loaded", "ready", "loop"} => CodedWeights(c, b)
  /\ st \in {"ready", "loop"} => Scanned(c, b)
  /\ st = "loop" => /\ p \in 0 .. 4 /\ WinoFields \subseteq DOMAIN b /\ DOMAIN b.U = Components
                    /\ CodedFrame(c, b) /\ Multiplied(c, p, b)
  /\ st = "done" => CloseTo(c, b)

\* The shapes of a layer.
LEMMA WinoSizes ==
  ASSUME NEW c, WinoCall(c)
  PROVE  /\ c.M \in Nat /\ c.N \in Nat /\ c.K \in Nat \ {0} /\ c.bias \in BOOLEAN
         /\ c.M % 2 = 0 /\ c.M = 2 * (c.M \div 2) /\ c.M \div 2 \in Nat
         /\ \A n \in Cols(c), k \in 0 .. 3 * c.K - 1 : Weight(c.data, 0, n, k) \in Int
         /\ \A m \in 0 .. c.M - 1, k \in Chans(c) : Code(c.data, 0, m, k) \in Int
<1>1. /\ c.M \in Nat /\ c.N \in Nat /\ c.K \in Nat \ {0} /\ c.bias \in BOOLEAN /\ c.M % 2 = 0
      /\ \A n \in Cols(c), k \in 0 .. 3 * c.K - 1 : Weight(c.data, 0, n, k) \in Int
      /\ \A m \in 0 .. c.M - 1, k \in Chans(c) : Code(c.data, 0, m, k) \in Int
  BY WinoAssumption DEF WinoCall, Cols, Chans
<1>2. \A m \in Nat : m % 2 = 0 => m = 2 * (m \div 2) /\ m \div 2 \in Nat  OBVIOUS
<1> QED  BY <1>1, <1>2

\* The transforms of a frame and the derived weights are whole numbers.
LEMMA WinoWhole ==
  ASSUME NEW c, WinoCall(c), NEW b, WholeFrame(c, b), NEW ch \in Chans(c)
  PROVE  /\ \A p \in Int : FrameAt(c, b.x, p, ch) \in Int
         /\ \A i \in Components, t \in Nat : PartAt(c, b.x, i, t, ch) \in Int
         /\ \A n \in Cols(c) : /\ \A j \in 0 .. 2 : Tap3(c, b.W, n, ch, j) \in Int
                               /\ \A i \in Components : DerivedAt(c, b.W, i, n, ch) \in Int
<1> DEFINE M == c.M
           K == c.K
<1>1. M \in Nat /\ K \in Nat \ {0} /\ ch \in 0 .. K - 1  BY WinoSizes DEF Chans
<1>2. ASSUME NEW p \in Int PROVE FrameAt(c, b.x, p, ch) \in Int
  <2>1. CASE p \in 0 .. M - 1
    <3>1. p * K + ch \in 0 .. M * K - 1
      <4>1. p * K <= (M - 1) * K /\ (M - 1) * K = M * K - K /\ 0 * K <= p * K
        BY <1>1, <2>1, ProductMonotone
      <4>2. p * K \in Int /\ M * K \in Int  BY <1>1
      <4> HIDE DEF M, K
      <4> QED  BY <1>1, <4>1, <4>2
    <3> QED  BY <2>1, <3>1 DEF FrameAt, WholeFrame
  <2> QED  BY <2>1 DEF FrameAt
<1>3. ASSUME NEW i \in Components, NEW t \in Nat PROVE PartAt(c, b.x, i, t, ch) \in Int
  <2>1. 2 * t - 1 \in Int /\ 2 * t \in Int /\ 2 * t + 1 \in Int /\ 2 * t + 2 \in Int  OBVIOUS
  <2>2. /\ FrameAt(c, b.x, 2 * t - 1, ch) \in Int /\ FrameAt(c, b.x, 2 * t, ch) \in Int
        /\ FrameAt(c, b.x, 2 * t + 1, ch) \in Int /\ FrameAt(c, b.x, 2 * t + 2, ch) \in Int
    BY <1>2, <2>1
  <2>3. i = 0 \/ i = 1 \/ i = 2 \/ i = 3  BY DEF Components
  <2> QED  BY <2>2, <2>3 DEF PartAt
<1>4. ASSUME NEW n \in Cols(c), NEW j \in 0 .. 2 PROVE Tap3(c, b.W, n, ch, j) \in Int
  <2>1. 3 * ch + j \in 0 .. 3 * K - 1  BY <1>1
  <2> QED  BY <2>1 DEF Tap3, WholeFrame
<1>5. ASSUME NEW n \in Cols(c), NEW i \in Components PROVE DerivedAt(c, b.W, i, n, ch) \in Int
  <2>1. i = 0 \/ i = 1 \/ i = 2 \/ i = 3  BY DEF Components
  <2>2. /\ Tap3(c, b.W, n, ch, 0) \in Int /\ Tap3(c, b.W, n, ch, 1) \in Int
        /\ Tap3(c, b.W, n, ch, 2) \in Int
    BY <1>4
  <2> QED  BY <2>1, <2>2 DEF DerivedAt, Derived
<1> QED  BY <1>2, <1>3, <1>4, <1>5

\* The load packs the taps.
LEMMA WinoPacks ==
  ASSUME NEW c, WinoCall(c), NEW W, NEW x,
         W = PackW([n \in 0 .. c.N - 1 |-> [k \in 0 .. 3 * c.K - 1 |-> Weight(c.data, 0, n, k)]],
                   c.N, 3 * c.K),
         x = [i \in 0 .. c.M * c.K - 1 |-> Code(c.data, 0, i \div c.K, i % c.K)]
  PROVE  WholeFrame(c, [W |-> W, x |-> x])
<1> DEFINE N == c.N
           L == 3 * c.K
           w == [n \in 0 .. N - 1 |-> [k \in 0 .. L - 1 |-> Weight(c.data, 0, n, k)]]
<1>1. N \in Nat /\ c.K \in Nat \ {0} /\ L \in Nat /\ c.M \in Nat  BY WinoSizes, SMTT(30)
<1>2. ASSUME NEW n \in 0 .. N - 1, NEW j \in 0 .. L - 1 PROVE PackedAt(W, L, n, j) \in Int
  <2> DEFINE top == RowMax(w, N, L)
             a == [k \in Nat |-> AbsOf(w[n][k])]
  <2>1. \A k \in 0 .. L - 1 : w[n][k] \in Int
    <3>1. \A k \in 0 .. L - 1 : w[n][k] = Weight(c.data, 0, n, k)  OBVIOUS
    <3>2. \A k \in 0 .. L - 1 : Weight(c.data, 0, n, k) \in Int  BY WinoSizes DEF Cols
    <3> QED  BY <3>1, <3>2
  <2>2. W = PackW(w, N, L) /\ top[n] = MaxTo(L, a)  BY DEF RowMax
  <2> HIDE DEF w
  <2>3. \A k \in 0 .. L - 1 : a[k] \in Int  BY <1>1, <2>1 DEF AbsOf
  <2> HIDE DEF a
  <2>4. top[n] \in Nat  BY <1>1, <2>2, <2>3, MaxToBounds
  <2>5. n \in 0 .. 8 * NBlocks(N) - 1 /\ j \in 0 .. 4 * K4(L) - 1
    <3> HIDE DEF N, L
    <3> QED  BY <1>1 DEF NBlocks, NR, K4
  <2>6. PackedAt(PackW(w, N, L), L, n, j) = WeightCode(w[n][j], top[n])
    BY <1>1, <2>5, PackedWeights
  <2> HIDE DEF top
  <2>7. WeightCode(w[n][j], top[n]) \in -127 .. 127
    <3>1. w[n][j] \in Int  BY <2>1
    <3> QED  BY <2>4, <3>1, WeightCodeByte
  <2>8. PackedAt(PackW(w, N, L), L, n, j) \in Int  BY <2>6, <2>7
  <2> QED  BY <2>2, <2>8, Zenon
<1>3. ASSUME NEW e \in 0 .. c.M * c.K - 1 PROVE x[e] \in Int
  <2> DEFINE M == c.M
             K == c.K
  <2>1. x[e] = Code(c.data, 0, e \div K, e % K)  OBVIOUS
  <2>2. e \div K \in 0 .. M - 1 /\ e % K \in 0 .. K - 1
    <3>1. M \in Nat /\ K \in Nat \ {0} /\ M * K \in Int /\ e \in 0 .. M * K - 1  BY <1>1
    <3> HIDE DEF M, K
    <3>2. e \in Int /\ K * 0 <= e /\ e < K * M  BY <3>1
    <3>3. e % K \in 0 .. K - 1 /\ e \div K \in Int  BY <3>1, <3>2, DivMod
    <3>4. 0 <= e \div K /\ e \div K < M
      <4>1. 0 \in Int /\ M \in Int  BY <3>1
      <4> QED  BY <3>1, <3>2, <4>1, DivBounds, Zenon
    <3> QED  BY <3>1, <3>3, <3>4
  <2> QED  BY <2>1, <2>2, WinoSizes DEF Chans
<1> QED  BY <1>2, <1>3 DEF WholeFrame, Cols

\* The derivation codes each component by its rows.
LEMMA WinoDerives ==
  ASSUME WinoCall(call), WinoAt(call, stage, pos, mem), WinoDerive
  PROVE  WinoAt(call', stage', pos', mem')
<1> DEFINE tap(n, c, j) == PackedAt(mem.W, 3 * call.K, n, 3 * c + j)
           g(i) == [n \in 0 .. call.N - 1 |-> [c \in 0 .. call.K - 1 |->
                      Derived(i, tap(n, c, 0), tap(n, c, 1), tap(n, c, 2))]]
           b == mem'
<1>1. /\ call' = call /\ stage' = "loaded"
      /\ mem' = [x |-> mem.x, W |-> mem.W,
                 wg  |-> [i \in Components |-> PackW(g(i), call.N, call.K)],
                 top |-> [i \in Components |-> RowMax(g(i), call.N, call.K)]]
  BY DEF WinoDerive, Continues
<1>2. WholeFrame(call, mem)  BY DEF WinoAt
<1>3. \A i, n, c : Derived(i, tap(n, c, 0), tap(n, c, 1), tap(n, c, 2)) = DerivedAt(call, mem.W, i, n, c)
  BY DEF DerivedAt, Tap3
<1>4. \A i : \A n \in Cols(call), c \in Chans(call) : g(i)[n][c] = DerivedAt(call, mem.W, i, n, c)
  BY <1>3 DEF Cols, Chans
<1>5. /\ b.x = mem.x /\ b.W = mem.W
      /\ \A i \in Components : /\ b.wg[i] = PackW(g(i), call.N, call.K)
                               /\ b.top[i] = RowMax(g(i), call.N, call.K)
  BY <1>1
<1> HIDE DEF b, g
<1>6. CodedWeights(call, b)
  <2> SUFFICES ASSUME NEW i \in Components, NEW n \in Cols(call)
               PROVE  /\ b.top[i][n] \in Nat
                      /\ \A c \in Chans(call) : Coded(DerivedAt(call, b.W, i, n, c), b.top[i][n],
                                                      PackedAt(b.wg[i], call.K, n, c))
    BY DEF CodedWeights
  <2> DEFINE w == g(i)
             N == call.N
             K == call.K
  <2>1. N \in Nat /\ K \in Nat \ {0}  BY WinoSizes
  <2>2. \A c \in 0 .. K - 1 : w[n][c] = DerivedAt(call, mem.W, i, n, c) /\ w[n][c] \in Int
    BY <1>2, <1>4, WinoWhole DEF Chans
  <2>3. n \in 0 .. N - 1  BY DEF Cols
  <2>4. b.wg[i] = PackW(w, N, K) /\ b.top[i] = RowMax(w, N, K)  BY <1>5
  <2> HIDE DEF w, N
  <2>5. /\ RowMax(w, N, K)[n] \in Nat
        /\ \A c \in 0 .. K - 1 : Coded(w[n][c], RowMax(w, N, K)[n], PackedAt(PackW(w, N, K), K, n, c))
    BY <2>1, <2>2, <2>3, RowsCoded
  <2> QED  BY <1>5, <2>2, <2>4, <2>5 DEF Chans
<1>7. WholeFrame(call, b)  BY <1>2, <1>5 DEF WholeFrame
<1> QED  BY <1>1, <1>6, <1>7 DEF WinoAt, b

\* The transform of the model is that of the call and its frame.
LEMMA PartOfFrame ==
  ASSUME NEW i \in Components, NEW t, NEW ch
  PROVE  Transformed(i, t, ch) = PartAt(call, mem.x, i, t, ch)
BY DEF Transformed, PartAt, Row, FrameAt, Components

\* The scan of a component: a whole number that no element of the transform exceeds.
LEMMA ScanOfPart ==
  ASSUME NEW i \in Components, NEW m \in Nat, NEW k \in Nat,
         \A t \in 0 .. m - 1, c \in 0 .. k - 1 : Transformed(i, t, c) \in Int
  PROVE  LET mx == MaxTo(m, [t \in Nat |-> MaxTo(k, [c \in Nat |-> AbsOf(Transformed(i, t, c))])])
         IN  mx \in Nat /\ \A t \in 0 .. m - 1, c \in 0 .. k - 1 : Transformed(i, t, c) \in -mx .. mx
<1> DEFINE f(t, c) == Transformed(i, t, c)
           row(t) == [c \in Nat |-> AbsOf(f(t, c))]
           all == [t \in Nat |-> MaxTo(k, row(t))]
           mx == MaxTo(m, all)
<1>1. ASSUME NEW t \in 0 .. m - 1
      PROVE  all[t] \in Nat /\ \A c \in 0 .. k - 1 : AbsOf(f(t, c)) <= all[t]
  <2> DEFINE r == row(t)
  <2>1. \A c \in 0 .. k - 1 : r[c] = AbsOf(f(t, c)) /\ r[c] \in Int  BY DEF AbsOf
  <2>2. all[t] = MaxTo(k, r)  OBVIOUS
  <2> HIDE DEF r, all
  <2>3. MaxTo(k, r) \in Nat /\ \A c \in 0 .. k - 1 : r[c] <= MaxTo(k, r)  BY <2>1, MaxToBounds
  <2> QED  BY <2>1, <2>2, <2>3
<1> HIDE DEF all
<1>2. mx \in Nat /\ \A t \in 0 .. m - 1 : all[t] <= mx
  <2>1. \A t \in 0 .. m - 1 : all[t] \in Int  BY <1>1
  <2> QED  BY <2>1, MaxToBounds
<1> HIDE DEF mx
<1>3. ASSUME NEW t \in 0 .. m - 1, NEW c \in 0 .. k - 1 PROVE f(t, c) \in -mx .. mx
  <2>1. all[t] \in Nat /\ AbsOf(f(t, c)) <= all[t] /\ all[t] <= mx /\ f(t, c) \in Int  BY <1>1, <1>2
  <2> QED  BY <1>2, <2>1 DEF AbsOf
<1> QED  BY <1>2, <1>3 DEF mx, all

\* The scan leaves peaks that nothing exceeds.
LEMMA WinoScans ==
  ASSUME WinoCall(call), WinoAt(call, stage, pos, mem), WinoScan
  PROVE  WinoAt(call', stage', pos', mem')
<1> DEFINE mx(i) == MaxTo(NTiles, [t \in Nat |-> MaxTo(call.K, [c \in Nat |-> AbsOf(Transformed(i, t, c))])])
           peaks == [i \in Components |-> mx(i)]
           b == mem'
<1>1. /\ call' = call /\ stage' = "ready" /\ stage = "loaded"
      /\ mem' = [x |-> mem.x, W |-> mem.W, wg |-> mem.wg, top |-> mem.top,
                 peak |-> [i \in Components |-> IF peaks[i] = 0 THEN 1 ELSE peaks[i]]]
  BY DEF WinoScan, Continues
<1>2. WholeFrame(call, mem) /\ CodedWeights(call, mem)  BY <1>1 DEF WinoAt
<1>3. /\ b.x = mem.x /\ b.W = mem.W /\ b.wg = mem.wg /\ b.top = mem.top
      /\ \A i \in Components : b.peak[i] = IF mx(i) = 0 THEN 1 ELSE mx(i)
  BY <1>1
<1> HIDE DEF b
<1>4. ASSUME NEW i \in Components
      PROVE  /\ b.peak[i] \in Nat \ {0}
             /\ \A t \in Tiles(call), ch \in Chans(call) :
                  PartAt(call, b.x, i, t, ch) \in -b.peak[i] .. b.peak[i]
  <2> DEFINE p == mx(i)
  <2>1. NTiles \in Nat /\ call.K \in Nat  BY WinoSizes DEF NTiles
  <2>2. \A t, ch : Transformed(i, t, ch) = PartAt(call, mem.x, i, t, ch)  BY PartOfFrame
  <2>3. \A t \in 0 .. NTiles - 1, ch \in 0 .. call.K - 1 : Transformed(i, t, ch) \in Int
    <3>1. \A t \in 0 .. NTiles - 1 : t \in Nat  OBVIOUS
    <3> QED  BY <1>2, <2>2, <3>1, WinoWhole DEF Chans
  <2>4. p \in Nat /\ \A t \in 0 .. NTiles - 1, ch \in 0 .. call.K - 1 : Transformed(i, t, ch) \in -p .. p
    BY <2>1, <2>3, ScanOfPart
  <2>5. b.peak[i] = IF p = 0 THEN 1 ELSE p  BY <1>3
  <2> HIDE DEF p
  <2>6. b.peak[i] \in Nat \ {0} /\ p <= b.peak[i]  BY <2>4, <2>5
  <2>7. ASSUME NEW t \in Tiles(call), NEW ch \in Chans(call)
        PROVE  PartAt(call, b.x, i, t, ch) \in -b.peak[i] .. b.peak[i]
    <3>1. Transformed(i, t, ch) \in -p .. p  BY <2>4 DEF Tiles, Chans, NTiles
    <3>2. PartAt(call, b.x, i, t, ch) \in -p .. p  BY <1>3, <2>2, <3>1
    <3> QED  BY <2>4, <2>6, <3>2
  <2> QED  BY <2>6, <2>7
<1>5. Scanned(call, b)  BY <1>4 DEF Scanned
<1>6. WholeFrame(call, b) /\ CodedWeights(call, b)  BY <1>2, <1>3 DEF WholeFrame, CodedWeights
<1> QED  BY <1>1, <1>5, <1>6 DEF WinoAt, b

\* The transform codes the frame.
LEMMA WinoTransforms ==
  ASSUME WinoCall(call), WinoAt(call, stage, pos, mem), WinoTransform
  PROVE  WinoAt(call', stage', pos', mem')
<1> DEFINE code(i, t, c) ==
             LET d == Transformed(i, t, c) * 127
             IN  Clamp(-127, 127, IF c < (call.K \div 4) * 4 THEN RoundEven(d, mem.peak[i])
                                  ELSE RoundAway(d, mem.peak[i]))
           b == mem'
<1>1. /\ call' = call /\ stage' = "loop" /\ stage = "ready" /\ pos' = 0
      /\ mem' = [x |-> mem.x, W |-> mem.W, wg |-> mem.wg, top |-> mem.top, peak |-> mem.peak,
                 dq |-> [i \in Components |-> [j \in 0 .. NTiles * call.K - 1 |->
                           code(i, j \div call.K, j % call.K)]],
                 U  |-> [i \in Components |-> <<>>]]
  BY DEF WinoTransform, Continues
<1>2. WholeFrame(call, mem) /\ CodedWeights(call, mem) /\ Scanned(call, mem)  BY <1>1 DEF WinoAt
<1>3. /\ b.x = mem.x /\ b.W = mem.W /\ b.wg = mem.wg /\ b.top = mem.top /\ b.peak = mem.peak
      /\ \A i \in Components : \A j \in 0 .. NTiles * call.K - 1 :
           b.dq[i][j] = code(i, j \div call.K, j % call.K)
      /\ DOMAIN b.U = Components /\ WinoFields \subseteq DOMAIN b
  BY <1>1 DEF WinoFields
<1> HIDE DEF b
<1>4. ASSUME NEW i \in Components, NEW t \in Tiles(call), NEW ch \in Chans(call)
      PROVE  Coded(PartAt(call, b.x, i, t, ch), b.peak[i], b.dq[i][t * call.K + ch])
  <2> DEFINE K == call.K
             j == t * K + ch
             v == PartAt(call, mem.x, i, t, ch)
             even == ch < (K \div 4) * 4
             peak == mem.peak[i]
  <2>1. NTiles \in Nat /\ K \in Nat \ {0} /\ t \in 0 .. NTiles - 1 /\ ch \in 0 .. K - 1
    BY WinoSizes DEF NTiles, Tiles, Chans
  <2>2. j \in 0 .. NTiles * K - 1 /\ j \div K = t /\ j % K = ch
    <3> HIDE DEF K
    <3>1. t * K <= (NTiles - 1) * K /\ (NTiles - 1) * K = NTiles * K - K /\ 0 * K <= t * K
      BY <2>1, ProductMonotone
    <3>2. t * K \in Int /\ NTiles * K \in Int /\ t * K = K * t  BY <2>1
    <3>3. j \in 0 .. NTiles * K - 1  BY <2>1, <3>1, <3>2
    <3>4. (K * t + ch) \div K = t /\ (K * t + ch) % K = ch  BY <2>1, DivModUnique
    <3> QED  BY <3>2, <3>3, <3>4
  <2>3. Transformed(i, t, ch) = v  BY PartOfFrame
  <2>4. b.dq[i][j] = Clamp(-127, 127, IF even THEN RoundEven(v * 127, peak) ELSE RoundAway(v * 127, peak))
    BY <1>3, <2>2, <2>3
  <2>5. peak \in Nat \ {0} /\ v \in -peak .. peak  BY <1>2 DEF Scanned
  <2>6. even \in BOOLEAN /\ b.x = mem.x /\ b.peak[i] = peak  BY <1>3
  <2> HIDE DEF even, v, peak
  <2>7. v \in Int  BY <2>5
  <2>8. Coded(v, peak, b.dq[i][j])  BY <2>4, <2>5, <2>6, <2>7, RoundedCode
  <2> QED  BY <2>6, <2>8 DEF v
<1>5. CodedFrame(call, b)  BY <1>4 DEF CodedFrame
<1>6. WholeFrame(call, b) /\ CodedWeights(call, b) /\ Scanned(call, b)
  BY <1>2, <1>3 DEF WholeFrame, CodedWeights, Scanned
<1>7. Multiplied(call, 0, b)  BY DEF Multiplied, Components
<1> QED  BY <1>1, <1>3, <1>5, <1>6, <1>7 DEF WinoAt, b

\* A product for each component.
LEMMA WinoMultiplies ==
  ASSUME WinoCall(call), WinoAt(call, stage, pos, mem), WinoGemm
  PROVE  WinoAt(call', stage', pos', mem')
<1> DEFINE u == [t \in 0 .. NTiles - 1 |-> [n \in 0 .. call.N - 1 |->
                   SumTo(call.K, [k \in Nat |-> mem.dq[pos][t * call.K + k]
                                                * PackedAt(mem.wg[pos], call.K, n, k)])]]
           b == mem'
<1>1. /\ call' = call /\ stage' = "loop" /\ stage = "loop" /\ pos \in Components /\ pos' = pos + 1
      /\ mem' = [mem EXCEPT !.U[pos] = u]
  BY DEF WinoGemm, Continues
<1>2. /\ WholeFrame(call, mem) /\ CodedWeights(call, mem) /\ Scanned(call, mem)
      /\ WinoFields \subseteq DOMAIN mem /\ DOMAIN mem.U = Components
      /\ CodedFrame(call, mem) /\ Multiplied(call, pos, mem)
  BY <1>1 DEF WinoAt
<1>3. /\ b.x = mem.x /\ b.W = mem.W /\ b.wg = mem.wg /\ b.top = mem.top /\ b.peak = mem.peak
      /\ b.dq = mem.dq /\ DOMAIN b = DOMAIN mem /\ DOMAIN b.U = Components
      /\ \A i \in Components : b.U[i] = IF i = pos THEN u ELSE mem.U[i]
  BY <1>1, <1>2 DEF WinoFields
<1>4. \A t \in Tiles(call), n \in Cols(call) : u[t][n] = ProductAt(call, mem, pos, t, n)
  BY DEF ProductAt, Tiles, Cols, NTiles
<1> HIDE DEF b, u
<1>5. \A i, t, n : ProductAt(call, b, i, t, n) = ProductAt(call, mem, i, t, n)
  BY <1>3 DEF ProductAt
<1>6. Multiplied(call, pos + 1, b)
  <2> SUFFICES ASSUME NEW i \in Components, i < pos + 1, NEW t \in Tiles(call), NEW n \in Cols(call)
               PROVE  b.U[i][t][n] = ProductAt(call, b, i, t, n)
    BY DEF Multiplied
  <2>1. CASE i = pos  BY <1>3, <1>4, <1>5, <2>1
  <2>2. CASE i # pos
    <3>1. i < pos  BY <1>1, <2>2 DEF Components
    <3>2. b.U[i] = mem.U[i]  BY <1>3, <2>2
    <3> QED  BY <1>2, <1>5, <3>1, <3>2 DEF Multiplied
  <2> QED  BY <2>1, <2>2
<1>7. /\ WholeFrame(call, b) /\ CodedWeights(call, b) /\ Scanned(call, b) /\ CodedFrame(call, b)
  BY <1>2, <1>3 DEF WholeFrame, CodedWeights, Scanned, CodedFrame
<1>8. pos + 1 \in 0 .. 4  BY <1>1 DEF Components
<1> QED  BY <1>1, <1>2, <1>3, <1>6, <1>7, <1>8 DEF WinoAt, b

\* What a component's product stands for.
DotAt(c, b, i, t, n) ==
  SumTo(c.K, [k \in Nat |-> PartAt(c, b.x, i, t, k) * DerivedAt(c, b.W, i, n, k)])

\* The product of the codes, dequantised, is within the slack of it.
LEMMA ComponentClose ==
  ASSUME NEW c, WinoCall(c), NEW b, WholeFrame(c, b), CodedWeights(c, b), Scanned(c, b),
         CodedFrame(c, b), NEW i \in Components, NEW t \in Tiles(c), NEW n \in Cols(c)
  PROVE  LET s == Slack(c, b, n)[i]
             d == DotAt(c, b, i, t, n)
             e == b.peak[i] * b.top[i][n] * ProductAt(c, b, i, t, n)
         IN  s \in Nat /\ d \in Int /\ e \in Int /\ 127 * 127 * d - e \in -s .. s
<1> DEFINE K == c.K
           P == b.peak[i]
           T == b.top[i][n]
           PT == P * T
           v == [k \in Nat |-> PartAt(c, b.x, i, t, k) * DerivedAt(c, b.W, i, n, k)]
           u == [k \in Nat |-> b.dq[i][t * K + k] * PackedAt(b.wg[i], K, n, k)]
           w == [k \in Nat |-> 127 * 127 * v[k] - PT * u[k]]
<1>1. K \in Nat \ {0} /\ i \in Nat  BY WinoSizes DEF Components
<1>2. P \in Nat /\ T \in Nat  BY DEF Scanned, CodedWeights
<1>3. DotAt(c, b, i, t, n) = SumTo(K, v) /\ ProductAt(c, b, i, t, n) = SumTo(K, u)
  BY DEF DotAt, ProductAt
<1>4. ASSUME NEW k \in 0 .. K - 1
      PROVE  /\ v[k] \in Int /\ u[k] \in Int /\ PT \in Nat
             /\ 127 * 127 * v[k] - PT * u[k] \in -(127 * PT) .. 127 * PT
  <2> DEFINE d == PartAt(c, b.x, i, t, k)
             g == DerivedAt(c, b.W, i, n, k)
             x == b.dq[i][t * K + k]
             y == PackedAt(b.wg[i], K, n, k)
  <2>1. Coded(d, P, x) /\ Coded(g, T, y)  BY DEF CodedFrame, CodedWeights, Chans
  <2>2. v[k] = d * g /\ u[k] = x * y  OBVIOUS
  <2> HIDE DEF P, T, d, g, x, y, v, u
  <2> QED  BY <1>2, <2>1, <2>2, ProductClose
<1>5. PT \in Nat
  <2> HIDE DEF P, T
  <2> QED  BY <1>2
<1>6. \A k \in 0 .. K - 1 : w[k] = 127 * 127 * v[k] - PT * u[k]
  <2> HIDE DEF v, u, PT
  <2> QED  OBVIOUS
<1> HIDE DEF v, u, w, PT
<1>7. \A k \in 0 .. K - 1 : w[k] \in -(127 * PT) .. 127 * PT  BY <1>4, <1>6
<1>8. SumTo(K, w) \in Int /\ K * (-(127 * PT)) <= SumTo(K, w) /\ SumTo(K, w) <= K * (127 * PT)
  <2>1. K \in Nat /\ -(127 * PT) \in Int /\ 127 * PT \in Int  BY <1>1, <1>5
  <2> QED  BY <1>7, <2>1, SumToBounds
<1>9. /\ SumTo(K, v) \in Int /\ SumTo(K, u) \in Int
      /\ SumTo(K, w) = 127 * 127 * SumTo(K, v) - PT * SumTo(K, u)
  <2> DEFINE a == 127 * 127
             e == -PT
  <2>0. K \in Nat /\ a \in Int /\ e \in Int /\ -1 \in Int /\ 0 \in Int  BY <1>1, <1>5
  <2>1. \A k \in 0 .. K - 1 : v[k] \in Int /\ u[k] \in Int /\ w[k] \in Int
    BY <1>4, <1>7, <1>5
  <2>2. ASSUME NEW k \in 0 .. K - 1 PROVE a * v[k] + e * u[k] + (-1) * w[k] + 0 * w[k] = 0
    <3>1. v[k] \in Int /\ u[k] \in Int /\ w[k] \in Int  BY <2>1
    <3>2. e * u[k] = -(PT * u[k]) /\ PT * u[k] \in Int  BY <1>5, <3>1
    <3>3. w[k] = a * v[k] - PT * u[k]  BY <1>6
    <3> HIDE DEF e
    <3> QED  BY <3>1, <3>2, <3>3
  <2> HIDE DEF a, e
  <2>3. Related(v, u, w, w, a, e, -1, 0, K)  BY <2>1, <2>2 DEF Related
  <2>5. /\ SumTo(K, v) \in Int /\ SumTo(K, u) \in Int /\ SumTo(K, w) \in Int
        /\ a * SumTo(K, v) + e * SumTo(K, u) + (-1) * SumTo(K, w) + 0 * SumTo(K, w) = 0
    BY <2>0, <2>3, SumToRelation
  <2> DEFINE V == SumTo(K, v)
             U == SumTo(K, u)
             W == SumTo(K, w)
  <2>6. V \in Int /\ U \in Int /\ W \in Int  BY <2>5
  <2>7. a * V + e * U + (-1) * W + 0 * W = 0  BY <2>5
  <2> HIDE DEF V, U, W
  <2>8. e * U = -(PT * U) /\ PT * U \in Int  BY <1>5, <2>6 DEF e
  <2>9. W = 127 * 127 * V - PT * U  BY <2>6, <2>7, <2>8 DEF a
  <2> QED  BY <2>6, <2>9 DEF V, U, W
<1>10. Slack(c, b, n)[i] = PT * K * 128  BY <1>1 DEF Slack, PT
<1>11. PT * K * 128 \in Nat /\ K * (127 * PT) <= PT * K * 128
  <2> DEFINE s == PT * K
  <2>1. s \in Nat  BY <1>1, <1>5
  <2>2. K * (127 * PT) = 127 * s  BY <1>1, <1>5
  <2> HIDE DEF s
  <2> QED  BY <2>1, <2>2 DEF s
<1>12. K * (-(127 * PT)) = -(K * (127 * PT)) /\ K * (127 * PT) \in Int  BY <1>1, <1>5
<1>13. b.peak[i] * b.top[i][n] * ProductAt(c, b, i, t, n) = PT * SumTo(K, u) /\ PT * SumTo(K, u) \in Int
  BY <1>3, <1>5, <1>9 DEF PT
<1> HIDE DEF K
<1> QED  BY <1>3, <1>8, <1>9, <1>10, <1>11, <1>12, <1>13

\* A^T on a tile of one channel: twice what its three taps make of a row.
LEMMA TileRows3 ==
  ASSUME NEW c, WinoCall(c), NEW b, WholeFrame(c, b), NEW t \in Nat, NEW n \in Cols(c), NEW ch \in Chans(c)
  PROVE  LET p(i) == PartAt(c, b.x, i, t, ch) * DerivedAt(c, b.W, i, n, ch)
             taps(f) == Tap3(c, b.W, n, ch, 0) * FrameAt(c, b.x, f - 1, ch)
                        + Tap3(c, b.W, n, ch, 1) * FrameAt(c, b.x, f, ch)
                        + Tap3(c, b.W, n, ch, 2) * FrameAt(c, b.x, f + 1, ch)
         IN  /\ \A i \in Components : p(i) \in Int
             /\ taps(2 * t) \in Int /\ taps(2 * t + 1) \in Int
             /\ p(0) + p(1) + p(2) = 2 * taps(2 * t)
             /\ p(1) - p(2) - p(3) = 2 * taps(2 * t + 1)
<1> DEFINE r0 == FrameAt(c, b.x, 2 * t - 1, ch)
           r1 == FrameAt(c, b.x, 2 * t, ch)
           r2 == FrameAt(c, b.x, 2 * t + 1, ch)
           r3 == FrameAt(c, b.x, 2 * t + 2, ch)
           w0 == Tap3(c, b.W, n, ch, 0)
           w1 == Tap3(c, b.W, n, ch, 1)
           w2 == Tap3(c, b.W, n, ch, 2)
           p(i) == PartAt(c, b.x, i, t, ch) * DerivedAt(c, b.W, i, n, ch)
           taps(f) == Tap3(c, b.W, n, ch, 0) * FrameAt(c, b.x, f - 1, ch)
                        + Tap3(c, b.W, n, ch, 1) * FrameAt(c, b.x, f, ch)
                        + Tap3(c, b.W, n, ch, 2) * FrameAt(c, b.x, f + 1, ch)
<1>1. r0 \in Int /\ r1 \in Int /\ r2 \in Int /\ r3 \in Int
  <2>1. 2 * t - 1 \in Int /\ 2 * t \in Int /\ 2 * t + 1 \in Int /\ 2 * t + 2 \in Int  OBVIOUS
  <2> QED  BY <2>1, WinoWhole
<1>2. w0 \in Int /\ w1 \in Int /\ w2 \in Int  BY WinoWhole
<1>3. /\ p(0) = (r0 - r2) * (2 * w0) /\ p(1) = (r1 + r2) * (w0 + w1 + w2)
      /\ p(2) = (r2 - r1) * (w0 - w1 + w2) /\ p(3) = (r1 - r3) * (2 * w2)
  BY DEF PartAt, DerivedAt, Derived
<1>4. taps(2 * t) = w0 * r0 + w1 * r1 + w2 * r2 /\ taps(2 * t + 1) = w0 * r1 + w1 * r2 + w2 * r3
  <2>1. (2 * t + 1) - 1 = 2 * t /\ (2 * t + 1) + 1 = 2 * t + 2  OBVIOUS
  <2> QED  BY <2>1
<1>5. \A i \in Components : i = 0 \/ i = 1 \/ i = 2 \/ i = 3  BY DEF Components
<1> HIDE DEF p, taps, r0, r1, r2, r3, w0, w1, w2
<1>6. p(0) \in Int /\ p(1) \in Int /\ p(2) \in Int /\ p(3) \in Int  BY <1>1, <1>2, <1>3
<1>7. taps(2 * t) \in Int /\ taps(2 * t + 1) \in Int  BY <1>1, <1>2, <1>4
<1>8. p(0) + p(1) + p(2) = 2 * taps(2 * t)  BY <1>1, <1>2, <1>3, <1>4
<1>9. p(1) - p(2) - p(3) = 2 * taps(2 * t + 1)  BY <1>1, <1>2, <1>3, <1>4
<1>10. \A i \in Components : p(i) \in Int  BY <1>5, <1>6
<1> QED  BY <1>7, <1>8, <1>9, <1>10 DEF p, taps

\* A convolved row, channel by channel.
LEMMA ConvolvedByChannel ==
  ASSUME NEW c, WinoCall(c), NEW b, WholeFrame(c, b), NEW f \in Nat, NEW n \in Cols(c)
  PROVE  ConvolvedAt(c, b, f, n) =
           SumTo(c.K, [ch \in Nat |-> Tap3(c, b.W, n, ch, 0) * FrameAt(c, b.x, f - 1, ch)
                                      + Tap3(c, b.W, n, ch, 1) * FrameAt(c, b.x, f, ch)
                                      + Tap3(c, b.W, n, ch, 2) * FrameAt(c, b.x, f + 1, ch)])
<1> DEFINE K == c.K
           F(p, ch) == FrameAt(c, b.x, p, ch)
           t == [j \in Nat |-> PackedAt(b.W, 3 * K, n, j) * F(f + (j % 3) - 1, j \div 3)]
           u == [ch \in Nat |-> t[3 * ch] + t[3 * ch + 1] + t[3 * ch + 2]]
           w == [ch \in Nat |-> Tap3(c, b.W, n, ch, 0) * F(f - 1, ch)
                                + Tap3(c, b.W, n, ch, 1) * F(f, ch)
                                + Tap3(c, b.W, n, ch, 2) * F(f + 1, ch)]
<1>1. K \in Nat  BY WinoSizes
<1>2. ASSUME NEW ch \in 0 .. K - 1, NEW j \in 0 .. 2
      PROVE  /\ t[3 * ch + j] = Tap3(c, b.W, n, ch, j) * F(f + j - 1, ch)
             /\ t[3 * ch + j] \in Int
  <2>1. 3 * ch + j \in Nat /\ (3 * ch + j) % 3 = j /\ (3 * ch + j) \div 3 = ch /\ f + j - 1 \in Int
    OBVIOUS
  <2>2. t[3 * ch + j] = Tap3(c, b.W, n, ch, j) * F(f + j - 1, ch)  BY <2>1 DEF Tap3
  <2>3. Tap3(c, b.W, n, ch, j) \in Int /\ F(f + j - 1, ch) \in Int  BY <2>1, WinoWhole DEF Chans
  <2> HIDE DEF t, F
  <2> QED  BY <2>2, <2>3
<1>3. ASSUME NEW ch \in 0 .. K - 1 PROVE u[ch] = w[ch]
  <2>1. ch \in Nat /\ 3 * ch + 0 = 3 * ch /\ f + 0 - 1 = f - 1 /\ f + 1 - 1 = f /\ f + 2 - 1 = f + 1
    OBVIOUS
  <2>2. /\ t[3 * ch + 0] = Tap3(c, b.W, n, ch, 0) * F(f + 0 - 1, ch)
        /\ t[3 * ch + 1] = Tap3(c, b.W, n, ch, 1) * F(f + 1 - 1, ch)
        /\ t[3 * ch + 2] = Tap3(c, b.W, n, ch, 2) * F(f + 2 - 1, ch)
    BY <1>2
  <2>3. u[ch] = t[3 * ch] + t[3 * ch + 1] + t[3 * ch + 2]  BY <2>1
  <2> HIDE DEF t, F, u
  <2> QED  BY <2>1, <2>2, <2>3
<1>4. \A j \in 0 .. 3 * K - 1 : t[j] \in Int
  <2> SUFFICES ASSUME NEW j \in 0 .. 3 * K - 1 PROVE t[j] \in Int  OBVIOUS
  <2> HIDE DEF K, t
  <2>1. j \div 3 \in 0 .. K - 1 /\ j % 3 \in 0 .. 2 /\ 3 * (j \div 3) + (j % 3) = j  BY <1>1
  <2>2. t[3 * (j \div 3) + (j % 3)] \in Int  BY <1>2, <2>1
  <2> QED  BY <2>1, <2>2
<1>5. ConvolvedAt(c, b, f, n) = SumTo(3 * K, t)  BY DEF ConvolvedAt
<1> HIDE DEF t
<1>6. SumTo(3 * K, t) = SumTo(K, u)  BY <1>1, <1>4, SumToTriples
<1> HIDE DEF u, w
<1>7. SumTo(K, u) = SumTo(K, w)  BY <1>1, <1>3, SumToSame
<1> QED  BY <1>5, <1>6, <1>7 DEF w

\* A^T on the components of a tile: twice the convolution of its rows.
LEMMA ComponentsAddUp ==
  ASSUME NEW c, WinoCall(c), NEW b, WholeFrame(c, b), NEW t \in Tiles(c), NEW n \in Cols(c)
  PROVE  LET d(i) == DotAt(c, b, i, t, n)
         IN  /\ ConvolvedAt(c, b, 2 * t, n) \in Int /\ ConvolvedAt(c, b, 2 * t + 1, n) \in Int
             /\ d(0) + d(1) + d(2) = 2 * ConvolvedAt(c, b, 2 * t, n)
             /\ d(1) - d(2) - d(3) = 2 * ConvolvedAt(c, b, 2 * t + 1, n)
<1> DEFINE K == c.K
           p(i) == [ch \in Nat |-> PartAt(c, b.x, i, t, ch) * DerivedAt(c, b.W, i, n, ch)]
           w(f) == [ch \in Nat |-> Tap3(c, b.W, n, ch, 0) * FrameAt(c, b.x, f - 1, ch)
                                   + Tap3(c, b.W, n, ch, 1) * FrameAt(c, b.x, f, ch)
                                   + Tap3(c, b.W, n, ch, 2) * FrameAt(c, b.x, f + 1, ch)]
           p0 == p(0)
           p1 == p(1)
           p2 == p(2)
           p3 == p(3)
           even == w(2 * t)
           odd == w(2 * t + 1)
<1>1. K \in Nat /\ t \in Nat  BY WinoSizes DEF Tiles
<1>2. /\ DotAt(c, b, 0, t, n) = SumTo(K, p0) /\ DotAt(c, b, 1, t, n) = SumTo(K, p1)
      /\ DotAt(c, b, 2, t, n) = SumTo(K, p2) /\ DotAt(c, b, 3, t, n) = SumTo(K, p3)
  BY DEF DotAt
<1>3. ConvolvedAt(c, b, 2 * t, n) = SumTo(K, even) /\ ConvolvedAt(c, b, 2 * t + 1, n) = SumTo(K, odd)
  <2>1. 2 * t \in Nat /\ 2 * t + 1 \in Nat  BY <1>1
  <2> QED  BY <2>1, ConvolvedByChannel
<1>4. ASSUME NEW ch \in 0 .. K - 1
      PROVE  /\ p0[ch] \in Int /\ p1[ch] \in Int /\ p2[ch] \in Int /\ p3[ch] \in Int
             /\ even[ch] \in Int /\ odd[ch] \in Int
             /\ p0[ch] + p1[ch] + p2[ch] = 2 * even[ch]
             /\ p1[ch] - p2[ch] - p3[ch] = 2 * odd[ch]
  BY <1>1, TileRows3 DEF Chans, Components
<1> HIDE DEF p0, p1, p2, p3, even, odd, K
<1>5. /\ SumTo(K, p0) \in Int /\ SumTo(K, p1) \in Int /\ SumTo(K, p2) \in Int /\ SumTo(K, even) \in Int
      /\ 1 * SumTo(K, p0) + 1 * SumTo(K, p1) + 1 * SumTo(K, p2) + (-2) * SumTo(K, even) = 0
  <2>1. Related(p0, p1, p2, even, 1, 1, 1, -2, K)  BY <1>4 DEF Related
  <2>2. 1 \in Int /\ -2 \in Int  OBVIOUS
  <2> QED  BY <1>1, <2>1, <2>2, SumToRelation
<1>6. /\ SumTo(K, p3) \in Int /\ SumTo(K, odd) \in Int
      /\ 1 * SumTo(K, p1) + (-1) * SumTo(K, p2) + (-1) * SumTo(K, p3) + (-2) * SumTo(K, odd) = 0
  <2>1. Related(p1, p2, p3, odd, 1, -1, -1, -2, K)  BY <1>4 DEF Related
  <2>2. 1 \in Int /\ -1 \in Int /\ -2 \in Int  OBVIOUS
  <2> QED  BY <1>1, <2>1, <2>2, SumToRelation
<1> DEFINE d0 == SumTo(K, p0)
           d1 == SumTo(K, p1)
           d2 == SumTo(K, p2)
           d3 == SumTo(K, p3)
           y0 == SumTo(K, even)
           y1 == SumTo(K, odd)
<1>7. /\ d0 \in Int /\ d1 \in Int /\ d2 \in Int /\ d3 \in Int /\ y0 \in Int /\ y1 \in Int
      /\ 1 * d0 + 1 * d1 + 1 * d2 + (-2) * y0 = 0
      /\ 1 * d1 + (-1) * d2 + (-1) * d3 + (-2) * y1 = 0
  BY <1>5, <1>6
<1> HIDE DEF d0, d1, d2, d3, y0, y1
<1>8. d0 + d1 + d2 = 2 * y0 /\ d1 - d2 - d3 = 2 * y1  BY <1>7
<1> QED  BY <1>2, <1>3, <1>7, <1>8 DEF d0, d1, d2, d3, y0, y1

\* The slack of a row: that of the components it is made of.
LEMMA RowSlack ==
  ASSUME NEW f \in Nat, NEW s, \A i \in Components : s[i] \in Nat
  PROVE  SumTo(4, [i \in Nat |-> IF i \in WinoParts(f) THEN s[i] ELSE 0])
           = IF f % 2 = 0 THEN s[0] + s[1] + s[2] ELSE s[1] + s[2] + s[3]
<1> DEFINE t == [i \in Nat |-> IF i \in WinoParts(f) THEN s[i] ELSE 0]
<1>1. /\ t[0] = IF 0 \in WinoParts(f) THEN s[0] ELSE 0
      /\ t[1] = IF 1 \in WinoParts(f) THEN s[1] ELSE 0
      /\ t[2] = IF 2 \in WinoParts(f) THEN s[2] ELSE 0
      /\ t[3] = IF 3 \in WinoParts(f) THEN s[3] ELSE 0
  OBVIOUS
<1>2. s[0] \in Nat /\ s[1] \in Nat /\ s[2] \in Nat /\ s[3] \in Nat  BY DEF Components
<1> HIDE DEF t
<1>3. SumTo(4, t) = 0 + t[0] + t[1] + t[2] + t[3]
  <2>1. SumTo(0, t) = 0 /\ SumTo(0 + 4, t) = SumTo(0, t) + t[0] + t[0 + 1] + t[0 + 2] + t[0 + 3]
    BY SumToStep, SumToFour
  <2> QED  BY <2>1
<1>4. CASE f % 2 = 0
  <2>1. t[0] = s[0] /\ t[1] = s[1] /\ t[2] = s[2] /\ t[3] = 0  BY <1>1, <1>4 DEF WinoParts
  <2> QED  BY <1>2, <1>3, <1>4, <2>1 DEF t
<1>5. CASE f % 2 # 0
  <2>2. WinoParts(f) = {1, 2, 3}  BY <1>5 DEF WinoParts
  <2>1. t[0] = 0 /\ t[1] = s[1] /\ t[2] = s[2] /\ t[3] = s[3]  BY <1>1, <2>2
  <2> QED  BY <1>2, <1>3, <1>5, <2>1 DEF t
<1> QED  BY <1>4, <1>5

\* What the epilogue writes is close to the convolution.
LEMMA WinoCombines ==
  ASSUME WinoCall(call), WinoAt(call, stage, pos, mem), WinoEpilogue
  PROVE  WinoAt(call', stage', pos', mem')
<1> DEFINE u(i, t, n) == mem.peak[i] * mem.top[i][n] * mem.U[i][t][n]
           b(n) == IF call.bias THEN 2 * 127 * 127 * Bias3(n) ELSE 0
           y == [f \in 0 .. 2 * NTiles - 1 |-> [n \in 0 .. call.N - 1 |->
                  LET t == f \div 2
                  IN  IF (f % 2) = 0 THEN u(0, t, n) + u(1, t, n) + u(2, t, n) + b(n)
                      ELSE u(1, t, n) - u(2, t, n) - u(3, t, n) + b(n)]]
           m == mem'
<1>1. /\ call' = call /\ stage = "loop" /\ pos = 4 /\ stage' \in {"aborted", "done"}
      /\ mem' = [x |-> mem.x, W |-> mem.W, peak |-> mem.peak, top |-> mem.top, y |-> y]
  BY DEF WinoEpilogue, Continues
<1>2. /\ WholeFrame(call, mem) /\ CodedWeights(call, mem) /\ Scanned(call, mem)
      /\ CodedFrame(call, mem) /\ Multiplied(call, 4, mem)
  BY <1>1 DEF WinoAt
<1>3. m.x = mem.x /\ m.W = mem.W /\ m.peak = mem.peak /\ m.top = mem.top /\ m.y = y
  BY <1>1
<1>4. WholeFrame(call, m)  BY <1>2, <1>3 DEF WholeFrame
<1>5. ASSUME NEW f \in 0 .. call.M - 1, NEW n \in Cols(call)
      PROVE  LET want == 2 * 127 * 127 * (ConvolvedAt(call, m, f, n) + IF call.bias THEN Bias3(n) ELSE 0)
             IN  AbsOf(m.y[f][n] - want)
                   <= SumTo(4, [i \in Nat |-> IF i \in WinoParts(f) THEN Slack(call, m, n)[i] ELSE 0])
  <2> DEFINE t == f \div 2
             s == Slack(call, mem, n)
             conv == ConvolvedAt(call, mem, f, n)
             bias == IF call.bias THEN Bias3(n) ELSE 0
             d(i) == DotAt(call, mem, i, t, n)
             e(i) == u(i, t, n)
  <2>1. f \in Nat /\ t \in Tiles(call) /\ f \in 0 .. 2 * NTiles - 1 /\ n \in 0 .. call.N - 1
        /\ (f % 2 = 0 => f = 2 * t) /\ (f % 2 # 0 => f = 2 * t + 1) /\ call.bias \in BOOLEAN /\ n \in Int
    <3>1. call.M \in Nat /\ call.M = 2 * (call.M \div 2) /\ call.N \in Nat /\ call.bias \in BOOLEAN
      BY WinoSizes
    <3>2. call.M \div 2 \in Nat  BY <3>1
    <3> QED  BY <3>1, <3>2 DEF Tiles, NTiles, Cols
  <2>2. bias \in Int /\ b(n) = 2 * 127 * 127 * bias  BY <2>1 DEF Bias3
  <2>3. ASSUME NEW i \in Components
        PROVE  s[i] \in Nat /\ d(i) \in Int /\ e(i) \in Int /\ 127 * 127 * d(i) - e(i) \in -s[i] .. s[i]
    <3>1. i < 4  BY DEF Components
    <3>2. mem.U[i][t][n] = ProductAt(call, mem, i, t, n)  BY <1>2, <2>1, <3>1 DEF Multiplied
    <3> QED  BY <1>2, <2>1, <3>2, ComponentClose
  <2>4. /\ s[0] \in Nat /\ d(0) \in Int /\ e(0) \in Int /\ 127 * 127 * d(0) - e(0) \in -s[0] .. s[0]
        /\ s[1] \in Nat /\ d(1) \in Int /\ e(1) \in Int /\ 127 * 127 * d(1) - e(1) \in -s[1] .. s[1]
        /\ s[2] \in Nat /\ d(2) \in Int /\ e(2) \in Int /\ 127 * 127 * d(2) - e(2) \in -s[2] .. s[2]
        /\ s[3] \in Nat /\ d(3) \in Int /\ e(3) \in Int /\ 127 * 127 * d(3) - e(3) \in -s[3] .. s[3]
    <3>1. 0 \in Components /\ 1 \in Components /\ 2 \in Components /\ 3 \in Components  BY DEF Components
    <3> HIDE DEF s, d, e
    <3> QED  BY <2>3, <3>1
  <2>5. /\ f % 2 = 0 => conv \in Int /\ d(0) + d(1) + d(2) = 2 * conv
        /\ f % 2 # 0 => conv \in Int /\ d(1) - d(2) - d(3) = 2 * conv
    BY <1>2, <2>1, ComponentsAddUp
  <2>6. /\ f % 2 = 0 => m.y[f][n] = e(0) + e(1) + e(2) + b(n)
        /\ f % 2 # 0 => m.y[f][n] = e(1) - e(2) - e(3) + b(n)
    BY <1>3, <2>1
  <2>7. SumTo(4, [i \in Nat |-> IF i \in WinoParts(f) THEN s[i] ELSE 0])
          = IF f % 2 = 0 THEN s[0] + s[1] + s[2] ELSE s[1] + s[2] + s[3]
    <3>1. \A i \in Components : s[i] \in Nat  BY <2>3
    <3> HIDE DEF s
    <3> QED  BY <2>1, <3>1, RowSlack
  <2>8. ConvolvedAt(call, m, f, n) = conv /\ Slack(call, m, n) = s
    BY <1>3 DEF ConvolvedAt, Slack
  <2> HIDE DEF s, d, e, conv, bias, b, m, y
  <2>9. CASE f % 2 = 0
    <3>1. AbsOf(m.y[f][n] - 2 * 127 * 127 * (conv + bias)) <= s[0] + s[1] + s[2]
      BY <2>2, <2>4, <2>5, <2>6, <2>9 DEF AbsOf
    <3> QED  BY <2>7, <2>8, <2>9, <3>1 DEF bias
  <2>10. CASE f % 2 # 0
    <3>1. AbsOf(m.y[f][n] - 2 * 127 * 127 * (conv + bias)) <= s[1] + s[2] + s[3]
      BY <2>2, <2>4, <2>5, <2>6, <2>10 DEF AbsOf
    <3> QED  BY <2>7, <2>8, <2>10, <3>1 DEF bias
  <2> QED  BY <2>9, <2>10
<1>6. CloseTo(call, m)  BY <1>5 DEF CloseTo
<1> HIDE DEF m
<1> QED  BY <1>1, <1>4, <1>6, Zenon DEF WinoAt, m

WinoInv ==
  /\ call \in Calls \cup {NoCall}
  /\ call.family = "wino" => WinoAt(call, stage, pos, mem)

\* A step that makes or keeps a call of a Winograd layer is one of these layers'.
LEMMA WinoStep ==
  ASSUME [KNext]_kvars, call'.family = "wino"
  PROVE  UNCHANGED kvars \/ WinoNext
<1>1. ~Return  BY DEF Return, NoCall
<1>2. ~LoadLayer  BY DEF LoadLayer, Starts
<1>3. ~QuantStart  BY DEF QuantStart, Starts
<1>4. ~(call' = call /\ call.family \in {"gemm", "gru", "quant"})  OBVIOUS
<1> QED  BY <1>1, <1>2, <1>3, <1>4, FamilyStep DEF OwnStep

\* A Winograd layer computes the k = 3 convolution of its packed weights up to the
\* slack of the components a row is made of, for every shape, frame and weights.
THEOREM KernelsWinogradClose == KSpec => []WinogradClose
<1>1. KInit => WinoInv  BY DEF KInit, WinoInv, NoCall
<1>2. ASSUME WinoInv, [KNext]_kvars PROVE WinoInv'
  <2>1. call' \in Calls \cup {NoCall}
    <3>1. CASE UNCHANGED kvars  BY <1>2, <3>1 DEF WinoInv, kvars
    <3>2. CASE Return  BY <3>2 DEF Return
    <3>3. CASE LoadLayer \/ QuantStart  BY <3>3 DEF LoadLayer, QuantStart, Starts
    <3>4. CASE call' \in Calls \/ call' = call  BY <1>2, <3>4 DEF WinoInv
    <3> QED  BY <1>2, <3>1, <3>2, <3>3, <3>4, FamilyStep
  <2>2. CASE call'.family # "wino"  BY <2>1, <2>2 DEF WinoInv
  <2>3. CASE UNCHANGED kvars /\ call'.family = "wino"
    <3>1. call' = call /\ stage' = stage /\ pos' = pos /\ mem' = mem  BY <2>3 DEF kvars
    <3> QED  BY <1>2, <2>1, <2>3, <3>1 DEF WinoInv
  <2>4. CASE WinoLoad
    <3>1. PICK c \in Calls :
            /\ c.family = "wino" /\ call' = c /\ stage' = "packed"
            /\ mem' = [W |-> PackW([n \in 0 .. c.N - 1 |-> [k \in 0 .. 3 * c.K - 1 |->
                                      Weight(c.data, 0, n, k)]], c.N, 3 * c.K),
                       x |-> [i \in 0 .. c.M * c.K - 1 |-> Code(c.data, 0, i \div c.K, i % c.K)]]
      BY <2>4 DEF WinoLoad, Starts
    <3>2. WholeFrame(c, mem')  BY <3>1, WinoPacks DEF WinoCall
    <3>3. WinoAt(c, stage', pos', mem')  BY <3>1, <3>2 DEF WinoAt
    <3> QED  BY <2>1, <3>1, <3>3 DEF WinoInv
  <2>5. CASE WinoDerive \/ WinoScan \/ WinoTransform \/ WinoGemm \/ WinoEpilogue
    <3>1. call' = call /\ call.family = "wino"
      BY <2>5 DEF WinoDerive, WinoScan, WinoTransform, WinoGemm, WinoEpilogue, Continues
    <3>2. WinoCall(call) /\ WinoAt(call, stage, pos, mem)
      BY <1>2, <3>1 DEF WinoInv, WinoCall, NoCall
    <3>3. WinoAt(call', stage', pos', mem')
      BY <2>5, <3>2, WinoDerives, WinoScans, WinoTransforms, WinoMultiplies, WinoCombines
    <3> QED  BY <2>1, <3>3 DEF WinoInv
  <2> QED  BY <1>2, <2>2, <2>3, <2>4, <2>5, WinoStep DEF WinoNext
<1>3. WinoInv => WinogradClose
  <2> SUFFICES ASSUME WinoInv, stage = "done", call.family = "wino" PROVE WinogradClose
    BY DEF WinogradClose
  <2>1. CloseTo(call, mem) /\ WinoCall(call)  BY DEF WinoInv, WinoAt, WinoCall, NoCall
  <2>2. \A f, n : Convolved(f, n) = ConvolvedAt(call, mem, f, n)
    BY DEF Convolved, ConvolvedAt, Row, FrameAt
  <2>3. \A n : Slack(call, mem, n) = [i \in Nat |-> mem.peak[i] * mem.top[i][n] * call.K * 128]
    BY DEF Slack
  <2>4. \A f, n : [i \in Nat |-> IF i \in WinoParts(f) THEN Slack(call, mem, n)[i] ELSE 0]
                  = [i \in Nat |-> IF i \in WinoParts(f)
                                   THEN mem.peak[i] * mem.top[i][n] * call.K * 128 ELSE 0]
    BY <2>3
  <2> QED  BY <2>1, <2>2, <2>4, ZenonT(40) DEF WinogradClose, CloseTo, Cols
<1> QED  BY <1>1, <1>2, <1>3, PTL DEF KSpec

-----------------------------------------------------------------------------
(* BlobConsumed *)

\* Only the caller that takes the result leaves no call behind.
LEMMA IdleStep ==
  ASSUME [KNext]_kvars
  PROVE  UNCHANGED kvars \/ Return \/ stage' # "idle"
<1>1. CASE LoadLayer \/ SumAndRepack \/ PrepareGemm \/ PrepareGru
  BY <1>1, SMTT(30) DEF LoadLayer, SumAndRepack, PrepareGemm, PrepareGru, Starts, Continues
<1>2. CASE Arm!ArmNext
  BY Zenon, <1>2
  DEF Arm!ArmNext, Arm!NeonEnter, Arm!DotprodEnter, Arm!I8mmEnter, Arm!DotprodGruEnter,
      Arm!I8mmGruEnter, Arm!NeonInt32, Arm!NeonK20, Arm!NeonFused, Arm!NeonAccum,
      Arm!NeonTrack, Arm!DotprodInt32, Arm!DotprodK20, Arm!DotprodFused, Arm!DotprodAccum,
      Arm!DotprodTrack, Arm!I8mmInt32, Arm!I8mmFused, Arm!I8mmAccum, Arm!I8mmTrack,
      Arm!NeonGru, Arm!DotprodGru, Arm!I8mmGru, Arm!RowLoop, Arm!GruLoop, Arm!Continues
<1>3. CASE X86Next
  BY <1>3
  DEF X86Next, Avx2Enter, Avx2Int32, Avx2K20, Avx2Fused, Avx2Accum, Avx2Track, Avx2GruEnter,
      Avx2Gru, VnniEnter, VnniGruEnter, AvxvnniInt32, AvxvnniK20, AvxvnniFused, AvxvnniAccum,
      AvxvnniTrack, AvxvnniGru, Avx512Int32, Avx512K20, Avx512Fused, Avx512Accum, Avx512Track,
      Avx512Gru, Avx2Loop, RowLoop, BlockLoop, BlockStep, PairLoop, GruLoop, Continues
<1>4. CASE QuantNext
  BY <1>4
  DEF QuantNext, QuantStart, ScanRange, QuantiseFlat, QuantiseFp16, QuantiseTransposed,
      QuantiseConcat, Starts, Continues
<1>5. CASE WinoNext
  BY Zenon, <1>5
  DEF WinoNext, WinoLoad, WinoDerive, WinoScan, WinoTransform, WinoGemm, WinoEpilogue, Starts,
      Continues
<1>6. CASE FftNext
  BY Zenon, <1>6
  DEF FftNext, FftStart, FftInit, FftPackReal, FftPreInverse, FftStage0, FftRadix4, FftRadix2,
      FftPostForward, FftUnpack, FftContinues, Starts, Continues
<1>7. CASE ConvNext
  BY <1>7
  DEF ConvNext, StridedStart, SgemmStart, TransStart, StridedIm2col, SgemmEnter, SgemmBand,
      TransBias, TransChannel, Starts, Continues
<1>8. CASE BlobNext
  BY <1>8
  DEF BlobNext, BlobStart, BlobRefused, BlobTake, BlobEnd, BlobFinalize, Starts, Continues
<1>9. CASE AttnNext
  BY <1>9
  DEF AttnNext, AttnStart, AttnClear, AttnPack, AttnRepack, AttnScores, AttnMix, Starts, Continues
<1> QED  BY <1>1, <1>2, <1>3, <1>4, <1>5, <1>6, <1>7, <1>8, <1>9 DEF KNext

\* What the first k items of a list move a cursor by, and its int8 layers.
Taken(g, items, k) == SumTo(k, [i \in Nat |-> g[items[i + 1]]])
Layers(items) == {it \in Held(items) : it.op = "int8"}

LoaderFields ==
  {"plan", "items", "off", "q", "s", "pre", "wino", "ws", "layers", "repacked", "result"}

\* The buffers of a load: the plan and the list it started with, and the
\* cursors where the items taken so far have moved them.
Loading(c, k, b) ==
  /\ LoaderFields \subseteq DOMAIN b
  /\ b.plan = Plan(c.dims) /\ b.items = FileItems(c.dims) /\ b.off \in Nat
  /\ b.q = Taken(QOf, b.items, k) /\ b.s = Taken(SOf, b.items, k) /\ b.pre = Taken(PreOf, b.items, k)
  /\ b.layers \in Seq(Layers(b.items)) /\ Len(b.layers) = Taken(LayerOf, b.items, k)

\* The Winograd buffers are derived last, from a blob read to its end.
BlobFilled(c, k, b) ==
  /\ k = Len(b.items) /\ b.off = c.size /\ b.wino = b.plan.wino /\ b.ws = b.plan.ws

LoadAt(c, st, k, b) ==
  /\ k \in 0 .. Len(FileItems(c.dims)) /\ Loading(c, k, b)
  /\ \/ st \in {"packed", "loop"} /\ b.wino = 0 /\ b.ws = 0
     \/ st = "ready" /\ BlobFilled(c, k, b)
     \/ st = "done" /\ b.result # 0 /\ b.wino = 0 /\ b.ws = 0
     \/ st = "done" /\ BlobFilled(c, k, b) /\ b.repacked = Repacked(c.dims)
  /\ st \in {"loop", "ready"} => b.off <= c.size
  /\ st = "packed" => k = 0

\* One more item.
LEMMA TakenStep ==
  ASSUME NEW g, NEW items, NEW k \in Nat
  PROVE  Taken(g, items, 0) = 0 /\ Taken(g, items, k + 1) = Taken(g, items, k) + g[items[k + 1]]
<1> DEFINE t == [i \in Nat |-> g[items[i + 1]]]
<1>1. SumTo(0, t) = 0 /\ SumTo(k + 1, t) = SumTo(k, t) + t[k]  BY SumToStep
<1>2. t[k] = g[items[k + 1]]  OBVIOUS
<1> QED  BY <1>1, <1>2 DEF Taken

\* A configuration's blob, and the items of its file.
LEMMA BlobItems ==
  ASSUME NEW c \in Calls, c.family = "blob"
  PROVE  /\ Dimensions(c.dims) /\ c.size \in Nat
         /\ FileItems(c.dims) \in Seq(ItemSpace) /\ Len(FileItems(c.dims)) > 0
<1>1. Dimensions(c.dims) /\ c.size \in Nat  BY BlobAssumption
<1> QED  BY <1>1, FileWalks, FileFirst DEF Walks

\* A load starts with no item taken.
LEMMA BlobBegins ==
  ASSUME BlobStart, pos = 0
  PROVE  call' \in Calls /\ LoadAt(call', stage', pos', mem')
<1>1. PICK c \in Calls, allocated \in BOOLEAN :
        /\ c.family = "blob" /\ call' = c /\ stage' = "packed" /\ pos' = 0
        /\ mem' = [plan |-> Plan(c.dims), items |-> FileItems(c.dims), off |-> 12,
                   q |-> 0, s |-> 0, pre |-> 0, wino |-> 0, ws |-> 0, layers |-> <<>>,
                   repacked |-> <<>>,
                   result |-> IF c.size < 12 \/ ~c.magic THEN -1 ELSE IF allocated THEN 0 ELSE -3]
  BY DEF BlobStart, Starts
<1> DEFINE b == mem'
<1>2. /\ LoaderFields \subseteq DOMAIN b
      /\ b.plan = Plan(c.dims) /\ b.items = FileItems(c.dims) /\ b.off = 12
      /\ b.q = 0 /\ b.s = 0 /\ b.pre = 0 /\ b.layers = <<>> /\ b.wino = 0 /\ b.ws = 0
  BY <1>1 DEF LoaderFields
<1> HIDE DEF b
<1>3. FileItems(c.dims) \in Seq(ItemSpace) /\ 0 \in 0 .. Len(FileItems(c.dims))
  BY <1>1, BlobItems
<1>4. b.layers \in Seq(Layers(b.items)) /\ Len(b.layers) = 0  BY <1>2
<1>5. Loading(c, 0, b)
  <2>1. \A g : Taken(g, b.items, 0) = 0  BY TakenStep
  <2>2. /\ Taken(QOf, b.items, 0) = 0 /\ Taken(SOf, b.items, 0) = 0
        /\ Taken(PreOf, b.items, 0) = 0 /\ Taken(LayerOf, b.items, 0) = 0
    BY <2>1
  <2>3. b.off \in Nat  BY <1>2
  <2> QED  BY <1>2, <1>4, <2>2, <2>3 DEF Loading
<1>6. LoadAt(c, "packed", 0, b)  BY <1>2, <1>3, <1>5 DEF LoadAt
<1> QED  BY <1>1, <1>6 DEF b

\* An item of the file, by its kind.
LEMMA ItemKinds ==
  ASSUME NEW it \in ItemSpace
  PROVE  /\ ItemBytes(it) \in Nat
         /\ QOf[it] = (IF it.op = "int8" THEN PackedSize(it.K, it.N) ELSE 0)
         /\ SOf[it] = (IF it.op = "int8" THEN it.N ELSE 0)
         /\ PreOf[it] = it.pre /\ LayerOf[it] = (IF it.op = "int8" THEN 1 ELSE 0)
<1>1. \/ it.op = "fp32" /\ it.n \in Nat
      \/ it.op = "int8" /\ it.N \in Nat /\ it.K \in Nat
  BY DEF ItemSpace
<1>2. ItemBytes(it) \in Nat
  <2>1. CASE it.op = "fp32" /\ it.n \in Nat  BY <2>1 DEF ItemBytes
  <2>2. CASE it.op = "int8" /\ it.N \in Nat /\ it.K \in Nat
    <3>1. PackedSize(it.K, it.N) \in Nat  BY <2>2, PackedSizeNat
    <3>2. 4 * it.N \in Nat /\ (IF it.biased THEN 4 * it.N ELSE 0) \in Nat  BY <2>2
    <3>3. ItemBytes(it) = PackedSize(it.K, it.N) + 4 * it.N + (IF it.biased THEN 4 * it.N ELSE 0)
      BY <2>2 DEF ItemBytes
    <3> QED  BY <3>1, <3>2, <3>3
  <2> QED  BY <1>1, <2>1, <2>2
<1> QED  BY <1>2 DEF QOf, SOf, PreOf, LayerOf

\* An item moves the cursors as it should, or the blob is refused for its length.
LEMMA BlobTakes ==
  ASSUME call \in Calls, LoadAt(call, stage, pos, mem), BlobTake
  PROVE  LoadAt(call, stage', pos', mem')
<1> DEFINE items == FileItems(call.dims)
           it == items[pos + 1]
<1>1. /\ call.family = "blob" /\ stage \in {"packed", "loop"} /\ pos < Len(mem.items)
      /\ mem.wino = 0 /\ mem.ws = 0
  BY DEF BlobTake, LoadAt
<1>2. /\ LoaderFields \subseteq DOMAIN mem /\ mem.plan = Plan(call.dims) /\ mem.items = items
      /\ mem.off \in Nat /\ Loading(call, pos, mem)
  BY DEF LoadAt, Loading
<1>3. items \in Seq(ItemSpace) /\ call.size \in Nat  BY <1>1, BlobItems
<1>4. pos \in Nat /\ pos + 1 \in 1 .. Len(items) /\ pos + 1 \in 0 .. Len(items)
      /\ pos \in 0 .. Len(items)
  BY <1>1, <1>2, <1>3 DEF LoadAt
<1>5. it \in ItemSpace /\ it \in Held(items)  BY <1>3, <1>4 DEF Held
<1> HIDE DEF items, it
<1>6. CASE mem.off + ItemBytes(it) > call.size
  <2> DEFINE b == [mem EXCEPT !.result = -1]
  <2>1. stage' = "done" /\ pos' = pos /\ mem' = b
    BY <1>2, <1>6 DEF BlobTake, Continues, it
  <2>2. /\ DOMAIN b = DOMAIN mem /\ b.result = -1 /\ b.plan = mem.plan /\ b.items = mem.items
        /\ b.off = mem.off /\ b.q = mem.q /\ b.s = mem.s /\ b.pre = mem.pre
        /\ b.layers = mem.layers /\ b.wino = 0 /\ b.ws = 0
    BY <1>1, <1>2 DEF LoaderFields
  <2> HIDE DEF b
  <2>3. Loading(call, pos, b)  BY <1>2, <2>2 DEF Loading
  <2>4. LoadAt(call, "done", pos, b)  BY <1>4, <2>2, <2>3 DEF LoadAt, items
  <2> QED  BY <2>1, <2>4
<1>7. CASE ~(mem.off + ItemBytes(it) > call.size)
  <2> DEFINE b == [mem EXCEPT !.off = @ + ItemBytes(it), !.pre = @ + it.pre,
                        !.q = IF it.op = "int8" THEN @ + PackedSize(it.K, it.N) ELSE @,
                        !.s = IF it.op = "int8" THEN @ + it.N ELSE @,
                        !.layers = IF it.op = "int8" THEN Append(@, it) ELSE @]
  <2>1. stage' = "loop" /\ pos' = pos + 1 /\ mem' = b
    BY <1>2, <1>7 DEF BlobTake, Continues, it
  <2>2. /\ DOMAIN b = DOMAIN mem /\ b.plan = mem.plan /\ b.items = mem.items
        /\ b.off = mem.off + ItemBytes(it) /\ b.pre = mem.pre + it.pre
        /\ b.q = (IF it.op = "int8" THEN mem.q + PackedSize(it.K, it.N) ELSE mem.q)
        /\ b.s = (IF it.op = "int8" THEN mem.s + it.N ELSE mem.s)
        /\ b.layers = (IF it.op = "int8" THEN Append(mem.layers, it) ELSE mem.layers)
        /\ b.wino = 0 /\ b.ws = 0
    BY <1>1, <1>2 DEF LoaderFields
  <2> HIDE DEF b
  <2>3. /\ ItemBytes(it) \in Nat
        /\ QOf[it] = (IF it.op = "int8" THEN PackedSize(it.K, it.N) ELSE 0)
        /\ SOf[it] = (IF it.op = "int8" THEN it.N ELSE 0)
        /\ PreOf[it] = it.pre /\ LayerOf[it] = (IF it.op = "int8" THEN 1 ELSE 0)
    BY <1>5, ItemKinds
  <2>4. /\ mem.q = Taken(QOf, items, pos) /\ mem.s = Taken(SOf, items, pos)
        /\ mem.pre = Taken(PreOf, items, pos) /\ mem.layers \in Seq(Layers(items))
        /\ Len(mem.layers) = Taken(LayerOf, items, pos)
    BY <1>2 DEF Loading
  <2>5. \A g : Taken(g, items, pos + 1) = Taken(g, items, pos) + g[it]
    BY <1>4, TakenStep DEF it
  <2>6. /\ Taken(QOf, items, pos) \in Nat /\ Taken(SOf, items, pos) \in Nat
        /\ Taken(LayerOf, items, pos) \in Nat
    BY <1>3, <1>4, Measures, TotalNat DEF Taken
  <2>7. /\ Taken(QOf, items, pos + 1) = mem.q + QOf[it] /\ Taken(SOf, items, pos + 1) = mem.s + SOf[it]
        /\ Taken(PreOf, items, pos + 1) = mem.pre + PreOf[it]
        /\ Taken(LayerOf, items, pos + 1) = Len(mem.layers) + LayerOf[it]
    BY <2>4, <2>5
  <2>8. b.q = Taken(QOf, items, pos + 1) /\ b.s = Taken(SOf, items, pos + 1)
        /\ b.pre = Taken(PreOf, items, pos + 1)
    BY <2>2, <2>3, <2>4, <2>6, <2>7
  <2>9. b.layers \in Seq(Layers(items)) /\ Len(b.layers) = Taken(LayerOf, items, pos + 1)
    <3>1. CASE it.op = "int8"
      <4>1. it \in Layers(items)  BY <1>5, <3>1 DEF Layers
      <4>2. Append(mem.layers, it) \in Seq(Layers(items))
            /\ Len(Append(mem.layers, it)) = Len(mem.layers) + 1
        BY <2>4, <4>1
      <4> QED  BY <2>2, <2>3, <2>7, <3>1, <4>2
    <3>2. CASE it.op # "int8"  BY <2>2, <2>3, <2>4, <2>6, <2>7, <3>2
    <3> QED  BY <3>1, <3>2
  <2>10. b.off \in Nat /\ b.off <= call.size  BY <1>2, <1>3, <1>7, <2>2, <2>3
  <2>11. Loading(call, pos + 1, b)  BY <1>2, <2>2, <2>8, <2>9, <2>10 DEF Loading, items
  <2>12. LoadAt(call, "loop", pos + 1, b)  BY <1>4, <2>2, <2>10, <2>11 DEF LoadAt, items
  <2> QED  BY <2>1, <2>12
<1> QED  BY <1>6, <1>7

\* A blob without its header is refused as it is.
LEMMA BlobRefuses ==
  ASSUME call \in Calls, LoadAt(call, stage, pos, mem), BlobRefused
  PROVE  LoadAt(call, stage', pos', mem')
<1>1. /\ stage' = "done" /\ pos' = 0 /\ mem' = mem /\ mem.result # 0 /\ pos = 0
      /\ mem.wino = 0 /\ mem.ws = 0
  BY DEF BlobRefused, Continues, LoadAt
<1>2. LoadAt(call, "done", 0, mem)  BY <1>1 DEF LoadAt
<1> QED  BY <1>1, <1>2

\* The k = 3 layers are one for each layer of the encoder and one of the decoder.
LEMMA WinogradLayers ==
  ASSUME NEW d, Dimensions(d)
  PROVE  Len(K3(d)) = d.enc + d.enc
<1> DEFINE a == [i \in 1 .. d.enc |-> <<"enc", i - 1>>]
           b == [i \in 1 .. d.enc |-> <<"dec_3x3", i - 1>>]
           h == {"enc"} \X (0 .. d.enc - 1)
           k == {"dec_3x3"} \X (0 .. d.enc - 1)
<1>1. d.enc \in Nat /\ "enc" \in Labels /\ "dec_3x3" \in Labels  BY DEF Dimensions, Labels
<1>2. Lists(a, d.enc, h) /\ Lists(b, d.enc, k)  BY <1>1, ListsEach
<1>3. K3(d) = a \o b  BY DEF K3
<1> HIDE DEF a, b, h, k
<1>4. Lists(a \o b, d.enc + d.enc, h \cup k)  BY <1>1, <1>2, ListsConcat
<1>5. K3(d) \in Seq(Names) /\ Total(Ones, K3(d)) = d.enc + d.enc  BY <1>3, <1>4 DEF Lists
<1> QED  BY <1>5, TotalOnes DEF Ones

\* At the end of the list the blob is refused, or the Winograd buffers are derived.
LEMMA BlobEnds ==
  ASSUME call \in Calls, LoadAt(call, stage, pos, mem), BlobEnd
  PROVE  LoadAt(call, stage', pos', mem')
<1> DEFINE d == call.dims
           n == Len(K3(d))
<1>1. /\ call.family = "blob" /\ stage = "loop" /\ pos = Len(mem.items) /\ mem.wino = 0 /\ mem.ws = 0
  BY DEF BlobEnd, LoadAt
<1>2. /\ LoaderFields \subseteq DOMAIN mem /\ mem.plan = Plan(d) /\ mem.items = FileItems(d)
      /\ mem.off \in Nat /\ Loading(call, pos, mem) /\ pos \in 0 .. Len(FileItems(d))
  BY DEF LoadAt, Loading
<1>3. Dimensions(d) /\ call.size \in Nat  BY <1>1, BlobItems
<1>4. n * 4 * PackedSize(d.C1, d.C1) = Plan(d).wino /\ n * 4 * d.C1 = Plan(d).ws
  BY <1>3, WinogradLayers, PlanSizes
<1> HIDE DEF d
<1>5. CASE /\ stage' = "done" /\ pos' = pos /\ mem' = [mem EXCEPT !.result = -1]
  <2> DEFINE b == [mem EXCEPT !.result = -1]
  <2>1. /\ DOMAIN b = DOMAIN mem /\ b.result = -1 /\ b.plan = mem.plan /\ b.items = mem.items
        /\ b.off = mem.off /\ b.q = mem.q /\ b.s = mem.s /\ b.pre = mem.pre
        /\ b.layers = mem.layers /\ b.wino = 0 /\ b.ws = 0
    BY <1>1, <1>2 DEF LoaderFields
  <2> HIDE DEF b
  <2>2. Loading(call, pos, b)  BY <1>2, <2>1 DEF Loading
  <2>3. LoadAt(call, "done", pos, b)  BY <1>2, <2>1, <2>2 DEF LoadAt, d
  <2> QED  BY <1>5, <2>3 DEF b
<1>6. CASE /\ mem.off = call.size
           /\ stage' = "ready" /\ pos' = pos
           /\ mem' = [mem EXCEPT !.wino = n * 4 * PackedSize(d.C1, d.C1), !.ws = n * 4 * d.C1]
  <2> DEFINE b == [mem EXCEPT !.wino = n * 4 * PackedSize(d.C1, d.C1), !.ws = n * 4 * d.C1]
  <2>1. /\ DOMAIN b = DOMAIN mem /\ b.plan = mem.plan /\ b.items = mem.items
        /\ b.off = mem.off /\ b.q = mem.q /\ b.s = mem.s /\ b.pre = mem.pre
        /\ b.layers = mem.layers
        /\ b.wino = n * 4 * PackedSize(d.C1, d.C1) /\ b.ws = n * 4 * d.C1
    BY <1>2 DEF LoaderFields
  <2> HIDE DEF b, n
  <2>2. Loading(call, pos, b)  BY <1>2, <2>1 DEF Loading
  <2>3. BlobFilled(call, pos, b)  BY <1>1, <1>2, <1>4, <1>6, <2>1 DEF BlobFilled
  <2>4. b.off <= call.size  BY <1>3, <1>6, <2>1
  <2>5. LoadAt(call, "ready", pos, b)  BY <1>2, <2>2, <2>3, <2>4 DEF LoadAt, d
  <2> QED  BY <1>6, <2>5 DEF b, n
<1> QED  BY <1>5, <1>6 DEF BlobEnd, Continues, d

\* The repack gathers every layer.
LEMMA BlobFinalizes ==
  ASSUME call \in Calls, LoadAt(call, stage, pos, mem), BlobFinalize
  PROVE  LoadAt(call, stage', pos', mem')
<1> DEFINE d == call.dims
           b == [mem EXCEPT !.repacked = Repacked(d)]
<1>1. /\ call.family = "blob" /\ stage = "ready" /\ stage' = "done" /\ pos' = pos /\ mem' = b
  BY DEF BlobFinalize, Continues, Repacked
<1>2. /\ LoaderFields \subseteq DOMAIN mem /\ Loading(call, pos, mem) /\ pos \in 0 .. Len(FileItems(d))
      /\ BlobFilled(call, pos, mem)
  BY <1>1 DEF LoadAt, Loading
<1> HIDE DEF d
<1>3. /\ DOMAIN b = DOMAIN mem /\ b.plan = mem.plan /\ b.items = mem.items
      /\ b.off = mem.off /\ b.q = mem.q /\ b.s = mem.s /\ b.pre = mem.pre
      /\ b.layers = mem.layers /\ b.wino = mem.wino /\ b.ws = mem.ws /\ b.repacked = Repacked(d)
  BY <1>2 DEF LoaderFields
<1> HIDE DEF b
<1>4. Loading(call, pos, b) /\ BlobFilled(call, pos, b)  BY <1>2, <1>3 DEF Loading, BlobFilled
<1>5. LoadAt(call, "done", pos, b)  BY <1>2, <1>3, <1>4 DEF LoadAt, d
<1> QED  BY <1>1, <1>5

\* What LoadAt says of a call says what BlobConsumed asks.
LEMMA BlobSatisfied ==
  ASSUME call \in Calls, call.family = "blob", LoadAt(call, stage, pos, mem)
  PROVE  BlobConsumed
<1> DEFINE d == call.dims
           items == FileItems(d)
           H == LayerNames(d)
           r == Repacked(d)
<1>1. Dimensions(d) /\ call.size \in Nat /\ items \in Seq(ItemSpace)  BY BlobItems
<1>2. /\ mem.plan = Plan(d) /\ mem.items = items /\ pos \in 0 .. Len(items)
      /\ mem.q = Taken(QOf, items, pos) /\ mem.s = Taken(SOf, items, pos)
      /\ mem.pre = Taken(PreOf, items, pos) /\ mem.layers \in Seq(Layers(items))
      /\ Len(mem.layers) = Taken(LayerOf, items, pos)
  BY DEF LoadAt, Loading
<1>3. Walks(items, H, Plan(d).q, Plan(d).s, Plan(d).pre, FileLayers(d))
  BY <1>1, FileWalks, PlanSizes
<1>4. Plan(d).wino \in Nat /\ Plan(d).ws \in Nat  BY <1>1, PlanSizes
<1>5. d.C1 * PreK(d) <= items[1].n  BY <1>1, FileFirst
<1>6. Lists(r, FileLayers(d), H)
  <2>1. d.enc \in Nat /\ d.rf \in Nat  BY <1>1 DEF Dimensions
  <2> QED  BY <2>1, RepackedList DEF FileLayers
<1> HIDE DEF d, items, H, r
<1>7. /\ Total(QOf, items) = Plan(d).q /\ Total(SOf, items) = Plan(d).s
      /\ Total(PreOf, items) = Plan(d).pre /\ Total(LayerOf, items) = FileLayers(d)
      /\ \A it \in Held(items) : Fits(it, H)
  BY <1>3 DEF Walks
<1>8. mem.q <= Plan(d).q /\ mem.s <= Plan(d).s /\ mem.pre <= Plan(d).pre
  BY <1>1, <1>2, <1>7, Measures, TotalNat DEF Taken
<1>9. mem.wino <= Plan(d).wino /\ mem.ws <= Plan(d).ws
  BY <1>2, <1>4 DEF LoadAt, BlobFilled
<1>10. stage \in {"loop", "ready"} => mem.off <= call.size  BY DEF LoadAt
<1>11. ASSUME stage = "done", mem.result = 0
       PROVE  /\ mem.off = call.size /\ mem.wino = Plan(d).wino /\ mem.ws = Plan(d).ws
              /\ mem.q = Plan(d).q /\ mem.s = Plan(d).s /\ mem.pre = Plan(d).pre
              /\ \A i \in DOMAIN mem.layers :
                   <<mem.layers[i].out, mem.layers[i].in>> = <<mem.layers[i].N, mem.layers[i].K>>
              /\ Len(mem.repacked) = Len(mem.layers)
              /\ \A i \in DOMAIN mem.layers :
                   \E j \in DOMAIN mem.repacked : mem.repacked[j] = mem.layers[i].name
  <2>1. BlobFilled(call, pos, mem) /\ mem.repacked = r  BY <1>11 DEF LoadAt, r, d
  <2>2. /\ pos = Len(items) /\ mem.off = call.size /\ mem.wino = Plan(d).wino /\ mem.ws = Plan(d).ws
    BY <1>2, <2>1 DEF BlobFilled
  <2>3. mem.q = Plan(d).q /\ mem.s = Plan(d).s /\ mem.pre = Plan(d).pre
        /\ Len(mem.layers) = FileLayers(d)
    BY <1>2, <1>7, <2>2 DEF Taken, Total
  <2>4. ASSUME NEW i \in DOMAIN mem.layers
        PROVE  /\ mem.layers[i].out = mem.layers[i].N /\ mem.layers[i].in = mem.layers[i].K
               /\ mem.layers[i].name \in H
    <3>1. mem.layers[i] \in Layers(items)  BY <1>2
    <3> QED  BY <1>7, <3>1 DEF Layers, Fits
  <2>5. r \in Seq(Names) /\ Total(Ones, r) = FileLayers(d) /\ H \subseteq Held(r)
    BY <1>6 DEF Lists
  <2>6. Len(r) = FileLayers(d)  BY <2>5, TotalOnes DEF Ones
  <2>7. ASSUME NEW i \in DOMAIN mem.layers
        PROVE  \E j \in DOMAIN mem.repacked : mem.repacked[j] = mem.layers[i].name
    <3>1. mem.layers[i].name \in Held(r)  BY <2>4, <2>5
    <3> QED  BY <2>1, <3>1 DEF Held
  <2> QED  BY <2>1, <2>2, <2>3, <2>4, <2>6, <2>7
<1> QED  BY <1>2, <1>5, <1>8, <1>9, <1>10, <1>11 DEF BlobConsumed, d

BlobInv ==
  /\ call \in Calls \cup {NoCall} /\ (stage = "idle" => pos = 0)
  /\ call.family = "blob" => LoadAt(call, stage, pos, mem)

\* Whatever the dimensions and the blob, the three lists of layers agree.
THEOREM KernelsBlobConsumed == KSpec => []BlobConsumed
<1>1. KInit => BlobInv
  BY DEF KInit, BlobInv, NoCall
<1>2. ASSUME BlobInv, [KNext]_kvars PROVE BlobInv'
  <2>1. call' \in Calls \cup {NoCall}
    <3>1. CASE UNCHANGED kvars  BY <1>2, <3>1 DEF BlobInv, kvars
    <3>2. CASE Return  BY <3>2 DEF Return
    <3>3. CASE LoadLayer \/ QuantStart  BY <3>3 DEF LoadLayer, QuantStart, Starts
    <3>4. CASE call' \in Calls \/ call' = call  BY <1>2, <3>4 DEF BlobInv
    <3> QED  BY <1>2, <3>1, <3>2, <3>3, <3>4, FamilyStep
  <2>2. stage' = "idle" => pos' = 0
    <3>1. CASE UNCHANGED kvars  BY <1>2, <3>1 DEF BlobInv, kvars
    <3>2. CASE Return  BY <3>2 DEF Return
    <3> QED  BY <1>2, <3>1, <3>2, IdleStep
  <2>3. ASSUME call'.family = "blob" PROVE LoadAt(call', stage', pos', mem')
    <3>1. CASE UNCHANGED kvars
      <4>1. call' = call /\ stage' = stage /\ pos' = pos /\ mem' = mem  BY <3>1 DEF kvars
      <4> QED  BY <1>2, <2>3, <4>1 DEF BlobInv
    <3>2. ~Return  BY <2>3 DEF Return, NoCall
    <3>3. ~LoadLayer /\ ~QuantStart  BY <2>3 DEF LoadLayer, QuantStart, Starts
    <3>4. CASE BlobStart
      <4>1. pos = 0  BY <1>2, <3>4 DEF BlobInv, BlobStart, Starts
      <4> QED  BY <3>4, <4>1, BlobBegins
    <3>5. CASE BlobRefused \/ BlobTake \/ BlobEnd \/ BlobFinalize
      <4>1. call' = call
        BY <3>5 DEF BlobRefused, BlobTake, BlobEnd, BlobFinalize, Continues
      <4>2. call \in Calls /\ LoadAt(call, stage, pos, mem)
        BY <1>2, <2>3, <4>1 DEF BlobInv, NoCall
      <4>3. LoadAt(call, stage', pos', mem')
        BY <3>5, <4>2, BlobRefuses, BlobTakes, BlobEnds, BlobFinalizes
      <4> QED  BY <4>1, <4>3
    <3> QED
      BY <1>2, <2>3, <3>1, <3>2, <3>3, <3>4, <3>5, FamilyStep DEF OwnStep, BlobNext
  <2> QED  BY <2>1, <2>2, <2>3 DEF BlobInv
<1>3. BlobInv => BlobConsumed
  <2>1. CASE call.family = "blob"
    <3>1. ASSUME BlobInv PROVE BlobConsumed
      BY <2>1, <3>1, BlobSatisfied DEF BlobInv, NoCall
    <3> QED  BY <3>1
  <2>2. CASE call.family # "blob"  BY <2>2 DEF BlobConsumed
  <2> QED  BY <2>1, <2>2
<1> QED  BY <1>1, <1>2, <1>3, PTL DEF KSpec

-----------------------------------------------------------------------------
(* The transforms: from the signal to its discrete Fourier transform *)

\* The call of a transform is one of Calls and its memory is as far as its stage says.
FftInv ==
  /\ call \in Calls \cup {NoCall}
  /\ call.family = "fft" => FftAt(call, stage, pos, mem)

\* A step that makes or keeps a call of a transform is one of the transforms'.
LEMMA FftStep ==
  ASSUME [KNext]_kvars, call'.family = "fft"
  PROVE  UNCHANGED kvars \/ FftNext
<1>1. ~Return  BY DEF Return, NoCall
<1>2. ~LoadLayer  BY DEF LoadLayer, Starts
<1>3. ~QuantStart  BY DEF QuantStart, Starts
<1>4. ~(call' = call /\ call.family \in {"gemm", "gru", "quant"})  OBVIOUS
<1> QED  BY <1>1, <1>2, <1>3, <1>4, FamilyStep DEF OwnStep

\* On every tier a forward transform yields the discrete Fourier transform of its
\* call's signal, whatever the signal is, and an inverse one the signal times N.
THEOREM KernelsFftExact == KSpec => []FftExact
<1>1. KInit => FftInv  BY DEF KInit, FftInv, NoCall
<1>2. ASSUME FftInv, [KNext]_kvars PROVE FftInv'
  <2>1. call' \in Calls \cup {NoCall}
    <3>1. CASE UNCHANGED kvars  BY <1>2, <3>1 DEF FftInv, kvars
    <3>2. CASE Return  BY <3>2 DEF Return
    <3>3. CASE LoadLayer \/ QuantStart  BY <3>3 DEF LoadLayer, QuantStart, Starts
    <3>4. CASE call' \in Calls \/ call' = call  BY <1>2, <3>4 DEF FftInv
    <3> QED  BY <1>2, <3>1, <3>2, <3>3, <3>4, FamilyStep
  <2>2. CASE call'.family # "fft"  BY <2>1, <2>2 DEF FftInv
  <2>3. CASE UNCHANGED kvars /\ call'.family = "fft"
    <3>1. call' = call /\ stage' = stage /\ pos' = pos /\ mem' = mem  BY <2>3 DEF kvars
    <3> QED  BY <1>2, <2>1, <2>3, <3>1 DEF FftInv
  <2>4. CASE FftStart
    <3>1. call' \in Calls /\ stage' = "packed"  BY <2>4 DEF FftStart, Starts
    <3> QED  BY <2>1, <3>1 DEF FftInv, FftAt
  <2>5. CASE FftInit \/ FftPackReal \/ FftPreInverse \/ FftStage0 \/ FftRadix4 \/ FftRadix2
             \/ FftPostForward \/ FftUnpack
    <3>1. call' = call /\ call.family = "fft"
      BY Zenon, <2>5 DEF FftInit, FftPackReal, FftPreInverse, FftStage0, FftRadix4, FftRadix2, FftPostForward,
                  FftUnpack, FftContinues, Continues
    <3>2. FftCall /\ FftAt(call, stage, pos, mem)  BY <1>2, <3>1 DEF FftInv, FftCall, NoCall
    <3>3. FftAt(call', stage', pos', mem')
      BY <2>5, <3>2, FftPlans, FftPacks, FftUnmixes, FftStarts, FftQuadruples, FftDoubles, FftMixes, FftSpreads
    <3> QED  BY <2>1, <3>3, Zenon DEF FftInv
  <2> QED  BY <1>2, <2>2, <2>3, <2>4, <2>5, FftStep DEF FftNext
<1>3. FftInv => FftExact
  <2> SUFFICES ASSUME FftInv, stage = "done", call.family = "fft" PROVE FftExact
    BY DEF FftExact
  <2>1. Completed(call, mem.buf)  BY DEF FftInv, FftAt
  <2>2. \A n : Signal(n) = SampleOf(call, n)  BY DEF Signal, SampleOf
  <2>3. \A k : Dft(k) = BinOf(call, k)  BY DEF Dft, BinOf
  <2>4. FFT_HALF = 512 /\ FFT_N = 1024 /\ FFT_N - 1 = 1023  BY DEF FFT_HALF, FFT_N
  <2>5. CASE call.op = "forward"
    <3>1. \A k \in 0 .. 512 : mem.buf[k] = BinOf(call, k)  BY <2>1, <2>5 DEF Completed
    <3>2. \A k \in 0 .. FFT_HALF : mem.buf[k] = Dft(k)  BY <2>3, <2>4, <3>1, SMTT(30)
    <3> QED  BY <2>5, <3>2 DEF FftExact
  <2>6. CASE call.op # "forward"
    <3>1. \A n \in 0 .. 1023 : mem.buf[n] = Fld(1024 * SampleOf(call, n))  BY <2>1, <2>6, Zenon DEF Completed
    <3>2. \A n \in 0 .. FFT_N - 1 : mem.buf[n] = Fld(FFT_N * Signal(n))  BY <2>2, <2>4, <3>1, SMTT(30)
    <3> QED  BY <2>6, <3>2 DEF FftExact
  <2> QED  BY <2>5, <2>6
<1> QED  BY <1>1, <1>2, <1>3, PTL DEF KSpec

-----------------------------------------------------------------------------
(* The accumulators: whatever the lanes, a row times a column *)

\* A row x of activations and a column q of weight codes.
Bytes(x, q, K) == \A k \in 0 .. K - 1 : x[k] \in -128 .. 127 /\ q[k] \in -127 .. 127

Dot1(x, q, K) == SumTo(K, [k \in Nat |-> x[k] * q[k]])

\* A product of an activation and a weight code: half of what 16 bits hold.
HalfLane(s) == s \in Int /\ -16256 <= s /\ s <= 16256

\* Every such product is one.
LEMMA ByteProduct ==
  ASSUME NEW x \in -128 .. 127, NEW q \in -127 .. 127
  PROVE  HalfLane(x * q)
<1> USE DEF HalfLane
<1>1. x * q \in Int  OBVIOUS
<1>2. CASE q >= 0
  <2>1. x * q <= 127 * q /\ (-128) * q <= x * q  BY <1>2, ProductMonotone
  <2> QED  BY <1>1, <1>2, <2>1
<1>3. CASE q <= 0
  <2>1. x * (-q) <= 127 * (-q) /\ (-128) * (-q) <= x * (-q)  BY <1>3, ProductMonotone
  <2>2. x * (-q) = -(x * q)  OBVIOUS
  <2> QED  BY <1>1, <1>3, <2>1, <2>2
<1>4. q >= 0 \/ q <= 0  OBVIOUS
<1> QED  BY <1>1, <1>2, <1>3, <1>4

\* What a 16-bit lane wraps to when it need not.
LEMMA InLane ==
  ASSUME NEW h \in Nat \ {0}, h = 2 ^ 15, NEW x \in Int, -h <= x, x < h
  PROVE  WrapTo(16, x) = x
<1>1. 16 - 1 = 15  OBVIOUS
<1>2. 2 ^ 15 = 32768 /\ 2 ^ 16 = 65536  OBVIOUS
<1>3. 2 ^ 16 = 2 * h  BY <1>2
<1>4. WrapTo(16, x) = ((x + h) % (2 * h)) - h  BY <1>1, <1>3 DEF WrapTo
<1>5. 2 * h \in Nat \ {0} /\ 0 \in Int /\ x + h \in 0 .. 2 * h - 1  OBVIOUS
<1>6. ((2 * h) * 0 + (x + h)) % (2 * h) = x + h  BY <1>5, DivModUnique, Zenon
<1>7. (2 * h) * 0 + (x + h) = x + h  OBVIOUS
<1> QED  BY <1>4, <1>6, <1>7

\* A 16-bit lane holds what its bits can.
LEMMA Wrap16 ==
  ASSUME NEW x \in Int, -32768 <= x, x <= 32767
  PROVE  WrapTo(16, x) = x
<1>1. 2 ^ 15 = 32768  OBVIOUS
<1>2. 2 ^ 15 \in Nat \ {0} /\ -(2 ^ 15) <= x /\ x < 2 ^ 15 /\ x \in Int  BY <1>1
<1> QED  BY <1>2, InLane

\* Row m of a and column n of the packed w hold x and q; a may hold x + 128.
Reads(a, w, K, m, n, x, q) ==
  \A k \in 0 .. K - 1 : a[m * K + k] = x[k] /\ PackedAt(w, K, n, k) = q[k]
ReadsUnsigned(a, w, K, m, n, x, q) ==
  \A k \in 0 .. K - 1 : a[m * K + k] = x[k] + 128 /\ PackedAt(w, K, n, k) = q[k]

\* fe_neon_row8_acc_vmlal2: two products of bytes fit the 16 bits of a lane.
LEMMA NeonAccExact ==
  ASSUME NEW K \in Nat, K % 4 = 0, NEW m \in Nat, NEW n \in Nat, NEW a, NEW w, NEW x, NEW q,
         Bytes(x, q, K),
         Reads(a, w, K, m, n, x, q)
  PROVE  Arm!NeonAcc(a, w, K, m, n) = Dot1(x, q, K)
<1> USE DEF Reads
<1> DEFINE G == K \div 4
           t == [k \in Nat |-> x[k] * q[k]]
           Prod(g, l) == IF g < G THEN a[m * K + 4 * g + l] * PackedAt(w, K, n, 4 * g + l) ELSE 0
           Lane(g, l) == WrapTo(16, Prod(g, l) + Prod(g + 1, l))
           outer == [p \in Nat |-> SumTo(4, [l \in Nat |-> Lane(2 * p, l)])]
<1>1. G \in Nat /\ K = 4 * G  OBVIOUS
<1>2. \A k \in 0 .. K - 1 : t[k] = x[k] * q[k] /\ HalfLane(t[k])
  <2> SUFFICES ASSUME NEW k \in 0 .. K - 1 PROVE t[k] = x[k] * q[k] /\ HalfLane(t[k])
    OBVIOUS
  <2>1. k \in Nat  OBVIOUS
  <2>2. x[k] \in -128 .. 127 /\ q[k] \in -127 .. 127  BY DEF Bytes
  <2>3. HalfLane(x[k] * q[k])  BY <2>2, ByteProduct, Zenon
  <2> QED  BY <2>1, <2>3
<1>3. ASSUME NEW g \in Nat, NEW l \in 0 .. 3
      PROVE  Prod(g, l) = IF g < G THEN t[4 * g + l] ELSE 0
  <2> SUFFICES ASSUME g < G PROVE Prod(g, l) = t[4 * g + l]  OBVIOUS
  <2>1. 4 * g + l \in 0 .. K - 1  BY <1>1
  <2>2. m * K + 4 * g + l = m * K + (4 * g + l)
    <3>1. m * K \in Int  OBVIOUS
    <3> QED  BY <3>1
  <2>3. a[m * K + (4 * g + l)] = x[4 * g + l] /\ PackedAt(w, K, n, 4 * g + l) = q[4 * g + l]
    BY <2>1
  <2>4. t[4 * g + l] = x[4 * g + l] * q[4 * g + l]  BY <1>2, <2>1
  <2> HIDE DEF t
  <2> QED  BY <2>2, <2>3, <2>4
<1> HIDE DEF t, G, Prod
<1>4. ASSUME NEW p \in Nat, 2 * p < G, NEW l \in 0 .. 3
      PROVE  /\ 2 * p + 1 < G => Lane(2 * p, l) = t[8 * p + l] + t[8 * p + 4 + l]
             /\ 2 * p + 1 >= G => Lane(2 * p, l) = t[8 * p + l]
             /\ t[8 * p + l] \in Int /\ (2 * p + 1 < G => t[8 * p + 4 + l] \in Int)
  <2>1. Prod(2 * p, l) = t[8 * p + l]
    <3>1. 2 * p \in Nat /\ 4 * (2 * p) + l = 8 * p + l  OBVIOUS
    <3> QED  BY <1>3, <1>4, <3>1
  <2>2. Prod(2 * p + 1, l) = IF 2 * p + 1 < G THEN t[8 * p + 4 + l] ELSE 0
    <3>1. 2 * p + 1 \in Nat /\ 4 * (2 * p + 1) + l = 8 * p + 4 + l  OBVIOUS
    <3> QED  BY <1>3, <3>1
  <2>3. HalfLane(t[8 * p + l])
    <3>1. 8 * p + l \in 0 .. K - 1  BY <1>1, <1>4
    <3> QED  BY <1>2, <3>1
  <2>4. 2 * p + 1 < G => HalfLane(t[8 * p + 4 + l])
    <3>1. 2 * p + 1 < G => 8 * p + 4 + l \in 0 .. K - 1  BY <1>1, <1>4
    <3> QED  BY <1>2, <3>1
  <2>5. LET s == Prod(2 * p, l) + Prod(2 * p + 1, l) IN s \in Int /\ -32768 <= s /\ s <= 32767
    BY <2>1, <2>2, <2>3, <2>4 DEF HalfLane
  <2>6. Lane(2 * p, l) = Prod(2 * p, l) + Prod(2 * p + 1, l)  BY <2>5, Wrap16
  <2> HIDE DEF Lane
  <2> QED  BY <1>1, <2>1, <2>2, <2>3, <2>4, <2>6 DEF HalfLane
<1>5. ASSUME NEW p \in Nat
      PROVE  outer[p] = 0 + Lane(2 * p, 0) + Lane(2 * p, 1) + Lane(2 * p, 2) + Lane(2 * p, 3)
  <2> DEFINE f == [l \in Nat |-> Lane(2 * p, l)]
  <2>1. /\ f[0] = Lane(2 * p, 0) /\ f[1] = Lane(2 * p, 1)
        /\ f[2] = Lane(2 * p, 2) /\ f[3] = Lane(2 * p, 3)
    OBVIOUS
  <2>2. outer[p] = SumTo(4, f)  OBVIOUS
  <2> HIDE DEF f, outer, Lane
  <2>3. SumTo(0, f) = 0 /\ SumTo(0 + 4, f) = SumTo(0, f) + f[0] + f[0 + 1] + f[0 + 2] + f[0 + 3]
    BY SumToStep, SumToFour
  <2> QED  BY <2>1, <2>2, <2>3
<1> HIDE DEF Lane, outer
<1>6. \A k \in 0 .. K : SumTo(k, t) \in Int
  <2>1. \A k \in 0 .. K - 1 : t[k] \in Int  BY <1>2 DEF HalfLane
  <2> QED  BY <2>1, SumToInt
<1> DEFINE Upto(p) == IF 2 * p <= G THEN 8 * p ELSE K
           Same == {p \in Nat : 2 * p <= G + 1 => SumTo(p, outer) = SumTo(Upto(p), t)}
<1>7. 0 \in Same
  <2>1. SumTo(0, outer) = 0 /\ SumTo(0, t) = 0  BY SumToStep
  <2> QED  BY <1>1, <2>1
<1>8. ASSUME NEW p \in Nat, p \in Same PROVE p + 1 \in Same
  <2> SUFFICES ASSUME 2 * (p + 1) <= G + 1 PROVE SumTo(p + 1, outer) = SumTo(Upto(p + 1), t)
    OBVIOUS
  <2>1. 2 * p < G /\ Upto(p) = 8 * p /\ SumTo(p, outer) = SumTo(8 * p, t)  BY <1>1, <1>8
  <2>2. SumTo(p + 1, outer) = SumTo(p, outer) + outer[p]  BY SumToStep
  <2>3. SumTo(8 * p + 4, t)
          = SumTo(8 * p, t) + t[8 * p] + t[8 * p + 1] + t[8 * p + 2] + t[8 * p + 3]
    BY SumToFour
  <2>4. /\ SumTo(8 * p, t) \in Int
        /\ t[8 * p] \in Int /\ t[8 * p + 1] \in Int /\ t[8 * p + 2] \in Int /\ t[8 * p + 3] \in Int
    <3>1. 8 * p \in 0 .. K  BY <1>1, <2>1
    <3>2. /\ t[8 * p + 0] \in Int /\ t[8 * p + 1] \in Int
          /\ t[8 * p + 2] \in Int /\ t[8 * p + 3] \in Int
      BY <1>4, <2>1
    <3> QED  BY <1>6, <3>1, <3>2
  <2>5. CASE 2 * p + 1 < G
    <3>1. Upto(p + 1) = 8 * p + 8  BY <1>1, <2>5
    <3>2. SumTo((8 * p + 4) + 4, t) = SumTo(8 * p + 4, t) + t[8 * p + 4] + t[8 * p + 4 + 1]
                                      + t[8 * p + 4 + 2] + t[8 * p + 4 + 3]
      BY SumToFour
    <3>3. \A l \in 0 .. 3 : /\ Lane(2 * p, l) = t[8 * p + l] + t[8 * p + 4 + l]
                            /\ t[8 * p + 4 + l] \in Int
      BY <1>4, <2>1, <2>5
    <3>4. /\ Lane(2 * p, 0) = t[8 * p] + t[8 * p + 4] /\ t[8 * p + 4] \in Int
          /\ Lane(2 * p, 1) = t[8 * p + 1] + t[8 * p + 4 + 1] /\ t[8 * p + 4 + 1] \in Int
          /\ Lane(2 * p, 2) = t[8 * p + 2] + t[8 * p + 4 + 2] /\ t[8 * p + 4 + 2] \in Int
          /\ Lane(2 * p, 3) = t[8 * p + 3] + t[8 * p + 4 + 3] /\ t[8 * p + 4 + 3] \in Int
      BY <3>3
    <3>5. SumTo(8 * p + 8, t) = SumTo((8 * p + 4) + 4, t)  OBVIOUS
    <3> HIDE DEF Upto
    <3> QED  BY <1>5, <2>1, <2>2, <2>3, <2>4, <3>1, <3>2, <3>4, <3>5
  <2>6. CASE 2 * p + 1 >= G
    <3>1. Upto(p + 1) = 8 * p + 4  BY <1>1, <2>1, <2>6
    <3>2. /\ Lane(2 * p, 0) = t[8 * p] /\ Lane(2 * p, 1) = t[8 * p + 1]
          /\ Lane(2 * p, 2) = t[8 * p + 2] /\ Lane(2 * p, 3) = t[8 * p + 3]
      <4>1. \A l \in 0 .. 3 : Lane(2 * p, l) = t[8 * p + l]  BY <1>4, <2>1, <2>6
      <4> QED  BY <4>1
    <3> HIDE DEF Upto
    <3> QED  BY <1>5, <2>1, <2>2, <2>3, <2>4, <3>1, <3>2
  <2> QED  BY <1>1, <2>5, <2>6
<1> HIDE DEF Same
<1>9. \A p \in Nat : p \in Same  BY <1>7, <1>8, SetInduction
<1>10. SumTo((G + 1) \div 2, outer) = SumTo(K, t)
  <2>0. PICK p \in Nat : G + 1 = 2 * p \/ G = 2 * p
    <3>1. (G + 1) \div 2 \in Nat /\ (G + 1 = 2 * ((G + 1) \div 2) \/ G = 2 * ((G + 1) \div 2))
      BY <1>1
    <3> QED  BY <3>1
  <2>1. (G + 1) \div 2 = p /\ 2 * p <= G + 1 /\ Upto(p) = K  BY <1>1, <2>0
  <2>2. p \in Same  BY <1>9
  <2> HIDE DEF Upto
  <2> QED  BY <2>1, <2>2 DEF Same
<1>11. Arm!NeonAcc(a, w, K, m, n) = SumTo((G + 1) \div 2, outer)
  BY DEF Arm!NeonAcc, G, outer, Lane, Prod, Arm!SumTo, SumTo, Arm!WrapTo, WrapTo,
         Arm!PackedAt, PackedAt, Arm!BlockBytes, BlockBytes, Arm!K4, K4, Arm!NR, NR
<1> QED  BY <1>10, <1>11 DEF Dot1, t

\* fe_dotprod_k4_acc_rp over quads of A.
LEMMA DotAccExact ==
  ASSUME NEW M \in Nat, NEW K \in Nat, K % 4 = 0, NEW m \in 0 .. (M \div MR) * MR - 1,
         NEW n \in Nat, NEW a, NEW w, NEW x, NEW q,
         Reads(a, w, K, m, n, x, q)
  PROVE  Arm!DotAcc(RowQuads(a, M, K), w, K, m, n) = Dot1(x, q, K)
<1> USE DEF Reads
<1> DEFINE A == RowQuads(a, M, K)
           At(j) == (m \div MR) * MR * K + 32 * (j \div 4) + 4 * (m % MR) + (j % 4)
           t == [j \in Nat |-> A[At(j)] * PackedAt(w, K, n, j)]
           u == [k \in Nat |-> x[k] * q[k]]
<1>1. 4 * (K \div 4) = K  OBVIOUS
<1>2. ASSUME NEW k \in 0 .. K - 1 PROVE t[k] = u[k]
  <2>1. A[At(k)] = a[m * K + k]  BY RowQuadsExact, ZenonT(40)
  <2>2. k \in Nat /\ a[m * K + k] = x[k] /\ PackedAt(w, K, n, k) = q[k]  OBVIOUS
  <2> HIDE DEF A, At
  <2> QED  BY <2>1, <2>2
<1>3. Arm!DotAcc(A, w, K, m, n) = SumTo(4 * (K \div 4), t)
  BY DEF Arm!DotAcc, Arm!SumTo, SumTo, Arm!PackedAt, PackedAt, Arm!BlockBytes, BlockBytes,
         Arm!K4, K4, Arm!NR, NR, Arm!MR, MR
<1> HIDE DEF t, u
<1>4. SumTo(K, t) = SumTo(K, u)  BY <1>2, SumToSame
<1>5. Arm!DotAcc(A, w, K, m, n) = SumTo(K, u)  BY <1>1, <1>3, <1>4
<1> QED  BY <1>5 DEF Dot1, u

\* fe_i8mm_k8_acc_rp over pairs of rows and repacked weights.
LEMMA SmmlaAccExact ==
  ASSUME NEW M \in Nat, NEW N \in Nat, NEW K \in Nat, K % 8 = 0,
         NEW m \in 0 .. (M \div MR) * MR - 1, NEW n \in 0 .. (N \div NR) * NR - 1,
         NEW a, NEW w, NEW x, NEW q,
         0 .. (N \div NR) * BlockBytes(K) - 1 \subseteq DOMAIN w,
         Reads(a, w, K, m, n, x, q)
  PROVE  Arm!SmmlaAcc(RowPairs(a, M, K), RepackI8mm(w, N, K), K, m, n) = Dot1(x, q, K)
<1> USE DEF Reads
<1> DEFINE A == RowPairs(a, M, K)
           W == RepackI8mm(w, N, K)
           At(j) == (m \div MR) * MR * K + 64 * (j \div 8) + 16 * ((m % MR) \div 2)
                      + 8 * (m % 2) + (j % 8)
           Wt(j) == (n \div NR) * BlockBytes(K) + 64 * (j \div 8) + 16 * ((n % NR) \div 2)
                      + 8 * (n % 2) + (j % 8)
           t == [j \in Nat |-> A[At(j)] * W[Wt(j)]]
           u == [k \in Nat |-> x[k] * q[k]]
<1>1. 8 * (K \div 8) = K  OBVIOUS
<1>2. ASSUME NEW k \in 0 .. K - 1 PROVE t[k] = u[k]
  <2>1. A[At(k)] = a[m * K + k]  BY RowPairsExact, ZenonT(40)
  <2>2. W[Wt(k)] = PackedAt(w, K, n, k)  BY RepackExact, ZenonT(40)
  <2>3. k \in Nat /\ a[m * K + k] = x[k] /\ PackedAt(w, K, n, k) = q[k]  OBVIOUS
  <2> HIDE DEF A, At, W, Wt
  <2> QED  BY <2>1, <2>2, <2>3
<1>3. Arm!SmmlaAcc(A, W, K, m, n) = SumTo(8 * (K \div 8), t)
  BY DEF Arm!SmmlaAcc, Arm!SumTo, SumTo, Arm!BlockBytes, BlockBytes, Arm!K4, K4, Arm!NR, NR,
         Arm!MR, MR
<1> HIDE DEF t, u
<1>4. SumTo(K, t) = SumTo(K, u)  BY <1>2, SumToSame
<1>5. Arm!SmmlaAcc(A, W, K, m, n) = SumTo(K, u)  BY <1>1, <1>3, <1>4
<1> QED  BY <1>5 DEF Dot1, u

\* A packed buffer of N columns, the last block filled up.
WholeBlocks(w, N, K) == DOMAIN w = 0 .. NBlocks(N) * BlockBytes(K) - 1

\* fe_avx2_i16_row_acc over pairs of depths.
LEMMA PairsAccExact ==
  ASSUME NEW N \in Nat, NEW K \in Nat, K % 4 = 0, NEW m \in Nat, NEW n \in 0 .. N - 1,
         NEW a, NEW w, NEW x, NEW q,
         WholeBlocks(w, N, K),
         Reads(a, w, K, m, n, x, q)
  PROVE  PairsAcc(a, AllPairs(w, N, K), K, m, n) = Dot1(x, q, K)
<1> DEFINE B == BlockBytes(K)
           b == n \div NR
           c == n % NR
           W == AllPairs(w, N, K)
           blk == [e \in 0 .. NBlocks(N) - 1 |-> KPairs(w, e * B, K)]
           r(k) == 16 * (k \div 2) + 2 * c + (k % 2)
           At(k) == b * B + 16 * (k \div 2) + 2 * c + (k % 2)
           t == [k \in Nat |-> a[m * K + k] * W[At(k)]]
           u == [k \in Nat |-> x[k] * q[k]]
<1>1. 2 * (K \div 2) = K /\ 4 * K4(K) = K /\ K4(K) \in Nat /\ B = 8 * K
  <2>1. PICK g \in Nat : K = 4 * g
    <3>1. K \div 4 \in Nat /\ K = 4 * (K \div 4)  OBVIOUS
    <3> QED  BY <3>1
  <2>2. K \div 2 = 2 * g /\ (K + 3) \div 4 = g  BY <2>1
  <2> QED  BY <2>1, <2>2 DEF K4, BlockBytes, NR
<1>2. NBlocks(N) \in Nat /\ b \in Nat /\ b < NBlocks(N) /\ c \in 0 .. NR - 1 /\ NR = 8
  BY DEF NBlocks, NR
<1>3. ASSUME NEW k \in 0 .. K - 1 PROVE t[k] = u[k]
  <2>1. k \in 0 .. 4 * K4(K) - 1  BY <1>1
  <2>2. b * B \in Nat
    <3> HIDE DEF b, B
    <3> QED  BY <1>1, <1>2
  <2>3. KPairs(w, b * B, K)[r(k)] = w[b * B + 32 * (k \div 4) + 4 * c + (k % 4)]
    <3> HIDE DEF b, B, c
    <3> DEFINE base == b * B
    <3>1. c \in 0 .. NR - 1 /\ K \in Nat /\ base \in Nat  BY <1>2, <2>2
    <3> HIDE DEF base
    <3>2. KPairs(w, base, K)[16 * (k \div 2) + 2 * c + (k % 2)]
            = w[base + 32 * (k \div 4) + 4 * c + (k % 4)]
      BY <2>1, <3>1, KPairsExact
    <3> QED  BY <3>2 DEF base
  <2>4. At(k) = b * B + r(k) /\ r(k) \in 0 .. B - 1
    <3> HIDE DEF b, B, c
    <3>1. PICK h \in Nat, o \in 0 .. 1 : k = 2 * h + o
      <4>1. k \div 2 \in Nat /\ k % 2 \in 0 .. 1 /\ k = 2 * (k \div 2) + (k % 2)  OBVIOUS
      <4> QED  BY <4>1
    <3>2. k \div 2 = h /\ k % 2 = o  BY <3>1
    <3>3. 2 * h + 1 < K  BY <1>1, <3>1
    <3>4. r(k) = 16 * h + 2 * c + o /\ At(k) = b * B + 16 * h + 2 * c + o  BY <3>2
    <3> HIDE DEF At, r
    <3> QED  BY <1>1, <1>2, <2>2, <3>3, <3>4
  <2>5. At(k) \div B = b /\ At(k) % B = r(k) /\ At(k) \in 0 .. NBlocks(N) * B - 1
    <3> HIDE DEF At, r, b
    <3>1. B \in Nat \ {0}  BY <1>1
    <3> HIDE DEF B
    <3>2. r(k) \in 0 .. B - 1 /\ b \in Nat /\ NBlocks(N) \in Nat /\ b < NBlocks(N)
      BY <1>2, <2>4
    <3>3. /\ (b * B + r(k)) \div B = b /\ (b * B + r(k)) % B = r(k)
          /\ b * B + r(k) \in 0 .. NBlocks(N) * B - 1
      BY <3>1, <3>2, TileOffset, Zenon
    <3> QED  BY <2>4, <3>3
  <2>6. W[At(k)] = blk[At(k) \div B][At(k) % B]
    <3>1. At(k) \in DOMAIN w  BY <2>5 DEF WholeBlocks
    <3> HIDE DEF At
    <3> QED  BY <3>1 DEF AllPairs
  <2>7. blk[b] = KPairs(w, b * B, K)
    <3>1. b \in 0 .. NBlocks(N) - 1  BY <1>2
    <3> HIDE DEF b, B
    <3> QED  BY <3>1
  <2>8. W[At(k)] = PackedAt(w, K, n, k)
    <3> HIDE DEF At, r, blk, W
    <3> QED  BY <2>3, <2>5, <2>6, <2>7 DEF PackedAt
  <2>9. k \in Nat /\ a[m * K + k] = x[k] /\ PackedAt(w, K, n, k) = q[k]  BY DEF Reads
  <2> HIDE DEF At, W
  <2> QED  BY <2>8, <2>9
<1>4. PairsAcc(a, W, K, m, n) = SumTo(2 * (K \div 2), t)  BY DEF PairsAcc
<1> HIDE DEF t, u
<1>5. SumTo(K, t) = SumTo(K, u)  BY <1>3, SumToSame
<1>6. PairsAcc(a, W, K, m, n) = SumTo(K, u)  BY <1>1, <1>4, <1>5
<1> QED  BY <1>6 DEF Dot1, u

\* fe_avx2_row_acc: the sum of two products of bytes does not saturate.
LEMMA SignAccExact ==
  ASSUME NEW K \in Nat, K % 4 = 0, NEW m \in Nat, NEW n \in Nat, NEW a, NEW w, NEW x, NEW q,
         Bytes(x, q, K),
         Reads(a, w, K, m, n, x, q)
  PROVE  SignAcc(a, w, K, m, n) = Dot1(x, q, K)
<1> USE DEF Reads
<1> DEFINE t == [k \in Nat |-> x[k] * q[k]]
           Prod(k) == AbsOf(a[m * K + k]) * SignOf(a[m * K + k]) * PackedAt(w, K, n, k)
           outer == [p \in Nat |-> Saturate16(Prod(2 * p) + Prod(2 * p + 1))]
<1>1. ASSUME NEW k \in 0 .. K - 1 PROVE Prod(k) = t[k] /\ HalfLane(t[k])
  <2>1. x[k] \in -128 .. 127 /\ q[k] \in -127 .. 127  BY DEF Bytes
  <2>2. HalfLane(x[k] * q[k])  BY <2>1, ByteProduct, Zenon
  <2>3. AbsOf(x[k]) * SignOf(x[k]) = x[k]  BY <2>1 DEF AbsOf, SignOf
  <2>4. t[k] = x[k] * q[k]  OBVIOUS
  <2>5. Prod(k) = AbsOf(x[k]) * SignOf(x[k]) * q[k]  OBVIOUS
  <2> HIDE DEF Prod, t
  <2> QED  BY <2>2, <2>3, <2>4, <2>5
<1> HIDE DEF t, Prod
<1>2. ASSUME NEW p \in Nat, 2 * p + 1 < K
      PROVE  outer[p] = t[2 * p] + t[2 * p + 1] /\ t[2 * p] \in Int /\ t[2 * p + 1] \in Int
  <2>1. 2 * p \in 0 .. K - 1 /\ 2 * p + 1 \in 0 .. K - 1  BY <1>2
  <2>2. /\ Prod(2 * p) = t[2 * p] /\ Prod(2 * p + 1) = t[2 * p + 1]
        /\ HalfLane(t[2 * p]) /\ HalfLane(t[2 * p + 1])
    BY <1>1, <2>1
  <2>3. outer[p] = Saturate16(t[2 * p] + t[2 * p + 1])  BY <2>2
  <2> QED  BY <2>2, <2>3 DEF HalfLane, Saturate16, Clamp, Greatest, Least
<1>3. SignAcc(a, w, K, m, n) = SumTo(2 * (K \div 4), outer)  BY DEF SignAcc, Prod
<1> HIDE DEF outer
<1>4. \A k \in 0 .. K : SumTo(k, t) \in Int
  <2>1. \A k \in 0 .. K - 1 : t[k] \in Int  BY <1>1 DEF HalfLane
  <2> QED  BY <2>1, SumToInt
<1> DEFINE Same == {p \in Nat : 2 * p <= K => SumTo(p, outer) = SumTo(2 * p, t)}
<1>5. 0 \in Same
  <2>1. SumTo(0, outer) = 0 /\ SumTo(0, t) = 0  BY SumToStep
  <2> QED  BY <2>1
<1>6. ASSUME NEW p \in Nat, p \in Same PROVE p + 1 \in Same
  <2> SUFFICES ASSUME 2 * (p + 1) <= K PROVE SumTo(p + 1, outer) = SumTo(2 * (p + 1), t)
    OBVIOUS
  <2>1. SumTo(p, outer) = SumTo(2 * p, t) /\ SumTo(2 * p, t) \in Int  BY <1>4, <1>6
  <2>2. outer[p] = t[2 * p] + t[2 * p + 1] /\ t[2 * p] \in Int /\ t[2 * p + 1] \in Int  BY <1>2
  <2>3. SumTo(p + 1, outer) = SumTo(p, outer) + outer[p]  BY SumToStep
  <2>4. SumTo(2 * p + 1, t) = SumTo(2 * p, t) + t[2 * p]  BY SumToStep
  <2>5. SumTo((2 * p + 1) + 1, t) = SumTo(2 * p + 1, t) + t[2 * p + 1]  BY SumToStep
  <2>6. 2 * (p + 1) = (2 * p + 1) + 1  OBVIOUS
  <2> QED  BY <2>1, <2>2, <2>3, <2>4, <2>5, <2>6
<1> HIDE DEF Same
<1>7. \A p \in Nat : p \in Same  BY <1>5, <1>6, SetInduction
<1>8. SumTo(2 * (K \div 4), outer) = SumTo(K, t)
  <2>1. 2 * (K \div 4) \in Nat /\ 2 * (2 * (K \div 4)) = K  OBVIOUS
  <2>2. 2 * (K \div 4) \in Same  BY <1>7, <2>1
  <2> QED  BY <2>1, <2>2 DEF Same
<1> QED  BY <1>3, <1>8 DEF Dot1, t

\* vpdpbusd: 128 times the weights comes off again what XOR 128 put on.
LEMMA VnniAccExact ==
  ASSUME NEW K \in Nat, K % 4 = 0, NEW m \in Nat, NEW n \in Nat, NEW a, NEW w, NEW x, NEW q,
         Bytes(x, q, K),
         ReadsUnsigned(a, w, K, m, n, x, q)
  PROVE  VnniAcc(a, w, K, m, n) = Dot1(x, q, K)
<1> USE DEF ReadsUnsigned
<1> DEFINE t == [k \in Nat |-> x[k] * q[k]]
           u == [k \in Nat |-> 128 * PackedAt(w, K, n, k)]
           v == [k \in Nat |-> a[m * K + k] * PackedAt(w, K, n, k)]
<1>1. 4 * (K \div 4) = K /\ 4 * K4(K) = K  BY DEF K4
<1>2. ASSUME NEW k \in 0 .. K - 1 PROVE t[k] \in Int /\ u[k] \in Int /\ v[k] = t[k] + 1 * u[k]
  <2>1. x[k] \in -128 .. 127 /\ q[k] \in -127 .. 127  BY DEF Bytes
  <2>2. k \in Nat /\ x[k] \in Int /\ q[k] \in Int  BY <2>1
  <2>3. t[k] = x[k] * q[k] /\ u[k] = 128 * q[k] /\ v[k] = (x[k] + 128) * q[k]  BY <2>2
  <2> HIDE DEF t, u, v
  <2>4. (x[k] + 128) * q[k] = x[k] * q[k] + 128 * q[k] /\ x[k] * q[k] \in Int  BY <2>2
  <2> QED  BY <2>2, <2>3, <2>4
<1>3. VnniAcc(a, w, K, m, n) = SumTo(4 * (K \div 4), v) - SumTo(4 * K4(K), u)
  BY DEF VnniAcc, WSum
<1> HIDE DEF t, u, v
<1>4. SumTo(K, v) = SumTo(K, t) + 1 * SumTo(K, u)
  <2> DEFINE c == 1
  <2>1. c \in Int  OBVIOUS
  <2>2. \A k \in 0 .. K - 1 : t[k] \in Int /\ u[k] \in Int /\ v[k] = t[k] + c * u[k]  BY <1>2
  <2> HIDE DEF c
  <2>3. SumTo(K, v) = SumTo(K, t) + c * SumTo(K, u)  BY <2>1, <2>2, SumToLinear
  <2> QED  BY <2>3 DEF c
<1>5. SumTo(K, t) \in Int /\ SumTo(K, u) \in Int
  <2>1. \A k \in 0 .. K - 1 : t[k] \in Int /\ u[k] \in Int  BY <1>2
  <2>2. K \in 0 .. K  OBVIOUS
  <2> QED  BY <2>1, <2>2, SumToInt
<1>6. VnniAcc(a, w, K, m, n) = SumTo(K, t)  BY <1>1, <1>3, <1>4, <1>5
<1> QED  BY <1>6 DEF Dot1, t

-----------------------------------------------------------------------------
(* A layer's operands *)

\* A call with a quantised layer.
Layer == call \in Calls /\ call.family \in {"gemm", "gru"}

RowOf(which, m) == [k \in Nat |-> Code(call.data, which, m, k)]
Packed(which) == PackW(Trained(call, which), call.N, call.K)

\* The codes of row m times the weight codes of column n.
Plain(which, m, n) == Dot1(RowOf(which, m), Quantised(which)[n], call.K)

\* Shapes and data of a layer, from LayersAssumption.
LEMMA LayerShapes ==
  ASSUME Layer
  PROVE  /\ call.M \in Nat /\ call.N \in Nat /\ call.K \in Nat \ {0} /\ call.K % 4 = 0
         /\ call.zp \in 0 .. 255
         /\ call.family = "gemm" => call.op \in Ops
         /\ call.family = "gru" => call.N = 3 * call.K /\ call.zpH \in 0 .. 255
         /\ \A which \in 0 .. 1, k \in 0 .. call.K - 1 :
              /\ \A n \in 0 .. call.N - 1 : Weight(call.data, which, n, k) \in Int
              /\ \A m \in 0 .. call.M - 1 : Code(call.data, which, m, k) \in -128 .. 127
BY LayersAssumption DEF Layer

\* Code by code, the packed weights of a layer are its quantised weights.
LEMMA QuantisedCodes ==
  ASSUME Layer, NEW which \in 0 .. 1, NEW n \in 0 .. call.N - 1, NEW k \in 0 .. call.K - 1
  PROVE  /\ PackedAt(Packed(which), call.K, n, k) = Quantised(which)[n][k]
         /\ Quantised(which)[n][k] \in -127 .. 127
<1> DEFINE N == call.N
           K == call.K
           w == Trained(call, which)
           top == [i \in 0 .. N - 1 |-> MaxTo(K, [j \in Nat |-> AbsOf(w[i][j])])]
<1>1. N \in Nat /\ K \in Nat /\ K % 4 = 0  BY LayerShapes
<1>2. Quantised(which)[n][k] = WeightCode(w[n][k], top[n])  BY DEF Quantised
<1>3. \A j \in 0 .. K - 1 : w[n][j] \in Int  BY LayerShapes DEF Trained
<1>4. top[n] \in Nat
  <2> DEFINE f == [j \in Nat |-> AbsOf(w[n][j])]
  <2>1. top[n] = MaxTo(K, f)  OBVIOUS
  <2>2. \A j \in 0 .. K - 1 : f[j] \in Int  BY <1>3 DEF AbsOf
  <2> HIDE DEF f, top, K
  <2> QED  BY <1>1, <2>1, <2>2, MaxToBounds
<1>5. RowMax(w, N, K) = top  BY DEF RowMax
<1>6. k \in 0 .. 4 * K4(K) - 1
  <2>1. 4 * K4(K) = K  BY <1>1 DEF K4
  <2> QED  BY <2>1
<1>7. w[n][k] \in Int  BY <1>3
<1> HIDE DEF N, K, w, top
<1>8. PackedAt(PackW(w, N, K), K, n, k)
        = IF n < N /\ k < K THEN WeightCode(w[n][k], RowMax(w, N, K)[n]) ELSE 0
  <2>1. n \in 0 .. 8 * NBlocks(N) - 1
    <3>1. n \in 0 .. N - 1  BY DEF N
    <3>2. NBlocks(N) \in Nat /\ N <= 8 * NBlocks(N)  BY <1>1 DEF NBlocks, NR
    <3> QED  BY <1>1, <3>1, <3>2
  <2> QED  BY <1>1, <1>6, <2>1, PackedWeights
<1>9. PackedAt(PackW(w, N, K), K, n, k) = WeightCode(w[n][k], top[n])
  <2>1. n < N /\ k < K  BY <1>1 DEF N, K
  <2> QED  BY <1>5, <1>8, <2>1
<1>10. WeightCode(w[n][k], top[n]) \in -127 .. 127  BY <1>4, <1>7, WeightCodeByte
<1> QED  BY <1>2, <1>9, <1>10 DEF Packed, w, N, K

\* What an accumulator reads of a layer's operands.
LEMMA LayerOperands ==
  ASSUME Layer, NEW which \in 0 .. 1, NEW m \in 0 .. call.M - 1, NEW n \in 0 .. call.N - 1
  PROVE  /\ Bytes(RowOf(which, m), Quantised(which)[n], call.K)
         /\ \A k \in 0 .. call.K - 1 :
              /\ Codes(which)[m * call.K + k] = RowOf(which, m)[k]
              /\ Xor128(Codes(which))[m * call.K + k] = RowOf(which, m)[k] + 128
              /\ PackedAt(Packed(which), call.K, n, k) = Quantised(which)[n][k]
<1> DEFINE M == call.M
           K == call.K
<1>1. M \in Nat /\ K \in Nat  BY LayerShapes
<1>2. \A k \in 0 .. K - 1 : RowOf(which, m)[k] \in -128 .. 127  BY LayerShapes DEF RowOf
<1>3. \A k \in 0 .. K - 1 :
        /\ PackedAt(Packed(which), K, n, k) = Quantised(which)[n][k]
        /\ Quantised(which)[n][k] \in -127 .. 127
  BY QuantisedCodes
<1>4. ASSUME NEW k \in 0 .. K - 1
      PROVE  /\ Codes(which)[m * K + k] = RowOf(which, m)[k]
             /\ Xor128(Codes(which))[m * K + k] = RowOf(which, m)[k] + 128
  <2>1. m \in Nat /\ m < M /\ K \in Nat \ {0}  BY <1>1
  <2>2. (m * K + k) \div K = m /\ (m * K + k) % K = k /\ m * K + k \in 0 .. M * K - 1
    <3> HIDE DEF M, K
    <3> QED  BY <1>1, <2>1, TileOffset
  <2> DEFINE i == m * K + k
  <2>3. Codes(which)[i] = Code(call.data, which, i \div K, i % K) /\ i \in DOMAIN Codes(which)
    BY <2>2 DEF Codes
  <2> HIDE DEF i
  <2>4. Xor128(Codes(which))[i] = Codes(which)[i] + 128  BY <2>3 DEF Xor128
  <2>5. Codes(which)[i] = Code(call.data, which, m, k)  BY <2>2, <2>3 DEF i
  <2>6. RowOf(which, m)[k] = Code(call.data, which, m, k)  BY <1>1 DEF RowOf
  <2> QED  BY <2>4, <2>5, <2>6 DEF i
<1> QED  BY <1>2, <1>3, <1>4 DEF Bytes

\* The sum of a packed column is the sum of its weight codes.
LEMMA ColumnSums ==
  ASSUME Layer, NEW which \in 0 .. 1, NEW n \in 0 .. call.N - 1
  PROVE  /\ RowSums(Packed(which), call.N, call.K)[n] = SumTo(call.K, Quantised(which)[n])
         /\ SumTo(call.K, Quantised(which)[n]) \in Int
<1> DEFINE K == call.K
           q == Quantised(which)[n]
           t == [k \in Nat |-> PackedAt(Packed(which), K, n, k)]
<1>1. K \in Nat /\ K % 4 = 0  BY LayerShapes
<1>2. 4 * K4(K) = K  BY <1>1 DEF K4
<1>3. RowSums(Packed(which), call.N, K)[n] = SumTo(4 * K4(K), t)  BY DEF RowSums
<1>4. \A k \in 0 .. K - 1 : t[k] = q[k] /\ q[k] \in -127 .. 127
  <2>1. \A k \in 0 .. K - 1 : k \in Nat  BY <1>1
  <2>2. \A k \in Nat : t[k] = PackedAt(Packed(which), K, n, k)  OBVIOUS
  <2> QED  BY <2>1, <2>2, QuantisedCodes
<1> HIDE DEF K, q, t
<1>5. SumTo(K, t) = SumTo(K, q)  BY <1>1, <1>4, SumToSame
<1>6. SumTo(K, q) \in Int
  <2>1. \A k \in 0 .. K - 1 : q[k] \in Int  BY <1>4
  <2>2. K \in 0 .. K  BY <1>1
  <2> QED  BY <1>1, <2>1, <2>2, SumToInt
<1> QED  BY <1>2, <1>3, <1>5, <1>6 DEF K, q

\* The zero point is linear: correcting each code by 128 - zp adds 128 - zp times
\* the column's sum.
LEMMA ZeroPoint ==
  ASSUME Layer, NEW which \in 0 .. 1, NEW m \in 0 .. call.M - 1, NEW n \in 0 .. call.N - 1,
         NEW zp \in 0 .. 255
  PROVE  /\ DotOf(which, zp, m, Quantised(which)[n])
              = Plain(which, m, n) + (128 - zp) * SumTo(call.K, Quantised(which)[n])
         /\ Plain(which, m, n) \in Int
<1> DEFINE K == call.K
           x == RowOf(which, m)
           q == Quantised(which)[n]
           c == 128 - zp
           t == [k \in Nat |-> x[k] * q[k]]
           v == [k \in Nat |-> (Code(call.data, which, m, k) + 128 - zp) * q[k]]
<1>1. K \in Nat /\ c \in Int  BY LayerShapes
<1>2. Bytes(x, q, K)  BY LayerOperands
<1>3. \A k \in Nat : Code(call.data, which, m, k) = x[k]  BY DEF RowOf
<1> HIDE DEF K, x, q
<1>4. ASSUME NEW k \in 0 .. K - 1 PROVE t[k] \in Int /\ q[k] \in Int /\ v[k] = t[k] + c * q[k]
  <2>1. x[k] \in -128 .. 127 /\ q[k] \in -127 .. 127  BY <1>2 DEF Bytes
  <2>2. k \in Nat /\ x[k] \in Int /\ q[k] \in Int  BY <1>1, <2>1
  <2>3. t[k] = x[k] * q[k] /\ v[k] = (x[k] + 128 - zp) * q[k]  BY <1>3, <2>2
  <2> HIDE DEF t, v
  <2>4. (x[k] + 128 - zp) * q[k] = x[k] * q[k] + (128 - zp) * q[k] /\ x[k] * q[k] \in Int
    BY <2>2
  <2> QED  BY <2>2, <2>3, <2>4
<1>5. DotOf(which, zp, m, q) = SumTo(K, v)  BY DEF DotOf, K
<1>6. Plain(which, m, n) = SumTo(K, t)  BY DEF Plain, Dot1, x, q, K
<1> HIDE DEF t, v, c
<1>7. SumTo(K, v) = SumTo(K, t) + c * SumTo(K, q)  BY <1>1, <1>4, SumToLinear
<1>8. SumTo(K, t) \in Int
  <2>1. \A k \in 0 .. K - 1 : t[k] \in Int  BY <1>4
  <2>2. K \in 0 .. K  BY <1>1
  <2> QED  BY <1>1, <2>1, <2>2, SumToInt
<1> QED  BY <1>5, <1>6, <1>7, <1>8 DEF K, q, c

\* So folding the correction into the bias loses nothing.
LEMMA BiasFolded ==
  ASSUME Layer, NEW which \in 0 .. 1, NEW m \in 0 .. call.M - 1, NEW n \in 0 .. call.N - 1,
         NEW zp \in 0 .. 255, NEW bias, DOMAIN bias = 0 .. call.N - 1, bias[n] \in Int
  PROVE  LET rs == RowSums(Packed(which), call.N, call.K) IN
         BuildBiasEff(bias, rs, zp)[n] + Scale(n) * Plain(which, m, n)
           = bias[n] + Scale(n) * DotOf(which, zp, m, Quantised(which)[n])
<1> DEFINE rs == RowSums(Packed(which), call.N, call.K)
           p == Plain(which, m, n)
           s == SumTo(call.K, Quantised(which)[n])
           d == DotOf(which, zp, m, Quantised(which)[n])
           e == Scale(n)
           b == bias[n]
<1>1. d = p + (128 - zp) * s /\ p \in Int  BY ZeroPoint
<1>2. rs[n] = s /\ s \in Int  BY ColumnSums
<1>3. e \in Int  BY DEF Scale
<1>4. BuildBiasEff(bias, rs, zp)[n] = IF zp = 128 THEN b ELSE b + e * (128 - zp) * rs[n]
  BY DEF BuildBiasEff
<1>5. b \in Int  OBVIOUS
<1> HIDE DEF rs, p, s, d, e, b
<1>6. e * (p + (128 - zp) * s) = e * p + e * (128 - zp) * s
      /\ e * p \in Int /\ e * (128 - zp) * s \in Int
  <2>1. (128 - zp) * s \in Int /\ e * ((128 - zp) * s) = e * (128 - zp) * s  BY <1>2, <1>3
  <2> QED  BY <1>1, <1>3, <2>1
<1>7. CASE zp = 128
  <2>1. (128 - zp) * s = 0  BY <1>2, <1>7
  <2> QED  BY <1>1, <1>4, <1>7, <2>1 DEF rs, p, d, e, b
<1>8. CASE zp # 128
  <2>1. BuildBiasEff(bias, rs, zp)[n] = b + e * (128 - zp) * s  BY <1>2, <1>4, <1>8
  <2>2. e * d = e * p + e * (128 - zp) * s  BY <1>1, <1>6
  <2>3. BuildBiasEff(bias, rs, zp)[n] + e * p = b + e * d  BY <1>5, <1>6, <2>1, <2>2
  <2> QED  BY <2>3 DEF rs, p, d, e, b
<1> QED  BY <1>7, <1>8

\* The layout its kernels read survives loading: only an empty layer has no bytes.
LEMMA PackedNotEmpty ==
  ASSUME Layer, NEW which \in 0 .. 1, call.N > 0
  PROVE  /\ Packed(which) # <<>> /\ WholeBlocks(Packed(which), call.N, call.K)
         /\ 0 .. (call.N \div NR) * BlockBytes(call.K) - 1 \subseteq DOMAIN Packed(which)
<1> DEFINE N == call.N
           K == call.K
           B == BlockBytes(K)
<1>1. N \in Nat \ {0} /\ K \in Nat \ {0}  BY LayerShapes
<1>2. B \in Nat \ {0}  BY <1>1 DEF BlockBytes, K4, NR
<1>3. NBlocks(N) \in Nat \ {0} /\ N \div NR \in Nat /\ N \div NR <= NBlocks(N)
  BY <1>1 DEF NBlocks, NR
<1>4. DOMAIN Packed(which) = 0 .. (NBlocks(N) * B) - 1  BY DEF Packed, PackW
<1> HIDE DEF N, K, B
<1>5. 1 * B <= NBlocks(N) * B /\ (N \div NR) * B <= NBlocks(N) * B
      /\ NBlocks(N) * B \in Nat /\ (N \div NR) * B \in Nat
  BY <1>2, <1>3, ProductMonotone
<1>6. 0 \in DOMAIN Packed(which)  BY <1>2, <1>4, <1>5
<1>7. Packed(which) # <<>>  BY <1>6
<1>8. 0 .. (N \div NR) * B - 1 \subseteq DOMAIN Packed(which)  BY <1>4, <1>5
<1> QED  BY <1>4, <1>7, <1>8 DEF WholeBlocks, N, K, B

-----------------------------------------------------------------------------
(* Cells and the peak of an epilogue *)

\* top[m] is the maximum of row m of the M x N matrix t.
RowTops(M, N, t, top) ==
  /\ M \in Nat /\ N \in Nat
  /\ \A m \in 0 .. M - 1 : top[m] = MaxTo(N, t[m]) /\ \A n \in 0 .. N - 1 : t[m][n] \in Nat

\* A maximum of maxima is that of the whole matrix.
LEMMA MaxOfMax ==
  ASSUME NEW M, NEW N, NEW t, NEW top, RowTops(M, N, t, top)
  PROVE  /\ MaxTo(M, top) \in Nat
         /\ \A m \in 0 .. M - 1, n \in 0 .. N - 1 : t[m][n] <= MaxTo(M, top)
         /\ \/ MaxTo(M, top) = 0
            \/ \E m \in 0 .. M - 1, n \in 0 .. N - 1 : MaxTo(M, top) = t[m][n]
<1>0. /\ M \in Nat /\ N \in Nat
      /\ \A m \in 0 .. M - 1 : top[m] = MaxTo(N, t[m]) /\ \A n \in 0 .. N - 1 : t[m][n] \in Nat
  BY DEF RowTops
<1>1. ASSUME NEW m \in 0 .. M - 1
      PROVE  /\ top[m] \in Nat /\ \A n \in 0 .. N - 1 : t[m][n] <= top[m]
             /\ top[m] = 0 \/ \E n \in 0 .. N - 1 : top[m] = t[m][n]
  <2> DEFINE u == t[m]
  <2>1. top[m] = MaxTo(N, u) /\ \A n \in 0 .. N - 1 : u[n] \in Int  BY <1>0
  <2> HIDE DEF u
  <2>2. /\ top[m] \in Nat /\ \A n \in 0 .. N - 1 : u[n] <= top[m]
        /\ top[m] = 0 \/ \E n \in 0 .. N - 1 : top[m] = u[n]
    BY <1>0, <2>1, MaxToBounds
  <2> QED  BY <2>2 DEF u
<1>2. \A m \in 0 .. M - 1 : top[m] \in Int  BY <1>1
<1>3. /\ MaxTo(M, top) \in Nat /\ \A m \in 0 .. M - 1 : top[m] <= MaxTo(M, top)
      /\ MaxTo(M, top) = 0 \/ \E m \in 0 .. M - 1 : MaxTo(M, top) = top[m]
  BY <1>0, <1>2, MaxToBounds
<1>4. ASSUME NEW m \in 0 .. M - 1, NEW n \in 0 .. N - 1 PROVE t[m][n] <= MaxTo(M, top)
  BY <1>0, <1>1, <1>3
<1> QED  BY <1>1, <1>3, <1>4

\* What a call holds in its bias while it runs.
GemmBias == IF call.op \in {"int32", "k20"} THEN <<>>
            ELSE BuildBiasEff(LayerBias, SumsOf(Packed(0)), call.zp)

\* The epilogue of an exact accumulator is the layer's cell.
LEMMA CellExact ==
  ASSUME Layer, call.family = "gemm", mem.bias = GemmBias,
         NEW m \in 0 .. call.M - 1, NEW n \in 0 .. call.N - 1
  PROVE  /\ Epilogue(n, Plain(0, m, n), Start(m, n)) = GemmCell(m, n, Quantised(0)[n])
         /\ call.op = "track" => GemmCell(m, n, Quantised(0)[n]) \in Int
<1> DEFINE q == Quantised(0)[n]
           b == IF call.bias THEN Bias(n) ELSE 0
           v == b + Scale(n) * DotOf(0, call.zp, m, q)
<1>1. call.op \in Ops /\ call.zp \in 0 .. 255 /\ call.N \in Nat /\ 0 \in 0 .. 1 /\ 128 \in 0 .. 255
  BY LayerShapes
<1>2. b \in Int /\ Scale(n) \in Int  BY DEF Bias, Scale
<1>3. /\ DotOf(0, call.zp, m, q) = Plain(0, m, n) + (128 - call.zp) * SumTo(call.K, q)
      /\ DotOf(0, 128, m, q) = Plain(0, m, n) + (128 - 128) * SumTo(call.K, q)
      /\ Plain(0, m, n) \in Int
  <2>1. \A zp \in 0 .. 255 :
          /\ DotOf(0, zp, m, Quantised(0)[n])
               = Plain(0, m, n) + (128 - zp) * SumTo(call.K, Quantised(0)[n])
          /\ Plain(0, m, n) \in Int
    BY <1>1, ZeroPoint, Zenon
  <2> QED  BY <1>1, <2>1
<1>4. SumTo(call.K, q) \in Int  BY <1>1, ColumnSums
<1>5. DotOf(0, 128, m, q) = Plain(0, m, n) /\ DotOf(0, call.zp, m, q) \in Int
  <2> HIDE DEF q
  <2> QED  BY <1>1, <1>3, <1>4
<1>6. v \in Int
  <2> HIDE DEF b, q
  <2> QED  BY <1>2, <1>5
<1>7. CASE call.op \in {"int32", "k20"}
  <2>1. Epilogue(n, Plain(0, m, n), Start(m, n)) = Plain(0, m, n)  BY <1>7 DEF Epilogue
  <2>2. GemmCell(m, n, q) = DotOf(0, 128, m, q)  BY <1>7 DEF GemmCell
  <2> QED  BY <1>5, <1>7, <2>1, <2>2
<1>8. CASE call.op \notin {"int32", "k20"}
  <2>1. SumsOf(Packed(0)) = RowSums(Packed(0), call.N, call.K)
    <3>1. Packed(0) # <<>>  BY <1>1, PackedNotEmpty
    <3> QED  BY <3>1 DEF SumsOf
  <2>2. DOMAIN LayerBias = 0 .. call.N - 1 /\ LayerBias[n] = b  BY DEF LayerBias
  <2>3. mem.bias[n] + Scale(n) * Plain(0, m, n) = LayerBias[n] + Scale(n) * DotOf(0, call.zp, m, q)
    <3>1. mem.bias = BuildBiasEff(LayerBias, RowSums(Packed(0), call.N, call.K), call.zp)
      BY <1>8, <2>1 DEF GemmBias
    <3>2. LayerBias[n] \in Int  BY <1>2, <2>2
    <3> DEFINE bias == LayerBias
               zp == call.zp
    <3>3. zp \in 0 .. 255 /\ DOMAIN bias = 0 .. call.N - 1 /\ bias[n] \in Int
      BY <1>1, <2>2, <3>2
    <3> HIDE DEF bias, zp
    <3>4. BuildBiasEff(bias, RowSums(Packed(0), call.N, call.K), zp)[n] + Scale(n) * Plain(0, m, n)
            = bias[n] + Scale(n) * DotOf(0, zp, m, Quantised(0)[n])
      BY <1>1, <3>3, BiasFolded, ZenonT(40)
    <3> QED  BY <3>1, <3>4 DEF bias, zp
  <2>4. Dequant(n, Plain(0, m, n)) = v  BY <2>2, <2>3 DEF Dequant
  <2> HIDE DEF v
  <2>5. GemmCell(m, n, q) = CASE call.op \in {"int32", "k20"} -> DotOf(0, 128, m, q)
                              [] call.op = "fused" -> IF call.silu THEN Silu(v) ELSE v
                              [] call.op = "acc"   -> Start(m, n) + v
                              [] call.op = "track" -> v
    BY DEF GemmCell, v
  <2>6. CASE call.op = "fused"
    BY <2>4, <2>5, <2>6 DEF Epilogue, ToFused
  <2>7. CASE call.op = "acc"
    BY <2>4, <2>5, <2>7 DEF Epilogue, ToAcc
  <2>8. CASE call.op = "track"
    BY <1>6, <2>4, <2>5, <2>8 DEF Epilogue
  <2> QED  BY <1>1, <1>8, <2>6, <2>7, <2>8 DEF Ops
<1> QED  BY <1>7, <1>8

-----------------------------------------------------------------------------
(* Cells and the peak *)

\* C is the layer's product where cells have been stored and what it was before
\* elsewhere; the peak of a tracking call is that of the stored cells.
PeakOf(C, peak, stored) ==
  /\ peak \in Nat
  /\ \A m \in 0 .. call.M - 1, n \in 0 .. call.N - 1 :
       <<m, n>> \in stored => AbsOf(C[m][n]) \in Nat /\ AbsOf(C[m][n]) <= peak
  /\ \/ peak = 0
     \/ \E m \in 0 .. call.M - 1, n \in 0 .. call.N - 1 :
          <<m, n>> \in stored /\ peak = AbsOf(C[m][n])

CellsIn(C, peak, stored) ==
  /\ DOMAIN C = 0 .. call.M - 1 /\ \A m \in 0 .. call.M - 1 : DOMAIN C[m] = 0 .. call.N - 1
  /\ \A m \in 0 .. call.M - 1, n \in 0 .. call.N - 1 :
       C[m][n] = IF <<m, n>> \in stored THEN GemmCell(m, n, Quantised(0)[n]) ELSE Start(m, n)
  /\ call.op = "track" => PeakOf(C, peak, stored)

\* Another tile stored: the peak of both is the greater of the two.
LEMMA PeakGrows ==
  ASSUME NEW B, NEW C, NEW p, NEW q, NEW stored, NEW tile,
         PeakOf(B, p, stored), PeakOf(C, q, tile),
         \A m \in 0 .. call.M - 1, n \in 0 .. call.N - 1 :
           <<m, n>> \in stored => C[m][n] = B[m][n]
  PROVE  PeakOf(C, Greatest(p, q), stored \cup tile)
<1> DEFINE Ms == 0 .. call.M - 1
           Ns == 0 .. call.N - 1
           top == Greatest(p, q)
<1>1. /\ p \in Nat /\ q \in Nat /\ top \in Nat /\ p <= top /\ q <= top
      /\ top = p \/ top = q
  BY DEF PeakOf, Greatest
<1>2. ASSUME NEW m \in Ms, NEW n \in Ns, <<m, n>> \in stored \cup tile
      PROVE  AbsOf(C[m][n]) \in Nat /\ AbsOf(C[m][n]) <= top
  <2> HIDE DEF top
  <2>1. CASE <<m, n>> \in stored
    <3>1. AbsOf(B[m][n]) \in Nat /\ AbsOf(B[m][n]) <= p  BY <2>1 DEF PeakOf
    <3>2. C[m][n] = B[m][n]  BY <2>1
    <3> QED  BY <1>1, <3>1, <3>2
  <2>2. CASE <<m, n>> \in tile
    <3>1. AbsOf(C[m][n]) \in Nat /\ AbsOf(C[m][n]) <= q  BY <2>2 DEF PeakOf
    <3> QED  BY <1>1, <3>1
  <2> QED  BY <1>2, <2>1, <2>2
<1>3. top = 0 \/ \E m \in Ms, n \in Ns : <<m, n>> \in stored \cup tile /\ top = AbsOf(C[m][n])
  <2> HIDE DEF top
  <2>1. p = 0 \/ \E m \in Ms, n \in Ns : <<m, n>> \in stored /\ p = AbsOf(C[m][n])
    BY DEF PeakOf
  <2>2. q = 0 \/ \E m \in Ms, n \in Ns : <<m, n>> \in tile /\ q = AbsOf(C[m][n])
    BY DEF PeakOf
  <2> QED  BY <1>1, <2>1, <2>2
<1> HIDE DEF top
<1>4. PeakOf(C, top, stored \cup tile)
  BY <1>1, <1>2, <1>3 DEF PeakOf
<1> QED  BY <1>4 DEF top

Fields == {"A", "W", "bias", "C", "peak"}

\* next is mem but for C and its peak.
OnlyStores(next) ==
  DOMAIN next = DOMAIN mem /\ \A f \in DOMAIN mem : f \notin {"C", "peak"} => next[f] = mem[f]

\* A tile of cells of C not stored yet, with exact accumulators.
NewTile(rows, cols, acc, stored) ==
  /\ rows \subseteq 0 .. call.M - 1 /\ cols \subseteq 0 .. call.N - 1
  /\ \A m \in rows, n \in cols : acc[m][n] = Plain(0, m, n) /\ <<m, n>> \notin stored

\* What a tile stores: its own cells, once.
LEMMA StoreKeeps ==
  ASSUME Layer, call.family = "gemm", mem.bias = GemmBias, Fields \subseteq DOMAIN mem,
         NEW stored, CellsIn(mem.C, mem.peak, stored),
         NEW rows, NEW cols, NEW acc, NewTile(rows, cols, acc, stored),
         NEW next, next = Stored(rows, cols, acc)
  PROVE  /\ CellsIn(next.C, next.peak, stored \cup (rows \X cols))
         /\ OnlyStores(next)
<1>0. /\ rows \subseteq 0 .. call.M - 1 /\ cols \subseteq 0 .. call.N - 1
      /\ \A m \in rows, n \in cols : acc[m][n] = Plain(0, m, n) /\ <<m, n>> \notin stored
  BY DEF NewTile
<1> USE <1>0
<1> DEFINE Ms == 0 .. call.M - 1
           Ns == 0 .. call.N - 1
           new == [m \in rows |-> [n \in cols |-> Epilogue(n, acc[m][n], mem.C[m][n])]]
           t == [m \in Nat |-> [n \in Nat |->
                   IF m \in rows /\ n \in cols THEN AbsOf(new[m][n]) ELSE 0]]
           top == [m \in Nat |-> IF m \in rows
                     THEN MaxTo(call.N, [n \in Nat |-> IF n \in cols THEN AbsOf(new[m][n]) ELSE 0])
                     ELSE 0]
           C == [m \in DOMAIN mem.C |-> IF m \in rows
                   THEN [n \in DOMAIN mem.C[m] |-> IF n \in cols THEN new[m][n] ELSE mem.C[m][n]]
                   ELSE mem.C[m]]
           peak == IF call.op = "track" THEN Greatest(mem.peak, MaxTo(call.M, top)) ELSE mem.peak
           cell(m, n) == GemmCell(m, n, Quantised(0)[n])
<1>1. call.M \in Nat /\ call.N \in Nat  BY LayerShapes
<1>2. next = [mem EXCEPT !.C = C, !.peak = peak]  BY DEF Stored
<1>3. next.C = C /\ next.peak = peak /\ OnlyStores(next)
  <2> HIDE DEF C, peak
  <2> QED  BY <1>2 DEF Fields, OnlyStores
<1>4. ASSUME NEW m \in rows, NEW n \in cols
      PROVE  new[m][n] = cell(m, n) /\ (call.op = "track" => cell(m, n) \in Int)
  <2>1. m \in Ms /\ n \in Ns  OBVIOUS
  <2>2. mem.C[m][n] = Start(m, n) /\ acc[m][n] = Plain(0, m, n)  BY <2>1 DEF CellsIn
  <2>3. new[m][n] = Epilogue(n, Plain(0, m, n), Start(m, n))  BY <2>2
  <2> QED  BY <2>1, <2>3, CellExact
<1>5. DOMAIN mem.C = Ms /\ \A m \in Ms : DOMAIN mem.C[m] = Ns  BY DEF CellsIn
<1>6. DOMAIN C = Ms /\ \A m \in Ms : DOMAIN C[m] = Ns  BY <1>5
<1>7. \A m \in Ms, n \in Ns :
        C[m][n] = IF m \in rows /\ n \in cols THEN cell(m, n) ELSE mem.C[m][n]
  BY <1>4, <1>5
<1>8. \A m \in Ms, n \in Ns :
        /\ <<m, n>> \in stored \cup (rows \X cols)
             <=> <<m, n>> \in stored \/ (m \in rows /\ n \in cols)
        /\ m \in rows /\ n \in cols => <<m, n>> \notin stored
        /\ mem.C[m][n] = IF <<m, n>> \in stored THEN cell(m, n) ELSE Start(m, n)
  BY Zenon DEF CellsIn
<1>9. ASSUME call.op = "track" PROVE PeakOf(C, peak, stored \cup (rows \X cols))
  <2> DEFINE p == MaxTo(call.M, top)
  <2>1. \A m \in rows, n \in cols : AbsOf(new[m][n]) \in Nat  BY <1>4, <1>9 DEF AbsOf
  <2>2. \A m \in Ms, n \in Ns :
          t[m][n] = IF m \in rows /\ n \in cols THEN AbsOf(new[m][n]) ELSE 0
    <3> HIDE DEF new
    <3> QED  BY <1>1
  <2>3. \A m \in Ms, n \in Ns : t[m][n] \in Nat  BY <2>1, <2>2
  <2>4. ASSUME NEW m \in Ms PROVE top[m] = MaxTo(call.N, t[m])
    <3>1. CASE m \in rows
      <4>1. t[m] = [n \in Nat |-> IF n \in cols THEN AbsOf(new[m][n]) ELSE 0]
        <5> HIDE DEF new
        <5> QED  BY <1>1, <3>1
      <4>2. top[m] = MaxTo(call.N, [n \in Nat |-> IF n \in cols THEN AbsOf(new[m][n]) ELSE 0])
        <5> HIDE DEF new
        <5> QED  BY <1>1, <3>1
      <4> QED  BY <4>1, <4>2
    <3>2. CASE m \notin rows
      <4> DEFINE z == t[m]
      <4>1. top[m] = 0 /\ \A n \in Ns : z[n] = 0  BY <1>1, <2>2, <3>2
      <4> HIDE DEF z
      <4>2. MaxTo(call.N, z) = 0
        <5>1. \A n \in 0 .. call.N - 1 : z[n] \in Int  BY <4>1
        <5> QED  BY <1>1, <4>1, <5>1, MaxToBounds
      <4> QED  BY <4>1, <4>2 DEF z
    <3> QED  BY <3>1, <3>2
  <2> HIDE DEF t, top
  <2>5. /\ p \in Nat /\ \A m \in Ms, n \in Ns : t[m][n] <= p
        /\ p = 0 \/ \E m \in Ms, n \in Ns : p = t[m][n]
    <3>1. RowTops(call.M, call.N, t, top)  BY <1>1, <2>3, <2>4 DEF RowTops
    <3> QED  BY <3>1, MaxOfMax
  <2>6. PeakOf(mem.C, mem.peak, stored)  BY <1>9 DEF CellsIn
  <2>7. PeakOf(C, p, rows \X cols)
    <3>1. \A m \in rows, n \in cols : C[m][n] = new[m][n]  BY <1>4, <1>7
    <3> HIDE DEF C, new, p
    <3>2. \A m \in Ms, n \in Ns : <<m, n>> \in rows \X cols =>
            AbsOf(C[m][n]) \in Nat /\ AbsOf(C[m][n]) <= p
      BY <2>1, <2>2, <2>5, <3>1
    <3>3. p = 0 \/ \E m \in Ms, n \in Ns : <<m, n>> \in rows \X cols /\ p = AbsOf(C[m][n])
      BY <2>2, <2>5, <3>1
    <3> QED  BY <2>5, <3>2, <3>3 DEF PeakOf
  <2>8. peak = Greatest(mem.peak, p)  BY <1>9
  <2> HIDE DEF C, new, p, peak
  <2>9. \A m \in Ms, n \in Ns : <<m, n>> \in stored => C[m][n] = mem.C[m][n]
    BY <1>7, <1>8
  <2>10. PeakOf(C, Greatest(mem.peak, p), stored \cup (rows \X cols))
    BY <2>6, <2>7, <2>9, PeakGrows
  <2> QED  BY <2>8, <2>10
<1>10. CellsIn(C, peak, stored \cup (rows \X cols))
  <2> HIDE DEF C, peak
  <2> QED  BY <1>6, <1>7, <1>8, <1>9 DEF CellsIn
<1> QED  BY <1>3, <1>10

\* What ProductExact says of a call that is done.
Product ==
  LET wq == Quantised(0) IN
  /\ \A n \in 0 .. call.N - 1 :
       LET q == wq[n] IN \A m \in 0 .. call.M - 1 : mem.C[m][n] = GemmCell(m, n, q)
  /\ call.op = "track" =>
       mem.peak = MaxTo(call.M, [m \in Nat |-> MaxTo(call.N, [n \in Nat |-> AbsOf(mem.C[m][n])])])

\* When every cell is stored, the product and its peak are exact.
LEMMA AllStored ==
  ASSUME Layer, call.family = "gemm", NEW stored, CellsIn(mem.C, mem.peak, stored),
         (0 .. call.M - 1) \X (0 .. call.N - 1) \subseteq stored
  PROVE  Product
<1> DEFINE Ms == 0 .. call.M - 1
           Ns == 0 .. call.N - 1
<1>1. call.M \in Nat /\ call.N \in Nat  BY LayerShapes
<1>2. \A m \in Ms, n \in Ns : <<m, n>> \in stored /\ mem.C[m][n] = GemmCell(m, n, Quantised(0)[n])
  BY Zenon DEF CellsIn
<1>3. ASSUME call.op = "track"
      PROVE  mem.peak = MaxTo(call.M, [m \in Nat |->
                                         MaxTo(call.N, [n \in Nat |-> AbsOf(mem.C[m][n])])])
  <2> DEFINE t == [m \in Nat |-> [n \in Nat |-> AbsOf(mem.C[m][n])]]
             top == [m \in Nat |-> MaxTo(call.N, [n \in Nat |-> AbsOf(mem.C[m][n])])]
             p == MaxTo(call.M, top)
  <2>1. PeakOf(mem.C, mem.peak, stored)  BY <1>3 DEF CellsIn
  <2>2. \A m \in Ms, n \in Ns : t[m][n] = AbsOf(mem.C[m][n]) /\ t[m][n] \in Nat
    <3>1. ASSUME NEW m \in Ms, NEW n \in Ns
          PROVE  t[m][n] = AbsOf(mem.C[m][n]) /\ t[m][n] \in Nat
      <4>1. t[m][n] = AbsOf(mem.C[m][n])  BY <1>1
      <4>2. <<m, n>> \in stored  BY <1>2
      <4>3. AbsOf(mem.C[m][n]) \in Nat  BY <2>1, <4>2 DEF PeakOf
      <4> QED  BY <4>1, <4>3
    <3> QED  BY <3>1
  <2>3. \A m \in Ms : top[m] = MaxTo(call.N, t[m])  BY <1>1
  <2> HIDE DEF t, top
  <2>4. /\ p \in Nat /\ \A m \in Ms, n \in Ns : t[m][n] <= p
        /\ p = 0 \/ \E m \in Ms, n \in Ns : p = t[m][n]
    <3>1. RowTops(call.M, call.N, t, top)  BY <1>1, <2>2, <2>3 DEF RowTops
    <3> QED  BY <3>1, MaxOfMax
  <2>5. /\ mem.peak \in Nat /\ \A m \in Ms, n \in Ns : t[m][n] <= mem.peak
        /\ mem.peak = 0 \/ \E m \in Ms, n \in Ns : mem.peak = t[m][n]
    BY <1>2, <2>1, <2>2 DEF PeakOf
  <2> HIDE DEF p
  <2>6. mem.peak <= p  BY <2>2, <2>4, <2>5
  <2>7. p <= mem.peak  BY <2>2, <2>4, <2>5
  <2>8. mem.peak = p  BY <2>4, <2>5, <2>6, <2>7
  <2> QED  BY <2>8 DEF p, top
<1> QED  BY <1>2, <1>3 DEF Product

-----------------------------------------------------------------------------
(* Every tier's accumulator on a layer's operands *)

\* The ARM kernels, on the cells that whole 8 x 8 tiles cover.
LEMMA ArmAccumulators ==
  ASSUME Layer, NEW which \in 0 .. 1,
         NEW m \in 0 .. (call.M \div MR) * MR - 1, NEW n \in 0 .. (call.N \div NR) * NR - 1
  PROVE  LET a == Codes(which)
             w == Relaid(Packed(which))
         IN  /\ call.tier = "neon" => Arm!NeonAcc(a, w, call.K, m, n) = Plain(which, m, n)
             /\ Arm!OnDotprod
                  => Arm!DotAcc(RowQuads(a, call.M, call.K), w, call.K, m, n) = Plain(which, m, n)
             /\ Arm!OnI8mm
                  => Arm!SmmlaAcc(RowPairs(a, call.M, call.K), w, call.K, m, n) = Plain(which, m, n)
<1> DEFINE M == call.M
           N == call.N
           K == call.K
           a == Codes(which)
           p == Packed(which)
           w == Relaid(p)
           x == RowOf(which, m)
           q == Quantised(which)[n]
<1>1. M \in Nat /\ N \in Nat /\ K \in Nat /\ K % 4 = 0  BY LayerShapes
<1>2. m \in 0 .. M - 1 /\ n \in 0 .. N - 1 /\ N > 0 /\ m \in Nat /\ n \in Nat  BY <1>1 DEF MR, NR
<1>3. /\ Bytes(x, q, K)
      /\ Reads(a, p, K, m, n, x, q)
  BY <1>2, LayerOperands DEF Reads
<1>4. p # <<>> /\ 0 .. (N \div NR) * BlockBytes(K) - 1 \subseteq DOMAIN p
  BY <1>2, PackedNotEmpty
<1>5. Plain(which, m, n) = Dot1(x, q, K)  BY DEF Plain
<1>6. call.tier # "i8mm" \/ K % 8 # 0 => w = p  BY DEF Relaid, RepackI8mm
<1>7. call.tier = "i8mm" => w = RepackI8mm(p, N, K)  BY <1>4 DEF Relaid
<1>8. m \in 0 .. (M \div MR) * MR - 1 /\ n \in 0 .. (N \div NR) * NR - 1  OBVIOUS
<1> HIDE DEF M, N, K, a, p, w, x, q
<1>9. ASSUME call.tier = "neon" PROVE Arm!NeonAcc(a, w, K, m, n) = Dot1(x, q, K)
  BY <1>1, <1>2, <1>3, <1>6, <1>9, NeonAccExact
<1>10. ASSUME Arm!OnDotprod PROVE Arm!DotAcc(RowQuads(a, M, K), w, K, m, n) = Dot1(x, q, K)
  <2>1. w = p  BY <1>6, <1>10 DEF Arm!OnDotprod, K
  <2> QED  BY <1>1, <1>2, <1>3, <1>8, <2>1, DotAccExact
<1>11. ASSUME Arm!OnI8mm PROVE Arm!SmmlaAcc(RowPairs(a, M, K), w, K, m, n) = Dot1(x, q, K)
  <2>1. w = RepackI8mm(p, N, K) /\ K % 8 = 0  BY <1>7, <1>11 DEF Arm!OnI8mm, K
  <2>2. Arm!SmmlaAcc(RowPairs(a, M, K), RepackI8mm(p, N, K), K, m, n) = Dot1(x, q, K)
    BY <1>1, <1>3, <1>4, <1>8, <2>1, SmmlaAccExact
  <2> QED  BY <2>1, <2>2
<1> QED  BY <1>5, <1>9, <1>10, <1>11 DEF M, N, K, a, p, w, x, q

\* The x86 kernels, on every cell.
LEMMA X86Accumulators ==
  ASSUME Layer, NEW which \in 0 .. 1, NEW m \in 0 .. call.M - 1, NEW n \in 0 .. call.N - 1
  PROVE  LET a == Codes(which)
             w == Packed(which)
         IN  /\ PairsAcc(a, AllPairs(w, call.N, call.K), call.K, m, n) = Plain(which, m, n)
             /\ SignAcc(a, w, call.K, m, n) = Plain(which, m, n)
             /\ VnniAcc(Xor128(a), w, call.K, m, n) = Plain(which, m, n)
<1> DEFINE N == call.N
           K == call.K
           a == Codes(which)
           b == Xor128(a)
           w == Packed(which)
           x == RowOf(which, m)
           q == Quantised(which)[n]
<1>1. call.M \in Nat /\ N \in Nat /\ K \in Nat /\ K % 4 = 0  BY LayerShapes
<1>2. m \in Nat /\ n \in Nat /\ N > 0 /\ n \in 0 .. N - 1  BY <1>1
<1>3. Bytes(x, q, K) /\ Reads(a, w, K, m, n, x, q) /\ ReadsUnsigned(b, w, K, m, n, x, q)
  BY LayerOperands DEF Reads, ReadsUnsigned
<1>4. WholeBlocks(w, N, K)  BY <1>2, PackedNotEmpty
<1>5. Plain(which, m, n) = Dot1(x, q, K)  BY DEF Plain
<1> HIDE DEF N, K, a, b, w, x, q
<1>6. PairsAcc(a, AllPairs(w, N, K), K, m, n) = Dot1(x, q, K)
  BY <1>1, <1>2, <1>3, <1>4, PairsAccExact
<1>7. SignAcc(a, w, K, m, n) = Dot1(x, q, K)  BY <1>1, <1>2, <1>3, SignAccExact
<1>8. VnniAcc(b, w, K, m, n) = Dot1(x, q, K)  BY <1>1, <1>2, <1>3, VnniAccExact
<1> QED  BY <1>5, <1>6, <1>7, <1>8 DEF N, K, a, b, w, x, q

-----------------------------------------------------------------------------
(* The instance's operators, and what a step leaves of a call *)

\* QgemmArm's loop is Qgemm's: the instance changes names, nothing else.
LEMMA ArmRowLoop ==
  ASSUME NEW acc, Arm!RowLoop(acc) PROVE RowLoop(acc)
<1>1. \A n, t : Arm!MaxTo(n, t) = MaxTo(n, t)
  BY DEF Arm!MaxTo, MaxTo, Arm!Greatest, Greatest
<1>2. \A n, x, old : Arm!Epilogue(n, x, old) = Epilogue(n, x, old)
  BY DEF Arm!Epilogue, Epilogue, Arm!ToFused, ToFused, Arm!ToAcc, ToAcc, Arm!Dequant, Dequant,
         Arm!Scale, Scale
<1>3. /\ \A a, b : Arm!Greatest(a, b) = Greatest(a, b)
      /\ \A a : Arm!AbsOf(a) = AbsOf(a)
  BY DEF Arm!Greatest, Greatest, Arm!AbsOf, AbsOf
<1>4. ASSUME NEW rows, NEW cols PROVE Arm!Stored(rows, cols, acc) = Stored(rows, cols, acc)
  BY <1>1, <1>2, <1>3, Zenon DEF Arm!Stored, Stored
<1> QED
  BY <1>4 DEF Arm!RowLoop, RowLoop, Arm!Continues, Continues, Arm!MR, MR, Arm!NR, NR

\* While a call runs, all that depends on the call alone stays as it is.
LEMMA CallFrozen ==
  ASSUME call' = call
  PROVE  /\ Layer' <=> Layer
         /\ \A which : Packed(which)' = Packed(which)
         /\ \A which : Codes(which)' = Codes(which)
         /\ \A w : Relaid(w)' = Relaid(w) /\ SumsOf(w)' = SumsOf(w)
         /\ \A which : Quantised(which)' = Quantised(which)
         /\ \A m, n, wq : GemmCell(m, n, wq)' = GemmCell(m, n, wq)
         /\ GemmBias' = GemmBias
<1>1. Layer' <=> Layer  BY DEF Layer
<1>2. \A which : Packed(which)' = Packed(which)  BY DEF Packed
<1>3. \A which : Codes(which)' = Codes(which)  BY DEF Codes
<1>4. \A w : Relaid(w)' = Relaid(w) /\ SumsOf(w)' = SumsOf(w)  BY DEF Relaid, SumsOf
<1>5. \A which : Quantised(which)' = Quantised(which)  BY DEF Quantised
<1>6. \A which, zp, m, wq : DotOf(which, zp, m, wq)' = DotOf(which, zp, m, wq)  BY DEF DotOf
<1>7. ASSUME NEW m, NEW n, NEW wq PROVE GemmCell(m, n, wq)' = GemmCell(m, n, wq)
  BY <1>6, Zenon DEF GemmCell
<1>8. GemmBias' = GemmBias  BY <1>2, <1>4 DEF GemmBias, LayerBias
<1> QED  BY <1>1, <1>2, <1>3, <1>4, <1>5, <1>7, <1>8

-----------------------------------------------------------------------------
(* A GEMM, stage by stage *)

\* The codes as a tier's kernels want them: as they are, repacked, or unsigned.
LaidOut(which) ==
  IF call.tier \in {"neon", "avx2"} THEN Codes(which)
  ELSE IF Arm!OnDotprod THEN RowQuads(Codes(which), call.M, call.K)
  ELSE IF Arm!OnI8mm THEN RowPairs(Codes(which), call.M, call.K)
  ELSE Xor128(Codes(which))

\* Rows are the outer loop of the ARM kernels and of AVX2's K = 20 one, blocks of
\* columns that of the others; what a loop counter of p has stored.
ByRows == call.tier \in {"neon", "dotprod", "i8mm"} \/ (call.tier = "avx2" /\ call.op = "k20")
Done(p) == {c \in (0 .. call.M - 1) \X (0 .. call.N - 1) : (IF ByRows THEN c[1] ELSE c[2]) < p}

GemmReady ==
  /\ Fields \subseteq DOMAIN mem
  /\ mem.A = Codes(0) /\ mem.W = Relaid(Packed(0)) /\ mem.bias = GemmBias
  /\ CellsIn(mem.C, mem.peak, {})

GemmLoop ==
  /\ Fields \subseteq DOMAIN mem /\ (call.tier = "avx2" => "B" \in DOMAIN mem)
  /\ mem.A = LaidOut(0) /\ mem.W = Relaid(Packed(0)) /\ mem.bias = GemmBias
  /\ call.tier = "avx2" /\ UseI16 => mem.B = AllPairs(Packed(0), call.N, call.K)
  /\ pos \in Nat /\ pos % 8 = 0
  /\ CellsIn(mem.C, mem.peak, Done(pos))

ProductInv ==
  /\ call \in Calls \cup {NoCall}
  /\ call.family \in {"gemm", "gru"} /\ stage = "packed" => mem.W = Packed(0)
  /\ call.family = "gemm" =>
       /\ stage = "loaded" => mem.W = Relaid(Packed(0)) /\ mem.rs = SumsOf(Packed(0))
       /\ stage = "ready" => GemmReady
       /\ stage = "loop" => GemmLoop
  /\ ProductExact

\* Where a step of a loop may lead.
GemmGoes ==
  \/ stage' = "aborted"
  \/ stage' = "loop" /\ GemmLoop'
  \/ stage' = "done" /\ ProductExact'

Gemm == Layer /\ call.family = "gemm"

\* What is stored of C is still stored after a step that counts it in.
LEMMA CellsKept ==
  ASSUME call' = call, NEW C, NEW peak, NEW S, CellsIn(C, peak, S),
         \A m \in 0 .. call.M - 1, n \in 0 .. call.N - 1 :
           <<m, n>> \in S <=> <<m, n>> \in Done(pos)',
         mem'.C = C, mem'.peak = peak
  PROVE  CellsIn(mem.C, mem.peak, Done(pos))'
<1>1. /\ Quantised(0)' = Quantised(0)
      /\ \A m, n, wq : GemmCell(m, n, wq)' = GemmCell(m, n, wq)
  BY CallFrozen
<1> DEFINE T == Done(pos)'
<1> HIDE DEF T
<1>2. \A m \in 0 .. call.M - 1, n \in 0 .. call.N - 1 : <<m, n>> \in S <=> <<m, n>> \in T
  BY Zenon DEF T
<1>3. call.op = "track" => PeakOf(C, peak, T)  BY <1>2 DEF CellsIn, PeakOf
<1>4. CellsIn(C, peak, T)  BY <1>2, <1>3 DEF CellsIn
<1> QED  BY <1>1, <1>4 DEF CellsIn, PeakOf, T

\* A tile stored: the loop goes on with all that it read unchanged.
LEMMA TileStored ==
  ASSUME Gemm, GemmLoop, call' = call, stage' = "loop",
         NEW rows, NEW cols, NEW acc, NewTile(rows, cols, acc, Done(pos)),
         mem' = Stored(rows, cols, acc), pos' \in Nat, pos' % 8 = 0,
         \A m \in 0 .. call.M - 1, n \in 0 .. call.N - 1 :
           <<m, n>> \in Done(pos) \cup (rows \X cols) <=> <<m, n>> \in Done(pos)'
  PROVE  GemmGoes
<1> DEFINE next == mem'
           S == Done(pos) \cup (rows \X cols)
<1>1. next = Stored(rows, cols, acc)  OBVIOUS
<1> HIDE DEF next
<1>2. CellsIn(next.C, next.peak, S) /\ OnlyStores(next)
  <2>1. /\ Layer /\ call.family = "gemm" /\ mem.bias = GemmBias /\ Fields \subseteq DOMAIN mem
        /\ CellsIn(mem.C, mem.peak, Done(pos))
    BY DEF Gemm, GemmLoop
  <2> QED  BY <1>1, <2>1, StoreKeeps, Zenon
<1> HIDE DEF S
<1>3. CellsIn(mem.C, mem.peak, Done(pos))'  BY <1>2, CellsKept DEF S, next
<1>4. /\ Fields \subseteq DOMAIN mem' /\ (call.tier = "avx2" => "B" \in DOMAIN mem')
      /\ mem'.A = mem.A /\ mem'.W = mem.W /\ mem'.bias = mem.bias
      /\ call.tier = "avx2" => mem'.B = mem.B
  BY <1>2 DEF GemmLoop, Fields, OnlyStores, next
<1>5. /\ LaidOut(0)' = LaidOut(0) /\ Relaid(Packed(0))' = Relaid(Packed(0))
      /\ GemmBias' = GemmBias /\ Packed(0)' = Packed(0) /\ (UseI16' <=> UseI16)
  BY CallFrozen DEF LaidOut, Arm!OnDotprod, Arm!OnI8mm, UseI16
<1>6. GemmLoop'  BY <1>3, <1>4, <1>5 DEF GemmLoop
<1> QED  BY <1>6 DEF GemmGoes

\* A loop over: with no row or column left, everything is stored.
LEMMA LoopOver ==
  ASSUME Gemm, GemmLoop,
         NEW bound, bound = IF ByRows THEN call.M ELSE call.N,
         Continues(IF pos < bound THEN "aborted" ELSE "done", pos, mem)
  PROVE  GemmGoes
<1>1. stage' = (IF pos < bound THEN "aborted" ELSE "done") /\ call' = call /\ mem' = mem
  BY DEF Continues
<1>2. CASE pos < bound  BY <1>1, <1>2 DEF GemmGoes
<1>3. CASE ~(pos < bound)
  <2>1. call.M \in Nat /\ call.N \in Nat /\ pos \in Nat  BY LayerShapes DEF Gemm, GemmLoop
  <2>2. (0 .. call.M - 1) \X (0 .. call.N - 1) \subseteq Done(pos)
    <3> SUFFICES ASSUME NEW m \in 0 .. call.M - 1, NEW n \in 0 .. call.N - 1
                 PROVE  <<m, n>> \in Done(pos)
      OBVIOUS
    <3> QED  BY <1>3, <2>1 DEF Done
  <2>3. Product  BY <2>2, AllStored DEF Gemm, GemmLoop
  <2>4. Product'  BY <1>1, <2>3, CallFrozen DEF Product
  <2>5. ProductExact'  BY <2>4 DEF ProductExact, Product
  <2> QED  BY <1>1, <1>3, <2>5 DEF GemmGoes
<1> QED  BY <1>2, <1>3

-----------------------------------------------------------------------------
(* Loops *)

\* The accumulators a loop is given are the products on so many rows and columns.
Exact(acc, rows, cols) ==
  \A m \in 0 .. rows - 1, n \in 0 .. cols - 1 : acc[m][n] = Plain(0, m, n)

\* Multiples of 8: what whole tiles cover.
LEMMA WholeTiles ==
  ASSUME NEW X \in Nat
  PROVE  /\ (X \div 8) * 8 \in Nat /\ (X \div 8) * 8 <= X
         /\ X % 8 = 0 => (X \div 8) * 8 = X
         /\ \A p \in Nat, d \in {8, 16} :
              p % 8 = 0 /\ p + d <= X => p + d <= (X \div 8) * 8 /\ (p + d) % 8 = 0
<1>1. /\ (X \div 8) * 8 \in Nat /\ (X \div 8) * 8 <= X
      /\ X % 8 = 0 => (X \div 8) * 8 = X
  OBVIOUS
<1>2. ASSUME NEW p \in Nat, NEW d \in {8, 16}, p % 8 = 0, p + d <= X
      PROVE  p + d <= (X \div 8) * 8 /\ (p + d) % 8 = 0
  <2>1. PICK u \in Nat : p = 8 * u
    <3>1. p \div 8 \in Nat /\ p = 8 * (p \div 8)  BY <1>2
    <3> QED  BY <3>1
  <2>2. CASE d = 8  BY <1>2, <2>1, <2>2
  <2>3. CASE d = 16  BY <1>2, <2>1, <2>3
  <2> QED  BY <2>2, <2>3
<1> QED  BY <1>1, <1>2

\* Rows outside: a step stores 8 rows of all columns, or aborts, or ends.
LEMMA RowLoopKeeps ==
  ASSUME Gemm, GemmLoop, ByRows, NEW acc,
         Exact(acc, (call.M \div MR) * MR, (call.N \div NR) * NR), RowLoop(acc)
  PROVE  GemmGoes
<1>1. call.M \in Nat /\ call.N \in Nat /\ pos \in Nat /\ pos % 8 = 0
  BY LayerShapes DEF Gemm, GemmLoop
<1>2. CASE pos + MR > call.M
  <2>1. Continues(IF pos < call.M THEN "aborted" ELSE "done", pos, mem)
    BY <1>1, <1>2 DEF RowLoop, MR
  <2> QED  BY <2>1, LoopOver
<1>3. CASE pos + MR <= call.M
  <2> DEFINE rows == pos .. pos + MR - 1
             cols == 0 .. (call.N \div NR) * NR - 1
  <2>1. Continues(IF (call.N % NR) # 0 THEN "aborted" ELSE "loop", pos + MR,
                  Stored(rows, cols, acc))
    BY <1>1, <1>3 DEF RowLoop, MR
  <2>2. /\ call' = call /\ pos' = pos + 8 /\ mem' = Stored(rows, cols, acc)
        /\ stage' = IF (call.N % 8) # 0 THEN "aborted" ELSE "loop"
    BY <2>1 DEF Continues, MR, NR
  <2>3. CASE (call.N % 8) # 0  BY <2>2, <2>3 DEF GemmGoes
  <2>4. CASE (call.N % 8) = 0
    <3>1. (call.N \div NR) * NR = call.N /\ pos + 8 <= (call.M \div MR) * MR
          /\ (call.M \div MR) * MR \in Nat /\ (call.M \div MR) * MR <= call.M
          /\ (pos + 8) % 8 = 0
      BY <1>1, <1>3, <2>4, WholeTiles DEF MR, NR
    <3>2. ASSUME NEW m \in rows, NEW n \in cols
          PROVE  acc[m][n] = Plain(0, m, n) /\ <<m, n>> \notin Done(pos)
      <4>1. m \in 0 .. (call.M \div MR) * MR - 1 /\ m \in 0 .. call.M - 1 /\ ~(m < pos)
        BY <1>1, <3>1 DEF MR
      <4>2. acc[m][n] = Plain(0, m, n)  BY <4>1 DEF Exact
      <4> QED  BY <3>1, <4>1, <4>2 DEF Done
    <3>3. NewTile(rows, cols, acc, Done(pos))
      <4>1. rows \subseteq 0 .. call.M - 1 /\ cols \subseteq 0 .. call.N - 1
        BY <1>1, <3>1 DEF MR
      <4> HIDE DEF rows, cols
      <4> QED  BY <3>2, <4>1 DEF NewTile
    <3>4. \A m \in 0 .. call.M - 1, n \in 0 .. call.N - 1 :
            <<m, n>> \in Done(pos) \cup (rows \X cols) <=> <<m, n>> \in Done(pos)'
      <4>1. cols = 0 .. call.N - 1 /\ rows = pos .. pos + 7  BY <1>1, <3>1 DEF MR
      <4> HIDE DEF rows, cols
      <4> SUFFICES ASSUME NEW m \in 0 .. call.M - 1, NEW n \in 0 .. call.N - 1
                   PROVE  <<m, n>> \in Done(pos) \cup (rows \X cols) <=> <<m, n>> \in Done(pos)'
        OBVIOUS
      <4>2. <<m, n>> \in Done(pos) <=> m < pos  BY DEF Done
      <4>3. <<m, n>> \in Done(pos)' <=> m < pos + 8  BY <2>2 DEF Done, ByRows
      <4>4. <<m, n>> \in rows \X cols <=> m \in pos .. pos + 7  BY <4>1
      <4> QED  BY <1>1, <4>2, <4>3, <4>4
    <3>5. stage' = "loop" /\ pos' \in Nat /\ pos' % 8 = 0  BY <1>1, <2>2, <2>4, <3>1
    <3> HIDE DEF rows, cols
    <3> QED  BY <2>2, <3>3, <3>4, <3>5, TileStored
  <2> QED  BY <2>3, <2>4
<1> QED  BY <1>1, <1>2, <1>3 DEF MR

\* Blocks of columns outside: a step stores a block of all rows, or aborts.
LEMMA BlockStepKeeps ==
  ASSUME Gemm, GemmLoop, ~ByRows, NEW acc, Exact(acc, call.M, (call.N \div NR) * NR),
         NEW width \in {8, 16}, pos + width <= call.N,
         NEW covered \in Nat, covered <= call.M, NEW simd \in BOOLEAN,
         BlockStep(width, covered, simd, acc)
  PROVE  GemmGoes
<1>1. call.M \in Nat /\ call.N \in Nat /\ pos \in Nat /\ pos % 8 = 0
  BY LayerShapes DEF Gemm, GemmLoop
<1> DEFINE rows == 0 .. (IF simd THEN call.M ELSE covered) - 1
           cols == pos .. pos + width - 1
<1>2. /\ call' = call /\ pos' = pos + width /\ mem' = Stored(rows, cols, acc)
      /\ stage' = IF covered < call.M /\ ~simd THEN "aborted" ELSE "loop"
  BY DEF BlockStep, Continues
<1>3. CASE covered < call.M /\ ~simd  BY <1>2, <1>3 DEF GemmGoes
<1>4. CASE ~(covered < call.M /\ ~simd)
  <2>1. rows = 0 .. call.M - 1  BY <1>1, <1>4
  <2>2. /\ pos + width <= (call.N \div NR) * NR /\ (pos + width) % 8 = 0
        /\ (call.N \div NR) * NR \in Nat
    BY <1>1, WholeTiles DEF NR
  <2> HIDE DEF rows
  <2>3. ASSUME NEW m \in rows, NEW n \in cols
        PROVE  acc[m][n] = Plain(0, m, n) /\ <<m, n>> \notin Done(pos)
    <3>1. n \in 0 .. (call.N \div NR) * NR - 1 /\ n \in 0 .. call.N - 1 /\ ~(n < pos)
      BY <1>1, <2>2
    <3>2. acc[m][n] = Plain(0, m, n)  BY <2>1, <3>1 DEF Exact
    <3> QED  BY <2>1, <3>1, <3>2 DEF Done
  <2>4. NewTile(rows, cols, acc, Done(pos))
    <3>1. rows \subseteq 0 .. call.M - 1 /\ cols \subseteq 0 .. call.N - 1  BY <1>1, <2>1
    <3> HIDE DEF cols
    <3> QED  BY <2>3, <3>1 DEF NewTile
  <2>5. \A m \in 0 .. call.M - 1, n \in 0 .. call.N - 1 :
          <<m, n>> \in Done(pos) \cup (rows \X cols) <=> <<m, n>> \in Done(pos)'
    <3> SUFFICES ASSUME NEW m \in 0 .. call.M - 1, NEW n \in 0 .. call.N - 1
                 PROVE  <<m, n>> \in Done(pos) \cup (rows \X cols) <=> <<m, n>> \in Done(pos)'
      OBVIOUS
    <3>1. <<m, n>> \in Done(pos) <=> n < pos  BY DEF Done
    <3>2. <<m, n>> \in Done(pos)' <=> n < pos + width  BY <1>2 DEF Done, ByRows
    <3>3. <<m, n>> \in rows \X cols <=> n \in pos .. pos + width - 1  BY <2>1
    <3> QED  BY <1>1, <3>1, <3>2, <3>3
  <2>6. stage' = "loop" /\ pos' \in Nat /\ pos' % 8 = 0  BY <1>1, <1>2, <1>4, <2>2
  <2> HIDE DEF cols
  <2> QED  BY <1>2, <2>4, <2>5, <2>6, TileStored
<1> QED  BY <1>3, <1>4

\* Rows covered by 12-row and 8-row tiles are rows.
LEMMA CoveredRows ==
  ASSUME call.M \in Nat
  PROVE  /\ AfterTwelves((call.M \div 24) * 24) \in Nat
         /\ AfterTwelves((call.M \div 24) * 24) <= call.M
         /\ AfterTwelves(call.M) \in Nat /\ AfterTwelves(call.M) <= call.M
         /\ (call.M \div MR) * MR \in Nat /\ (call.M \div MR) * MR <= call.M
<1> DEFINE M == call.M
<1>1. ASSUME NEW top \in Nat, top <= M PROVE AfterTwelves(top) \in Nat /\ AfterTwelves(top) <= M
  <2> DEFINE t == (top \div 12) * 12
  <2>1. t \in Nat /\ t <= M  BY <1>1
  <2>2. AfterTwelves(top) = t + ((M - t) \div 8) * 8  BY DEF AfterTwelves, MR
  <2>3. M \in Nat  OBVIOUS
  <2> HIDE DEF t, M
  <2> QED  BY <2>1, <2>2, <2>3
<1>2. (M \div 24) * 24 \in Nat /\ (M \div 24) * 24 <= M /\ M <= M  OBVIOUS
<1>3. (M \div MR) * MR \in Nat /\ (M \div MR) * MR <= M  BY DEF MR
<1> HIDE DEF M
<1>4. M \in Nat  BY DEF M
<1> QED  BY <1>1, <1>2, <1>3, <1>4 DEF M

\* So both column loops keep the invariant, whatever rows they cover.
LEMMA BlockLoopsKeep ==
  ASSUME Gemm, GemmLoop, ~ByRows, NEW acc, Exact(acc, call.M, (call.N \div NR) * NR),
         NEW covered \in Nat, covered <= call.M, NEW simd \in BOOLEAN,
         BlockLoop(covered, simd, acc) \/ (acc = Vnni /\ PairLoop(covered, simd))
  PROVE  GemmGoes
<1>1. call.M \in Nat /\ call.N \in Nat /\ pos \in Nat  BY LayerShapes DEF Gemm, GemmLoop
<1>2. CASE Continues(IF pos < call.N THEN "aborted" ELSE "done", pos, mem)
  BY <1>2, LoopOver
<1>3. CASE pos + 8 <= call.N /\ BlockStep(8, covered, simd, acc)
  BY <1>3, BlockStepKeeps
<1>4. CASE pos + 16 <= call.N /\ BlockStep(16, covered, simd, acc)
  BY <1>4, BlockStepKeeps
<1>5. CASE pos + 8 <= call.N /\ BlockStep(8, (call.M \div MR) * MR, FALSE, acc)
  <2> DEFINE tiles == (call.M \div MR) * MR
  <2>1. tiles \in Nat /\ tiles <= call.M  BY <1>1, CoveredRows
  <2> HIDE DEF tiles
  <2>2. BlockStep(8, tiles, FALSE, acc)  BY <1>5 DEF tiles
  <2> QED  BY <1>5, <2>1, <2>2, BlockStepKeeps
<1>6. NR = 8 /\ 2 * NR = 16  BY DEF NR
<1>7. CASE BlockLoop(covered, simd, acc)
  BY <1>2, <1>3, <1>6, <1>7 DEF BlockLoop
<1>8. CASE acc = Vnni /\ PairLoop(covered, simd)
  BY <1>2, <1>4, <1>5, <1>6, <1>8 DEF PairLoop
<1> QED  BY <1>7, <1>8

\* What each kernel's accumulators are, its operands laid out.
LEMMA LoopAccumulators ==
  ASSUME Gemm, GemmLoop
  PROVE  /\ LET r == (call.M \div MR) * MR
                c == (call.N \div NR) * NR
            IN  /\ call.tier = "neon" => Exact(Arm!Neon, r, c)
                /\ Arm!OnDotprod => Exact(Arm!Dot, r, c)
                /\ Arm!OnI8mm => Exact(Arm!Smmla, r, c)
         /\ LET c == (call.N \div NR) * NR
            IN  /\ call.tier = "avx2" /\ UseI16 => Exact(Pairs, call.M, c)
                /\ call.tier = "avx2" => Exact(Signs, call.M, c)
                /\ call.tier \in {"avxvnni", "avx512"} => Exact(Vnni, call.M, c)
<1> DEFINE M == call.M
           N == call.N
           r == (M \div MR) * MR
           c == (N \div NR) * NR
           a == Codes(0)
           p == Packed(0)
<1>1. M \in Nat /\ N \in Nat /\ r \in Nat /\ r <= M /\ c \in Nat /\ c <= N /\ 0 \in 0 .. 1 /\ Layer
  BY LayerShapes, WholeTiles DEF Gemm, MR, NR
<1>2. mem.A = LaidOut(0) /\ mem.W = Relaid(p)  BY DEF GemmLoop
<1>3. ASSUME NEW m \in 0 .. r - 1, NEW n \in 0 .. c - 1
      PROVE  /\ call.tier = "neon" => Arm!Neon[m][n] = Plain(0, m, n)
             /\ Arm!OnDotprod => Arm!Dot[m][n] = Plain(0, m, n)
             /\ Arm!OnI8mm => Arm!Smmla[m][n] = Plain(0, m, n)
  <2>1. m \in Nat /\ n \in Nat  BY <1>1
  <2>2. /\ Arm!Neon[m][n] = Arm!NeonAcc(mem.A, mem.W, call.K, m, n)
        /\ Arm!Dot[m][n] = Arm!DotAcc(mem.A, mem.W, call.K, m, n)
        /\ Arm!Smmla[m][n] = Arm!SmmlaAcc(mem.A, mem.W, call.K, m, n)
    BY <2>1 DEF Arm!Neon, Arm!Dot, Arm!Smmla
  <2>3. /\ call.tier = "neon" => Arm!NeonAcc(a, Relaid(p), call.K, m, n) = Plain(0, m, n)
        /\ Arm!OnDotprod
             => Arm!DotAcc(RowQuads(a, M, call.K), Relaid(p), call.K, m, n) = Plain(0, m, n)
        /\ Arm!OnI8mm
             => Arm!SmmlaAcc(RowPairs(a, M, call.K), Relaid(p), call.K, m, n) = Plain(0, m, n)
    BY <1>1, ArmAccumulators
  <2>4. /\ call.tier = "neon" => mem.A = a
        /\ Arm!OnDotprod => mem.A = RowQuads(a, M, call.K)
        /\ Arm!OnI8mm => mem.A = RowPairs(a, M, call.K)
    BY <1>2 DEF LaidOut, Arm!OnDotprod, Arm!OnI8mm
  <2> QED  BY <1>2, <2>2, <2>3, <2>4
<1>4. ASSUME NEW m \in 0 .. M - 1, NEW n \in 0 .. c - 1,
             call.tier \in {"avx2", "avxvnni", "avx512"}
      PROVE  /\ call.tier = "avx2" /\ UseI16 => Pairs[m][n] = Plain(0, m, n)
             /\ call.tier = "avx2" => Signs[m][n] = Plain(0, m, n)
             /\ call.tier # "avx2" => Vnni[m][n] = Plain(0, m, n)
  <2>1. m \in Nat /\ n \in Nat /\ n \in 0 .. N - 1  BY <1>1
  <2>2. /\ Pairs[m][n] = PairsAcc(mem.A, mem.B, call.K, m, n)
        /\ Signs[m][n] = SignAcc(mem.A, mem.W, call.K, m, n)
        /\ Vnni[m][n] = VnniAcc(mem.A, mem.W, call.K, m, n)
    BY <2>1 DEF Pairs, Signs, Vnni
  <2>3. /\ PairsAcc(a, AllPairs(p, N, call.K), call.K, m, n) = Plain(0, m, n)
        /\ SignAcc(a, p, call.K, m, n) = Plain(0, m, n)
        /\ VnniAcc(Xor128(a), p, call.K, m, n) = Plain(0, m, n)
    BY <1>1, <2>1, X86Accumulators
  <2>4. /\ call.tier = "avx2" => mem.A = a
        /\ call.tier # "avx2" => mem.A = Xor128(a)
        /\ mem.W = p
        /\ call.tier = "avx2" /\ UseI16 => mem.B = AllPairs(p, N, call.K)
    BY <1>2, <1>4 DEF LaidOut, Arm!OnDotprod, Arm!OnI8mm, Relaid, GemmLoop
  <2> QED  BY <2>2, <2>3, <2>4
<1>5. /\ call.tier = "neon" => Exact(Arm!Neon, r, c)
      /\ Arm!OnDotprod => Exact(Arm!Dot, r, c)
      /\ Arm!OnI8mm => Exact(Arm!Smmla, r, c)
  <2> HIDE DEF r, c
  <2> QED  BY <1>3 DEF Exact
<1>6. /\ call.tier = "avx2" /\ UseI16 => Exact(Pairs, M, c)
      /\ call.tier = "avx2" => Exact(Signs, M, c)
      /\ call.tier \in {"avxvnni", "avx512"} => Exact(Vnni, M, c)
  <2> HIDE DEF M, c
  <2> QED  BY <1>4 DEF Exact
<1> QED  BY <1>5, <1>6

\* The ARM kernels.
LEMMA ArmGemm ==
  ASSUME Gemm, GemmLoop, stage = "loop", Arm!ArmNext
  PROVE  GemmGoes
<1> DEFINE r == (call.M \div MR) * MR
           c == (call.N \div NR) * NR
<1>1. /\ call.tier = "neon" => Exact(Arm!Neon, r, c)
      /\ Arm!OnDotprod => Exact(Arm!Dot, r, c)
      /\ Arm!OnI8mm => Exact(Arm!Smmla, r, c)
  BY LoopAccumulators
<1> HIDE DEF r, c
<1>2. call.tier = "neon" \/ Arm!OnDotprod \/ Arm!OnI8mm => ByRows
  BY DEF ByRows, Arm!OnDotprod, Arm!OnI8mm
<1>3. \/ call.tier = "neon" /\ Arm!RowLoop(Arm!Neon)
      \/ Arm!OnDotprod /\ Arm!RowLoop(Arm!Dot)
      \/ Arm!OnI8mm /\ Arm!RowLoop(Arm!Smmla)
  BY DEF Gemm, Arm!ArmNext, Arm!NeonEnter, Arm!DotprodEnter, Arm!I8mmEnter, Arm!NeonInt32,
         Arm!NeonK20, Arm!NeonFused, Arm!NeonAccum, Arm!NeonTrack, Arm!DotprodInt32,
         Arm!DotprodK20, Arm!DotprodFused, Arm!DotprodAccum, Arm!DotprodTrack, Arm!I8mmInt32,
         Arm!I8mmFused, Arm!I8mmAccum, Arm!I8mmTrack, Arm!DotprodGruEnter, Arm!I8mmGruEnter,
         Arm!NeonGru, Arm!DotprodGru, Arm!I8mmGru, Arm!Runs
<1>4. CASE call.tier = "neon" /\ Arm!RowLoop(Arm!Neon)
  BY <1>1, <1>2, <1>4, ArmRowLoop, RowLoopKeeps DEF r, c
<1>5. CASE Arm!OnDotprod /\ Arm!RowLoop(Arm!Dot)
  BY <1>1, <1>2, <1>5, ArmRowLoop, RowLoopKeeps DEF r, c
<1>6. CASE Arm!OnI8mm /\ Arm!RowLoop(Arm!Smmla)
  BY <1>1, <1>2, <1>6, ArmRowLoop, RowLoopKeeps DEF r, c
<1> QED  BY <1>3, <1>4, <1>5, <1>6

\* The x86 kernels.
LEMMA X86Gemm ==
  ASSUME Gemm, GemmLoop, stage = "loop", X86Next
  PROVE  GemmGoes
<1> DEFINE c == (call.N \div NR) * NR
           r == (call.M \div MR) * MR
           capped == AfterTwelves((call.M \div 24) * 24)
           uncapped == AfterTwelves(call.M)
<1>1. /\ call.tier = "avx2" /\ UseI16 => Exact(Pairs, call.M, c)
      /\ call.tier = "avx2" => Exact(Signs, call.M, c)
      /\ call.tier \in {"avxvnni", "avx512"} => Exact(Vnni, call.M, c)
  BY LoopAccumulators
<1>2. /\ r \in Nat /\ r <= call.M /\ capped \in Nat /\ capped <= call.M
      /\ uncapped \in Nat /\ uncapped <= call.M /\ call.M \in Nat
  BY LayerShapes, CoveredRows DEF Gemm
<1> HIDE DEF c, r, capped, uncapped
<1>3. \/ call.tier = "avx2" /\ call.op = "k20" /\ (\/ UseI16 /\ RowLoop(Pairs)
                                                  \/ RowLoop(Signs))
      \/ call.tier = "avx2" /\ call.op # "k20" /\ UseI16
           /\ (BlockLoop(capped, TRUE, Pairs) \/ BlockLoop(capped, FALSE, Pairs))
      \/ call.tier = "avx2" /\ call.op # "k20" /\ BlockLoop(r, FALSE, Signs)
      \/ call.tier = "avxvnni"
           /\ (BlockLoop(capped, TRUE, Vnni) \/ BlockLoop(uncapped, FALSE, Vnni))
      \/ call.tier = "avx512"
           /\ (PairLoop(capped, TRUE) \/ PairLoop(r, FALSE) \/ PairLoop(capped, FALSE))
  BY DEF Gemm, X86Next, Avx2Enter, Avx2Int32, Avx2K20, Avx2Fused, Avx2Accum, Avx2Track,
         Avx2GruEnter, Avx2Gru, VnniEnter, VnniGruEnter, AvxvnniInt32, AvxvnniK20, AvxvnniFused,
         AvxvnniAccum, AvxvnniTrack, AvxvnniGru, Avx512Int32, Avx512K20, Avx512Fused,
         Avx512Accum, Avx512Track, Avx512Gru, Avx2Loop, XOp, Runs, Avx512Rows, r, capped, uncapped
<1>4. Exact(Pairs, call.M, c) => Exact(Pairs, r, c)
  BY <1>2 DEF Exact
<1>5. Exact(Signs, call.M, c) => Exact(Signs, r, c)
  BY <1>2 DEF Exact
<1>6. CASE call.tier = "avx2" /\ call.op = "k20" /\ UseI16 /\ RowLoop(Pairs)
  <2>1. ByRows  BY <1>6 DEF ByRows
  <2> QED  BY <1>1, <1>4, <1>6, <2>1, RowLoopKeeps DEF r, c
<1>7. CASE call.tier = "avx2" /\ call.op = "k20" /\ RowLoop(Signs)
  <2>1. ByRows  BY <1>7 DEF ByRows
  <2> QED  BY <1>1, <1>5, <1>7, <2>1, RowLoopKeeps DEF r, c
<1>8. CASE /\ call.tier = "avx2" /\ call.op # "k20" /\ UseI16
           /\ BlockLoop(capped, TRUE, Pairs) \/ BlockLoop(capped, FALSE, Pairs)
  <2>1. ~ByRows  BY <1>8 DEF ByRows
  <2>2. Exact(Pairs, call.M, (call.N \div NR) * NR)  BY <1>1, <1>8 DEF c
  <2> QED  BY <1>2, <1>8, <2>1, <2>2, BlockLoopsKeep
<1>9. CASE call.tier = "avx2" /\ call.op # "k20" /\ BlockLoop(r, FALSE, Signs)
  <2>1. ~ByRows  BY <1>9 DEF ByRows
  <2>2. Exact(Signs, call.M, (call.N \div NR) * NR)  BY <1>1, <1>9 DEF c
  <2> QED  BY <1>2, <1>9, <2>1, <2>2, BlockLoopsKeep
<1>10. CASE /\ call.tier = "avxvnni"
            /\ BlockLoop(capped, TRUE, Vnni) \/ BlockLoop(uncapped, FALSE, Vnni)
  <2>1. ~ByRows  BY <1>10 DEF ByRows
  <2>2. Exact(Vnni, call.M, (call.N \div NR) * NR)  BY <1>1, <1>10 DEF c
  <2> QED  BY <1>2, <1>10, <2>1, <2>2, BlockLoopsKeep
<1>11. CASE /\ call.tier = "avx512"
            /\ PairLoop(capped, TRUE) \/ PairLoop(r, FALSE) \/ PairLoop(capped, FALSE)
  <2>1. ~ByRows  BY <1>11 DEF ByRows
  <2>2. Exact(Vnni, call.M, (call.N \div NR) * NR)  BY <1>1, <1>11 DEF c
  <2> QED  BY <1>2, <1>11, <2>1, <2>2, BlockLoopsKeep
<1> QED  BY <1>3, <1>6, <1>7, <1>8, <1>9, <1>10, <1>11

\* A kernel entered: its operands laid out, nothing stored.
LEMMA GemmEnters ==
  ASSUME Gemm, GemmReady, stage = "ready", Arm!ArmNext \/ X86Next
  PROVE  stage' = "loop" /\ GemmLoop'
<1>1. /\ call' = call /\ stage' = "loop" /\ pos' = 0
      /\ mem'.A = LaidOut(0)
      /\ Fields \subseteq DOMAIN mem' /\ (call.tier = "avx2" => "B" \in DOMAIN mem')
      /\ mem'.W = mem.W /\ mem'.bias = mem.bias /\ mem'.C = mem.C /\ mem'.peak = mem.peak
      /\ call.tier = "avx2" /\ UseI16 => mem'.B = AllPairs(mem.W, call.N, call.K)
  <2>1. mem.A = Codes(0) /\ Fields \subseteq DOMAIN mem  BY DEF GemmReady
  <2>2. CASE Arm!NeonEnter
    <3>1. call.tier = "neon" /\ call' = call /\ stage' = "loop" /\ pos' = 0 /\ mem' = mem
      BY <2>2 DEF Arm!NeonEnter, Arm!Continues
    <3>2. LaidOut(0) = Codes(0)  BY <3>1 DEF LaidOut
    <3> QED  BY <2>1, <3>1, <3>2
  <2>3. CASE Arm!DotprodEnter
    <3>1. /\ Arm!OnDotprod /\ call' = call /\ stage' = "loop" /\ pos' = 0
          /\ mem' = [mem EXCEPT !.A = RowQuads(@, call.M, call.K)]
      BY <2>3 DEF Arm!DotprodEnter, Arm!Continues, Arm!RowQuads, RowQuads, Arm!MR, MR
    <3>2. LaidOut(0) = RowQuads(mem.A, call.M, call.K) /\ call.tier # "avx2"
      BY <2>1, <3>1 DEF LaidOut, Arm!OnDotprod
    <3> QED  BY <2>1, <3>1, <3>2 DEF Fields
  <2>4. CASE Arm!I8mmEnter
    <3>1. /\ Arm!OnI8mm /\ call' = call /\ stage' = "loop" /\ pos' = 0
          /\ mem' = [mem EXCEPT !.A = RowPairs(@, call.M, call.K)]
      BY <2>4 DEF Arm!I8mmEnter, Arm!Continues, Arm!RowPairs, RowPairs, Arm!MR, MR
    <3>2. LaidOut(0) = RowPairs(mem.A, call.M, call.K) /\ call.tier # "avx2"
      BY <2>1, <3>1 DEF LaidOut, Arm!OnDotprod, Arm!OnI8mm
    <3> QED  BY <2>1, <3>1, <3>2 DEF Fields
  <2>5. CASE Avx2Enter
    <3>1. /\ call.tier = "avx2" /\ call' = call /\ stage' = "loop" /\ pos' = 0
          /\ mem' = [A |-> mem.A, W |-> mem.W, bias |-> mem.bias, C |-> mem.C, peak |-> mem.peak,
                     B |-> IF UseI16 THEN AllPairs(mem.W, call.N, call.K) ELSE <<>>]
      BY <2>5 DEF Avx2Enter, Continues
    <3>2. LaidOut(0) = mem.A  BY <2>1, <3>1 DEF LaidOut
    <3> QED  BY <3>1, <3>2 DEF Fields
  <2>6. CASE VnniEnter
    <3>1. /\ call.tier \in {"avxvnni", "avx512"} /\ call' = call /\ stage' = "loop" /\ pos' = 0
          /\ mem' = [mem EXCEPT !.A = Xor128(@)]
      BY <2>6 DEF VnniEnter, Continues
    <3>2. LaidOut(0) = Xor128(mem.A) /\ call.tier # "avx2"
      BY <2>1, <3>1 DEF LaidOut, Arm!OnDotprod, Arm!OnI8mm
    <3> QED  BY <2>1, <3>1, <3>2 DEF Fields
  <2>7. Arm!NeonEnter \/ Arm!DotprodEnter \/ Arm!I8mmEnter \/ Avx2Enter \/ VnniEnter
    BY DEF Gemm, Arm!ArmNext, Arm!NeonInt32, Arm!NeonK20, Arm!NeonFused, Arm!NeonAccum,
           Arm!NeonTrack, Arm!DotprodInt32, Arm!DotprodK20, Arm!DotprodFused, Arm!DotprodAccum,
           Arm!DotprodTrack, Arm!I8mmInt32, Arm!I8mmFused, Arm!I8mmAccum, Arm!I8mmTrack,
           Arm!DotprodGruEnter, Arm!I8mmGruEnter, Arm!NeonGru, Arm!DotprodGru, Arm!I8mmGru,
           Arm!Runs, Arm!RowLoop, X86Next, Avx2Int32, Avx2K20, Avx2Fused, Avx2Accum, Avx2Track,
           Avx2GruEnter, Avx2Gru, VnniGruEnter, AvxvnniInt32, AvxvnniK20, AvxvnniFused,
           AvxvnniAccum, AvxvnniTrack, AvxvnniGru, Avx512Int32, Avx512K20, Avx512Fused,
           Avx512Accum, Avx512Track, Avx512Gru, Avx2Loop, XOp, Runs, RowLoop, BlockLoop, PairLoop
  <2> QED  BY <2>2, <2>3, <2>4, <2>5, <2>6, <2>7
<1>2. /\ LaidOut(0)' = LaidOut(0) /\ Relaid(Packed(0))' = Relaid(Packed(0))
      /\ GemmBias' = GemmBias /\ Packed(0)' = Packed(0) /\ (UseI16' <=> UseI16)
  BY <1>1, CallFrozen DEF LaidOut, Arm!OnDotprod, Arm!OnI8mm, UseI16
<1>3. CellsIn(mem.C, mem.peak, Done(pos))'
  <2> DEFINE C == mem.C
             peak == mem.peak
  <2>1. CellsIn(C, peak, {}) /\ mem'.C = C /\ mem'.peak = peak  BY <1>1 DEF GemmReady
  <2>2. \A m \in 0 .. call.M - 1, n \in 0 .. call.N - 1 : <<m, n>> \notin Done(pos)'
    <3>1. call.M \in Nat /\ call.N \in Nat  BY LayerShapes DEF Gemm
    <3> QED  BY <1>1, <3>1 DEF Done
  <2>3. \A m \in 0 .. call.M - 1, n \in 0 .. call.N - 1 :
          <<m, n>> \in {} <=> <<m, n>> \in Done(pos)'
    BY <2>2, Zenon
  <2> HIDE DEF C, peak
  <2> QED  BY <1>1, <2>1, <2>3, CellsKept
<1>4. call.tier = "avx2" /\ UseI16 => mem'.B = AllPairs(Packed(0), call.N, call.K)
  <2>1. call.tier = "avx2" => mem.W = Packed(0)  BY DEF GemmReady, Relaid
  <2> QED  BY <1>1, <2>1
<1> QED  BY <1>1, <1>2, <1>3, <1>4 DEF GemmLoop, GemmReady

\* The operands of a GEMM prepared.
LEMMA GemmPrepared ==
  ASSUME Gemm, mem.W = Relaid(Packed(0)), mem.rs = SumsOf(Packed(0)), PrepareGemm
  PROVE  stage' = "ready" /\ GemmReady'
<1> DEFINE C == [m \in 0 .. call.M - 1 |-> [n \in 0 .. call.N - 1 |-> Start(m, n)]]
<1>1. /\ call' = call /\ stage' = "ready"
      /\ mem' = [A |-> Codes(0), W |-> mem.W, bias |-> GemmBias, C |-> C, peak |-> 0]
  BY DEF PrepareGemm, Continues, GemmBias
<1>2. CellsIn(C, 0, {})  BY DEF CellsIn, PeakOf
<1> HIDE DEF C
<1>3. /\ mem'.A = Codes(0) /\ mem'.W = mem.W /\ mem'.bias = GemmBias /\ mem'.C = C /\ mem'.peak = 0
      /\ Fields \subseteq DOMAIN mem'
  BY <1>1 DEF Fields
<1>4. /\ Codes(0)' = Codes(0) /\ Relaid(Packed(0))' = Relaid(Packed(0)) /\ GemmBias' = GemmBias
      /\ Quantised(0)' = Quantised(0)
      /\ \A m, n, wq : GemmCell(m, n, wq)' = GemmCell(m, n, wq)
      /\ Packed(0)' = Packed(0)
  BY <1>1, CallFrozen
<1>5. CellsIn(mem.C, mem.peak, {})'  BY <1>1, <1>2, <1>3, <1>4 DEF CellsIn, PeakOf
<1> QED  BY <1>1, <1>3, <1>4, <1>5 DEF GemmReady

\* A finished GEMM holds the layer's product, whatever the shape, the tier and the
\* operation: layouts, lane widths, tiles and zero points cancel out.
THEOREM KernelsProductExact == KSpec => []ProductExact
<1>1. KInit => ProductInv
  BY DEF KInit, ProductInv, ProductExact, NoCall
<1>2. ASSUME ProductInv, [KNext]_kvars PROVE ProductInv'
  <2>1. CASE UNCHANGED kvars
    <3>1. call' = call /\ stage' = stage /\ pos' = pos /\ mem' = mem  BY <2>1 DEF kvars
    <3>2. /\ Packed(0)' = Packed(0) /\ Codes(0)' = Codes(0) /\ GemmBias' = GemmBias
          /\ Relaid(Packed(0))' = Relaid(Packed(0)) /\ SumsOf(Packed(0))' = SumsOf(Packed(0))
          /\ LaidOut(0)' = LaidOut(0) /\ (UseI16' <=> UseI16) /\ Done(pos)' = Done(pos)
          /\ Quantised(0)' = Quantised(0)
          /\ \A m, n, wq : GemmCell(m, n, wq)' = GemmCell(m, n, wq)
      BY <3>1, CallFrozen DEF LaidOut, Arm!OnDotprod, Arm!OnI8mm, UseI16, Done, ByRows
    <3>3. CellsIn(mem.C, mem.peak, {})' <=> CellsIn(mem.C, mem.peak, {})
      BY <3>1, <3>2 DEF CellsIn, PeakOf
    <3>4. CellsIn(mem.C, mem.peak, Done(pos))' <=> CellsIn(mem.C, mem.peak, Done(pos))
      BY <3>1, <3>2 DEF CellsIn, PeakOf
    <3>5. ProductExact' <=> ProductExact  BY <3>1, <3>2 DEF ProductExact
    <3>6. (GemmReady' <=> GemmReady) /\ (GemmLoop' <=> GemmLoop)
      BY <3>1, <3>2, <3>3, <3>4 DEF GemmReady, GemmLoop
    <3> QED  BY <1>2, <3>1, <3>2, <3>5, <3>6 DEF ProductInv
  <2>2. CASE Return  BY <2>2 DEF Return, ProductInv, ProductExact, NoCall
  <2>3. CASE LoadLayer
    <3>1. PICK c \in Calls : /\ call' = c /\ stage' = "packed"
                             /\ mem'.W = PackW(Trained(c, 0), c.N, c.K)
      BY <2>3 DEF LoadLayer, Starts
    <3>2. mem'.W = Packed(0)'  BY <3>1 DEF Packed
    <3> QED  BY <3>1, <3>2 DEF ProductInv, ProductExact
  <2>4. CASE /\ stage' = "packed" /\ call' \in Calls
             /\ call'.family \in Others \cup {"quant"}
    BY <2>4 DEF ProductInv, ProductExact, Others
  <2>5. CASE call' = call /\ call.family \in Others \cup {"quant"}
    BY <1>2, <2>5 DEF ProductInv, ProductExact, Others
  <2>6. CASE call' = call /\ call.family = "gemm" /\ SumAndRepack
    <3>1. /\ stage' = "loaded" /\ mem'.W = Relaid(Packed(0)) /\ mem'.rs = SumsOf(Packed(0))
      BY <1>2, <2>6 DEF SumAndRepack, Continues, ProductInv
    <3>2. Relaid(Packed(0))' = Relaid(Packed(0)) /\ SumsOf(Packed(0))' = SumsOf(Packed(0))
      BY <2>6, CallFrozen
    <3> QED  BY <1>2, <2>6, <3>1, <3>2 DEF ProductInv, ProductExact
  <2>7. CASE call' = call /\ call.family = "gemm" /\ PrepareGemm
    <3>1. Gemm  BY <1>2, <2>7 DEF Gemm, Layer, ProductInv, NoCall
    <3>2. mem.W = Relaid(Packed(0)) /\ mem.rs = SumsOf(Packed(0))
      BY <1>2, <2>7 DEF ProductInv, PrepareGemm
    <3>3. stage' = "ready" /\ GemmReady'  BY <2>7, <3>1, <3>2, GemmPrepared
    <3> QED  BY <1>2, <2>7, <3>3 DEF ProductInv, ProductExact
  <2>8. CASE call' = call /\ call.family = "gemm" /\ (Arm!ArmNext \/ X86Next)
    <3>1. Gemm  BY <1>2, <2>8 DEF Gemm, Layer, ProductInv, NoCall
    <3>2. CASE stage = "ready"
      <4>1. stage' = "loop" /\ GemmLoop'
        BY <1>2, <2>8, <3>1, <3>2, GemmEnters DEF ProductInv
      <4> QED  BY <1>2, <2>8, <4>1 DEF ProductInv, ProductExact
    <3>3. CASE stage = "loop"
      <4>1. GemmGoes  BY <1>2, <2>8, <3>1, <3>3, ArmGemm, X86Gemm DEF ProductInv
      <4> QED  BY <1>2, <2>8, <4>1 DEF ProductInv, ProductExact, GemmGoes
    <3>4. stage \in {"ready", "loop"}
      BY <2>8
      DEF Arm!ArmNext, Arm!NeonEnter, Arm!DotprodEnter, Arm!I8mmEnter, Arm!NeonInt32,
          Arm!NeonK20, Arm!NeonFused, Arm!NeonAccum, Arm!NeonTrack, Arm!DotprodInt32,
          Arm!DotprodK20, Arm!DotprodFused, Arm!DotprodAccum, Arm!DotprodTrack, Arm!I8mmInt32,
          Arm!I8mmFused, Arm!I8mmAccum, Arm!I8mmTrack, Arm!DotprodGruEnter, Arm!I8mmGruEnter,
          Arm!NeonGru, Arm!DotprodGru, Arm!I8mmGru, Arm!Runs, Arm!RowLoop, X86Next, Avx2Enter,
          Avx2Int32, Avx2K20, Avx2Fused, Avx2Accum, Avx2Track, Avx2GruEnter, Avx2Gru, VnniEnter,
          VnniGruEnter, AvxvnniInt32, AvxvnniK20, AvxvnniFused, AvxvnniAccum, AvxvnniTrack,
          AvxvnniGru, Avx512Int32, Avx512K20, Avx512Fused, Avx512Accum, Avx512Track, Avx512Gru,
          Avx2Loop, XOp, Runs, RowLoop, BlockLoop, PairLoop
    <3> QED  BY <3>2, <3>3, <3>4
  <2>9. CASE call' = call /\ call.family = "gru" /\ SumAndRepack
    BY <1>2, <2>9 DEF SumAndRepack, Continues, ProductInv, ProductExact
  <2>10. CASE call' = call /\ call.family = "gru" /\ (PrepareGru \/ Arm!ArmNext \/ X86Next)
    <3>1. stage' # "packed"
      <4>1. CASE PrepareGru
        <5>1. stage' = IF (D % 8) = 0 /\ (call.M % 8) = 0 THEN "ready" ELSE "aborted"
          BY <4>1, Zenon DEF PrepareGru, Continues
        <5> QED  BY <5>1
      <4>2. CASE Arm!ArmNext
        BY ZenonT(40), <2>10, <4>2
        DEF Arm!ArmNext, Arm!NeonEnter, Arm!DotprodEnter, Arm!I8mmEnter, Arm!NeonInt32,
            Arm!NeonK20, Arm!NeonFused, Arm!NeonAccum, Arm!NeonTrack, Arm!DotprodInt32,
            Arm!DotprodK20, Arm!DotprodFused, Arm!DotprodAccum, Arm!DotprodTrack, Arm!I8mmInt32,
            Arm!I8mmFused, Arm!I8mmAccum, Arm!I8mmTrack, Arm!DotprodGruEnter, Arm!I8mmGruEnter,
            Arm!NeonGru, Arm!DotprodGru, Arm!I8mmGru, Arm!Op, Arm!GruLoop, Arm!Continues
      <4>3. CASE X86Next
        BY Zenon, <2>10, <4>3
        DEF X86Next, Avx2Enter, Avx2Int32, Avx2K20, Avx2Fused, Avx2Accum, Avx2Track,
            Avx2GruEnter, Avx2Gru, VnniEnter, VnniGruEnter, AvxvnniInt32, AvxvnniK20,
            AvxvnniFused, AvxvnniAccum, AvxvnniTrack, AvxvnniGru, Avx512Int32, Avx512K20,
            Avx512Fused, Avx512Accum, Avx512Track, Avx512Gru, XOp, Runs, GruLoop, Continues
      <4> QED  BY <2>10, <4>1, <4>2, <4>3
    <3> QED  BY <1>2, <2>10, <3>1 DEF ProductInv, ProductExact
  <2>11. QuantStart => stage' = "packed" /\ call' \in Calls /\ call'.family = "quant"
    BY DEF QuantStart, Starts
  <2>12. (PrepareGru => call.family = "gru") /\ (PrepareGemm => call.family = "gemm")
    BY DEF PrepareGru, PrepareGemm
  <2> QED
    BY <1>2, <2>1, <2>2, <2>3, <2>4, <2>5, <2>6, <2>7, <2>8, <2>9, <2>10, <2>11, <2>12, FamilyStep
    DEF Others
<1>3. ProductInv => ProductExact  BY DEF ProductInv
<1> QED  BY <1>1, <1>2, <1>3, PTL DEF KSpec

-----------------------------------------------------------------------------
(* The GRU *)

Gru == Layer /\ call.family = "gru"
GruFields == {"A", "H", "W", "V", "bias", "biasV", "h", "out"}

\* The bias of a product with the zero point folded in, and no bias of its own.
ZeroOf(which) == IF which = 0 THEN call.zp ELSE call.zpH
Folded(which) ==
  BuildBiasEff([n \in 0 .. call.N - 1 |-> 0], SumsOf(Packed(which)), ZeroOf(which))

\* A product's weights as the GRU kernel of a tier wants them.
GruWeights(which) == IF call.tier = "avx2" THEN AllPairs(Packed(which), call.N, call.K)
                                           ELSE Relaid(Packed(which))

\* The cell of row m and column n, from the state before the call.
Gate(which, m) == [j \in Nat |-> Scale(j) * DotOf(which, ZeroOf(which), m, Quantised(which)[j])]
NewState(m, n) == GruCell(Gate(0, m), Gate(1, m), HBefore(m, n), n)

\* Rows below the bound hold their new state and its copy, the others the old one.
RowsBelow(bound, h, out) ==
  /\ DOMAIN h = 0 .. call.M - 1 /\ DOMAIN out = 0 .. call.M - 1
  /\ \A m \in 0 .. call.M - 1 :
       IF m < bound
       THEN out[m] = h[m] /\ \A n \in 0 .. D - 1 : h[m][n] = NewState(m, n)
       ELSE out[m] = <<>> /\ \A n \in 0 .. D - 1 : h[m][n] = HBefore(m, n)

GruShape == call.M % 8 = 0 /\ D % 8 = 0

GruReady ==
  /\ GruShape /\ GruFields \subseteq DOMAIN mem
  /\ mem.A = Codes(0) /\ mem.H = Codes(1)
  /\ mem.W = Relaid(Packed(0)) /\ mem.V = Relaid(Packed(1))
  /\ mem.bias = Folded(0) /\ mem.biasV = Folded(1)
  /\ RowsBelow(0, mem.h, mem.out)

GruRuns ==
  /\ GruShape /\ GruFields \subseteq DOMAIN mem
  /\ mem.A = LaidOut(0) /\ mem.H = LaidOut(1)
  /\ mem.W = GruWeights(0) /\ mem.V = GruWeights(1)
  /\ mem.bias = Folded(0) /\ mem.biasV = Folded(1)
  /\ pos \in Nat /\ pos % TileRows = 0 /\ pos <= call.M
  /\ RowsBelow(pos, mem.h, mem.out)

GruInv ==
  /\ call \in Calls \cup {NoCall}
  /\ call.family = "gru" =>
       /\ stage = "packed" => mem.W = Packed(0) /\ mem.V = Packed(1)
       /\ stage = "loaded" =>
            /\ mem.W = Relaid(Packed(0)) /\ mem.V = Relaid(Packed(1))
            /\ mem.rs = SumsOf(Packed(0)) /\ mem.rsV = SumsOf(Packed(1))
       /\ stage = "ready" => GruReady
       /\ stage = "loop" => GruRuns
  /\ GruExact

\* Where a step of the row loop leads.
GruGoes ==
  \/ stage' = "loop" /\ GruRuns'
  \/ stage' = "done" /\ GruExact'

\* What a call does not change, for the GRU.
LEMMA GruFrozen ==
  ASSUME call' = call
  PROVE  /\ \A which : /\ Packed(which)' = Packed(which) /\ Codes(which)' = Codes(which)
                       /\ LaidOut(which)' = LaidOut(which) /\ Folded(which)' = Folded(which)
                       /\ GruWeights(which)' = GruWeights(which)
                       /\ Relaid(Packed(which))' = Relaid(Packed(which))
                       /\ SumsOf(Packed(which))' = SumsOf(Packed(which))
         /\ \A m, n : NewState(m, n)' = NewState(m, n)
         /\ D' = D /\ TileRows' = TileRows /\ (GruShape' <=> GruShape)
<1>1. \A which : /\ Packed(which)' = Packed(which) /\ Codes(which)' = Codes(which)
                 /\ Relaid(Packed(which))' = Relaid(Packed(which))
                 /\ SumsOf(Packed(which))' = SumsOf(Packed(which))
                 /\ Quantised(which)' = Quantised(which)
  BY CallFrozen
<1>2. D' = D /\ TileRows' = TileRows  BY DEF D, TileRows
<1>3. ASSUME NEW which
      PROVE  /\ LaidOut(which)' = LaidOut(which) /\ Folded(which)' = Folded(which)
             /\ GruWeights(which)' = GruWeights(which)
  <2>1. LaidOut(which)' = LaidOut(which)  BY <1>1 DEF LaidOut, Arm!OnDotprod, Arm!OnI8mm
  <2>2. Folded(which)' = Folded(which)  BY <1>1 DEF Folded, ZeroOf
  <2>3. GruWeights(which)' = GruWeights(which)  BY <1>1 DEF GruWeights
  <2> QED  BY <2>1, <2>2, <2>3
<1>4. ASSUME NEW which, NEW m PROVE Gate(which, m)' = Gate(which, m)
  <2>1. \A zp, wq : DotOf(which, zp, m, wq)' = DotOf(which, zp, m, wq)  BY DEF DotOf
  <2>2. ZeroOf(which)' = ZeroOf(which)  BY DEF ZeroOf
  <2> QED  BY <1>1, <2>1, <2>2 DEF Gate
<1>5. ASSUME NEW m, NEW n PROVE NewState(m, n)' = NewState(m, n)
  BY <1>2, <1>4 DEF NewState, GruCell
<1>6. GruShape' <=> GruShape  BY <1>2 DEF GruShape
<1> QED  BY <1>1, <1>2, <1>3, <1>5, <1>6

\* Rows with their new state still have it after a step that counts them in.
LEMMA RowsKept ==
  ASSUME call' = call, NEW bound, NEW h, NEW out, RowsBelow(bound, h, out),
         mem'.h = h, mem'.out = out
  PROVE  /\ pos' = bound => RowsBelow(pos, mem.h, mem.out)'
         /\ bound = (call.M \div TileRows) * TileRows
              => RowsBelow((call.M \div TileRows) * TileRows, mem.h, mem.out)'
<1>1. \A m, n : NewState(m, n)' = NewState(m, n)  BY GruFrozen
<1>2. D' = D /\ TileRows' = TileRows  BY GruFrozen, Zenon
<1> QED  BY <1>1, <1>2 DEF RowsBelow

\* QgemmArm's row loop is QgemmGru's.
LEMMA ArmGruLoop ==
  ASSUME NEW R, NEW accI, NEW accH, Arm!GruLoop(R, accI, accH) PROVE GruLoop(R, accI, accH)
BY Zenon DEF Arm!GruCell, GruCell, Arm!D, D, Arm!BrSum, BrSum, Arm!BzSum, BzSum, Arm!BnI, BnI, Arm!BnH,
       BnH, Arm!Scale, Scale, Arm!GruLoop, GruLoop, Arm!Continues, Continues

\* The gates of an exact product: the folded bias is the zero point's share.
LEMMA GateExact ==
  ASSUME Gru, NEW which \in 0 .. 1, NEW m \in 0 .. call.M - 1, NEW j \in 0 .. call.N - 1
  PROVE  Folded(which)[j] + Scale(j) * Plain(which, m, j) = Gate(which, m)[j]
<1> DEFINE none == [n \in 0 .. call.N - 1 |-> 0]
           zp == ZeroOf(which)
           d == DotOf(which, zp, m, Quantised(which)[j])
<1>1. Layer /\ call.N \in Nat /\ call.N > 0 /\ zp \in 0 .. 255 /\ j \in Nat
  BY LayerShapes DEF Gru, ZeroOf
<1>2. DOMAIN none = 0 .. call.N - 1 /\ none[j] \in Int  OBVIOUS
<1>3. none[j] = 0  OBVIOUS
<1>4. Packed(which) # <<>>  BY <1>1, PackedNotEmpty
<1>5. SumsOf(Packed(which)) = RowSums(Packed(which), call.N, call.K)  BY <1>4 DEF SumsOf
<1>6. Folded(which) = BuildBiasEff(none, RowSums(Packed(which), call.N, call.K), zp)
  BY <1>5 DEF Folded
<1>7. Scale(j) * d \in Int
  <2>1. d = Plain(which, m, j) + (128 - zp) * SumTo(call.K, Quantised(which)[j])
        /\ Plain(which, m, j) \in Int
    <3> HIDE DEF zp
    <3> QED  BY <1>1, ZeroPoint DEF d
  <2>2. SumTo(call.K, Quantised(which)[j]) \in Int  BY <1>1, ColumnSums
  <2>3. Scale(j) \in Int  BY DEF Scale
  <2> HIDE DEF d, zp
  <2> QED  BY <1>1, <2>1, <2>2, <2>3
<1>8. Gate(which, m)[j] = Scale(j) * d  BY <1>1 DEF Gate
<1> HIDE DEF none, zp, d
<1>9. BuildBiasEff(none, RowSums(Packed(which), call.N, call.K), zp)[j]
          + Scale(j) * Plain(which, m, j)
        = none[j] + Scale(j) * DotOf(which, zp, m, Quantised(which)[j])
  BY <1>1, <1>2, BiasFolded, Zenon
<1> QED  BY <1>3, <1>6, <1>7, <1>8, <1>9 DEF d

\* All cells of a product of the GRU.
ExactOn(acc, which) ==
  \A m \in 0 .. call.M - 1, n \in 0 .. call.N - 1 : acc[m][n] = Plain(which, m, n)

\* A tile of rows gets its new state, in h and in its copy.
LEMMA GruLoopKeeps ==
  ASSUME Gru, GruRuns, NEW accI, NEW accH, ExactOn(accI, 0), ExactOn(accH, 1),
         GruLoop(TileRows, accI, accH)
  PROVE  GruGoes
<1> DEFINE R == TileRows
           Ms == 0 .. call.M - 1
           Ns == 0 .. D - 1
           rows == pos .. pos + R - 1
           ih == [m \in Nat |-> [n \in Nat |-> mem.bias[n] + Scale(n) * accI[m][n]]]
           hh == [m \in Nat |-> [n \in Nat |-> mem.biasV[n] + Scale(n) * accH[m][n]]]
           new == [m \in rows |-> [n \in Ns |->
                     GruCell([j \in Nat |-> ih[m][j]], [j \in Nat |-> hh[m][j]], mem.h[m][n], n)]]
           h == [m \in DOMAIN mem.h |-> IF m \in rows THEN new[m] ELSE mem.h[m]]
           out == [m \in DOMAIN mem.out |-> IF m \in rows THEN new[m] ELSE mem.out[m]]
<1>1. /\ call.M \in Nat /\ D \in Nat \ {0} /\ call.N = 3 * D /\ pos \in Nat /\ pos <= call.M
      /\ R \in {8, 12} /\ pos % R = 0
  BY LayerShapes DEF Gru, GruRuns, D, TileRows, GruMR, MR
<1>2. CASE pos + R > call.M /\ Continues("done", pos, mem)
  <2>1. stage' = "done" /\ call' = call /\ mem' = mem  BY <1>2 DEF Continues
  <2>2. (call.M \div R) * R = pos
    <3> DEFINE M == call.M
    <3>1. CASE R = 8
      <4>1. M \div 8 = pos \div 8 /\ (pos \div 8) * 8 = pos  BY <1>1, <1>2, <3>1
      <4> QED  BY <3>1, <4>1
    <3>2. CASE R = 12
      <4>1. M \div 12 = pos \div 12 /\ (pos \div 12) * 12 = pos  BY <1>1, <1>2, <3>2
      <4> QED  BY <3>2, <4>1
    <3> QED  BY <1>1, <3>1, <3>2
  <2>3. RowsBelow((call.M \div TileRows) * TileRows, mem.h, mem.out)'
    <3> DEFINE b == pos
               y == mem.h
               z == mem.out
    <3>1. /\ RowsBelow(b, y, z) /\ mem'.h = y /\ mem'.out = z
          /\ b = (call.M \div TileRows) * TileRows
      BY <2>1, <2>2 DEF GruRuns
    <3> HIDE DEF b, y, z
    <3> QED  BY <2>1, <3>1, RowsKept
  <2>4. GruExact'  BY <2>3 DEF GruExact, RowsBelow, NewState, Gate, ZeroOf
  <2> QED  BY <2>1, <2>4 DEF GruGoes
<1>3. CASE /\ pos + R <= call.M
           /\ Continues("loop", pos + R, [mem EXCEPT !.h = h, !.out = out])
  <2>1. /\ call' = call /\ stage' = "loop" /\ pos' = pos + R
        /\ mem' = [mem EXCEPT !.h = h, !.out = out]
    BY <1>3 DEF Continues
  <2>2. /\ mem'.h = h /\ mem'.out = out /\ DOMAIN mem' = DOMAIN mem
        /\ \A f \in GruFields : f \notin {"h", "out"} => mem'[f] = mem[f]
    <3> HIDE DEF h, out
    <3> QED  BY <2>1 DEF GruRuns, GruFields
  <2>3. ASSUME NEW m \in rows, NEW n \in Ns PROVE new[m][n] = NewState(m, n)
    <3> DEFINE a == [j \in Nat |-> ih[m][j]]
               b == [j \in Nat |-> hh[m][j]]
    <3>1. m \in Ms /\ m \in Nat /\ ~(m < pos)  BY <1>1, <1>3
    <3>2. mem.h[m][n] = HBefore(m, n)  BY <3>1 DEF GruRuns, RowsBelow
    <3>3. ASSUME NEW j \in 0 .. call.N - 1
          PROVE  a[j] = Gate(0, m)[j] /\ b[j] = Gate(1, m)[j]
      <4>1. j \in Nat  BY <1>1
      <4>2. /\ a[j] = mem.bias[j] + Scale(j) * accI[m][j]
            /\ b[j] = mem.biasV[j] + Scale(j) * accH[m][j]
        BY <3>1, <4>1
      <4>3. accI[m][j] = Plain(0, m, j) /\ accH[m][j] = Plain(1, m, j)  BY <3>1 DEF ExactOn
      <4>4. /\ Folded(0)[j] + Scale(j) * Plain(0, m, j) = Gate(0, m)[j]
            /\ Folded(1)[j] + Scale(j) * Plain(1, m, j) = Gate(1, m)[j]
        <5>1. 0 \in 0 .. 1 /\ 1 \in 0 .. 1  OBVIOUS
        <5> QED  BY <3>1, <5>1, GateExact, Zenon
      <4> HIDE DEF a, b
      <4> QED  BY <4>2, <4>3, <4>4 DEF GruRuns
    <3>4. n \in 0 .. call.N - 1 /\ D + n \in 0 .. call.N - 1 /\ 2 * D + n \in 0 .. call.N - 1
      BY <1>1
    <3> HIDE DEF a, b
    <3>5. GruCell(a, b, HBefore(m, n), n) = NewState(m, n)
      <4>1. /\ a[n] = Gate(0, m)[n] /\ b[n] = Gate(1, m)[n]
            /\ a[D + n] = Gate(0, m)[D + n] /\ b[D + n] = Gate(1, m)[D + n]
            /\ a[2 * D + n] = Gate(0, m)[2 * D + n] /\ b[2 * D + n] = Gate(1, m)[2 * D + n]
        BY <3>3, <3>4
      <4> QED  BY <4>1, Zenon DEF NewState, GruCell
    <3>6. new[m][n] = GruCell(a, b, mem.h[m][n], n)
      <4> HIDE DEF ih, hh
      <4> QED  BY DEF a, b
    <3> QED  BY <3>2, <3>5, <3>6
  <2> HIDE DEF new
  <2>4. RowsBelow(pos + R, h, out)
    <3>1. DOMAIN mem.h = Ms /\ DOMAIN mem.out = Ms  BY DEF GruRuns, RowsBelow
    <3>2. DOMAIN h = Ms /\ DOMAIN out = Ms  BY <3>1
    <3>3. ASSUME NEW m \in Ms, m \in rows
          PROVE  out[m] = h[m] /\ \A n \in Ns : h[m][n] = NewState(m, n)
      BY <2>3, <3>1, <3>3
    <3>4. ASSUME NEW m \in Ms, m \notin rows
          PROVE  h[m] = mem.h[m] /\ out[m] = mem.out[m]
      BY <3>1, <3>4
    <3>5. ASSUME NEW m \in Ms
          PROVE  /\ m \in rows => m < pos + R
                 /\ m \notin rows => (m < pos + R <=> m < pos)
      BY <1>1
    <3> HIDE DEF h, out, rows
    <3> QED  BY <3>2, <3>3, <3>4, <3>5 DEF GruRuns, RowsBelow
  <2>5. RowsBelow(pos, mem.h, mem.out)'
    <3> DEFINE b == pos + R
               y == h
               z == out
    <3>1. RowsBelow(b, y, z) /\ mem'.h = y /\ mem'.out = z /\ pos' = b  BY <2>1, <2>2, <2>4, Zenon
    <3> HIDE DEF b, y, z
    <3> QED  BY <2>1, <3>1, RowsKept
  <2>6. pos' \in Nat /\ pos' % R = 0 /\ pos' <= call.M
    BY <1>1, <1>3, <2>1
  <2>7. GruRuns'
    <3>1. /\ LaidOut(0)' = LaidOut(0) /\ LaidOut(1)' = LaidOut(1)
          /\ GruWeights(0)' = GruWeights(0) /\ GruWeights(1)' = GruWeights(1)
          /\ Folded(0)' = Folded(0) /\ Folded(1)' = Folded(1)
          /\ TileRows' = TileRows /\ (GruShape' <=> GruShape)
      BY <2>1, GruFrozen
    <3>2. /\ mem'.A = mem.A /\ mem'.H = mem.H /\ mem'.W = mem.W /\ mem'.V = mem.V
          /\ mem'.bias = mem.bias /\ mem'.biasV = mem.biasV
      BY <2>2 DEF GruFields
    <3> HIDE DEF h, out
    <3> QED  BY <2>1, <2>2, <2>5, <2>6, <3>1, <3>2 DEF GruRuns
  <2> QED  BY <2>1, <2>7 DEF GruGoes
<1> QED  BY <1>1, <1>2, <1>3 DEF GruLoop

\* What each GRU kernel accumulates, its operands laid out.
LEMMA GruAccumulators ==
  ASSUME Gru, GruRuns
  PROVE  LET K == call.K IN
         /\ call.tier = "neon" =>
              /\ ExactOn(Arm!Neon, 0)
              /\ ExactOn([m \in Nat |-> [n \in Nat |-> Arm!NeonAcc(mem.H, mem.V, K, m, n)]], 1)
         /\ call.tier = "dotprod" =>
              /\ ExactOn(Arm!Dot, 0)
              /\ ExactOn([m \in Nat |-> [n \in Nat |-> Arm!DotAcc(mem.H, mem.V, K, m, n)]], 1)
         /\ call.tier = "i8mm" =>
              /\ ExactOn(Arm!Smmla, 0)
              /\ ExactOn([m \in Nat |-> [n \in Nat |-> Arm!SmmlaAcc(mem.H, mem.V, K, m, n)]], 1)
         /\ call.tier = "avx2" =>
              /\ ExactOn([m \in Nat |-> [n \in Nat |-> PairsAcc(mem.A, mem.W, K, m, n)]], 0)
              /\ ExactOn([m \in Nat |-> [n \in Nat |-> PairsAcc(mem.H, mem.V, K, m, n)]], 1)
         /\ call.tier \in {"avxvnni", "avx512"} => ExactOn(Vnni, 0) /\ ExactOn(GruVnni, 1)
<1> DEFINE M == call.M
           N == call.N
           K == call.K
<1>1. /\ Layer /\ M \in Nat /\ N \in Nat /\ K \in Nat \ {0} /\ K % 8 = 0
      /\ (M \div MR) * MR = M /\ (N \div NR) * NR = N
  <2>1. M \in Nat /\ K \in Nat \ {0} /\ N = 3 * K /\ M % 8 = 0 /\ K % 8 = 0 /\ Layer
    BY LayerShapes DEF Gru, GruRuns, GruShape, D
  <2> HIDE DEF M, N, K
  <2>2. PICK u \in Nat : K = 8 * u
    <3>1. K \div 8 \in Nat /\ K = 8 * (K \div 8)  BY <2>1
    <3> QED  BY <3>1
  <2>3. N = 8 * (3 * u) /\ 3 * u \in Nat  BY <2>1, <2>2
  <2> QED  BY <2>1, <2>3 DEF MR, NR
<1>2. ASSUME NEW which \in 0 .. 1, NEW m \in 0 .. M - 1, NEW n \in 0 .. N - 1
      PROVE  LET a == LaidOut(which)
                 w == GruWeights(which)
             IN  /\ call.tier = "neon" => Arm!NeonAcc(a, w, K, m, n) = Plain(which, m, n)
                 /\ call.tier = "dotprod" => Arm!DotAcc(a, w, K, m, n) = Plain(which, m, n)
                 /\ call.tier = "i8mm" => Arm!SmmlaAcc(a, w, K, m, n) = Plain(which, m, n)
                 /\ call.tier = "avx2" => PairsAcc(a, w, K, m, n) = Plain(which, m, n)
                 /\ call.tier \in {"avxvnni", "avx512"}
                      => VnniAcc(a, w, K, m, n) = Plain(which, m, n)
  <2> DEFINE a == Codes(which)
             w == Packed(which)
  <2>1. /\ call.tier = "neon" => Arm!NeonAcc(a, Relaid(w), K, m, n) = Plain(which, m, n)
        /\ Arm!OnDotprod => Arm!DotAcc(RowQuads(a, M, K), Relaid(w), K, m, n) = Plain(which, m, n)
        /\ Arm!OnI8mm => Arm!SmmlaAcc(RowPairs(a, M, K), Relaid(w), K, m, n) = Plain(which, m, n)
    <3>1. m \in 0 .. (M \div MR) * MR - 1 /\ n \in 0 .. (N \div NR) * NR - 1  BY <1>1
    <3> QED  BY <1>1, <3>1, ArmAccumulators
  <2>2. /\ PairsAcc(a, AllPairs(w, N, K), K, m, n) = Plain(which, m, n)
        /\ VnniAcc(Xor128(a), w, K, m, n) = Plain(which, m, n)
    BY <1>1, X86Accumulators
  <2>3. /\ call.tier = "dotprod" => Arm!OnDotprod /\ ~Arm!OnI8mm
        /\ call.tier = "i8mm" => Arm!OnI8mm /\ ~Arm!OnDotprod
        /\ call.tier \in {"avxvnni", "avx512"} => ~Arm!OnDotprod /\ ~Arm!OnI8mm /\ Relaid(w) = w
    BY <1>1 DEF Arm!OnDotprod, Arm!OnI8mm, Relaid
  <2> HIDE DEF a, w
  <2> QED  BY <2>1, <2>2, <2>3 DEF LaidOut, GruWeights, a, w
<1>3. /\ mem.A = LaidOut(0) /\ mem.H = LaidOut(1)
      /\ mem.W = GruWeights(0) /\ mem.V = GruWeights(1)
      /\ 0 \in 0 .. 1 /\ 1 \in 0 .. 1
  BY DEF GruRuns
<1>4. ASSUME NEW m \in 0 .. M - 1, NEW n \in 0 .. N - 1
      PROVE  /\ m \in Nat /\ n \in Nat
             /\ call.tier = "neon" =>
                  /\ Arm!NeonAcc(mem.A, mem.W, K, m, n) = Plain(0, m, n)
                  /\ Arm!NeonAcc(mem.H, mem.V, K, m, n) = Plain(1, m, n)
             /\ call.tier = "dotprod" =>
                  /\ Arm!DotAcc(mem.A, mem.W, K, m, n) = Plain(0, m, n)
                  /\ Arm!DotAcc(mem.H, mem.V, K, m, n) = Plain(1, m, n)
             /\ call.tier = "i8mm" =>
                  /\ Arm!SmmlaAcc(mem.A, mem.W, K, m, n) = Plain(0, m, n)
                  /\ Arm!SmmlaAcc(mem.H, mem.V, K, m, n) = Plain(1, m, n)
             /\ call.tier = "avx2" =>
                  /\ PairsAcc(mem.A, mem.W, K, m, n) = Plain(0, m, n)
                  /\ PairsAcc(mem.H, mem.V, K, m, n) = Plain(1, m, n)
             /\ call.tier \in {"avxvnni", "avx512"} =>
                  /\ VnniAcc(mem.A, mem.W, K, m, n) = Plain(0, m, n)
                  /\ VnniAcc(mem.H, mem.V, K, m, n) = Plain(1, m, n)
  BY <1>1, <1>2, <1>3
<1>5. ASSUME call.tier = "neon"
      PROVE  /\ ExactOn(Arm!Neon, 0)
             /\ ExactOn([m \in Nat |-> [n \in Nat |-> Arm!NeonAcc(mem.H, mem.V, K, m, n)]], 1)
  BY <1>4, <1>5 DEF ExactOn, Arm!Neon
<1>6. ASSUME call.tier = "dotprod"
      PROVE  /\ ExactOn(Arm!Dot, 0)
             /\ ExactOn([m \in Nat |-> [n \in Nat |-> Arm!DotAcc(mem.H, mem.V, K, m, n)]], 1)
  BY <1>4, <1>6 DEF ExactOn, Arm!Dot
<1>7. ASSUME call.tier = "i8mm"
      PROVE  /\ ExactOn(Arm!Smmla, 0)
             /\ ExactOn([m \in Nat |-> [n \in Nat |-> Arm!SmmlaAcc(mem.H, mem.V, K, m, n)]], 1)
  BY <1>4, <1>7 DEF ExactOn, Arm!Smmla
<1>8. ASSUME call.tier = "avx2"
      PROVE  /\ ExactOn([m \in Nat |-> [n \in Nat |-> PairsAcc(mem.A, mem.W, K, m, n)]], 0)
             /\ ExactOn([m \in Nat |-> [n \in Nat |-> PairsAcc(mem.H, mem.V, K, m, n)]], 1)
  BY <1>4, <1>8 DEF ExactOn
<1>9. ASSUME call.tier \in {"avxvnni", "avx512"}
      PROVE  /\ ExactOn(Vnni, 0)
             /\ ExactOn(GruVnni, 1)
  <2>1. ASSUME NEW m \in 0 .. M - 1, NEW n \in 0 .. N - 1
        PROVE  Vnni[m][n] = Plain(0, m, n) /\ GruVnni[m][n] = Plain(1, m, n)
    <3>1. /\ VnniAcc(mem.A, mem.W, K, m, n) = Plain(0, m, n)
          /\ VnniAcc(mem.H, mem.V, K, m, n) = Plain(1, m, n)
      BY <1>4, <1>9
    <3>2. m \in Nat /\ n \in Nat  BY <1>1
    <3>3. /\ Vnni[m][n] = VnniAcc(mem.A, mem.W, K, m, n)
          /\ GruVnni[m][n] = VnniAcc(mem.H, mem.V, K, m, n)
      BY <3>2 DEF Vnni, GruVnni, D
    <3> QED  BY <3>1, <3>3
  <2> QED  BY <2>1 DEF ExactOn
<1> HIDE DEF M, N, K
<1> QED  BY <1>5, <1>6, <1>7, <1>8, <1>9, Zenon DEF K

\* Every kernel's row loop.
LEMMA GruSteps ==
  ASSUME Gru, GruRuns, stage = "loop", Arm!ArmNext \/ X86Next
  PROVE  GruGoes
<1>1. CASE Arm!NeonGru
  <2> DEFINE acc == [m \in Nat |-> [n \in Nat |-> Arm!NeonAcc(mem.H, mem.V, call.K, m, n)]]
  <2>1. call.tier = "neon" /\ Arm!GruLoop(8, Arm!Neon, acc)
    BY <1>1 DEF Arm!NeonGru, Arm!Runs, Arm!MR, Arm!D
  <2>2. ExactOn(Arm!Neon, 0) /\ ExactOn(acc, 1) /\ TileRows = 8
    BY <2>1, GruAccumulators DEF TileRows, MR
  <2> HIDE DEF acc
  <2> QED  BY <2>1, <2>2, ArmGruLoop, GruLoopKeeps
<1>2. CASE Arm!DotprodGru
  <2> DEFINE acc == [m \in Nat |-> [n \in Nat |-> Arm!DotAcc(mem.H, mem.V, call.K, m, n)]]
  <2>1. call.tier = "dotprod" /\ Arm!GruLoop(8, Arm!Dot, acc)
    BY <1>2 DEF Arm!DotprodGru, Arm!Runs, Arm!MR, Arm!D
  <2>2. ExactOn(Arm!Dot, 0) /\ ExactOn(acc, 1) /\ TileRows = 8
    BY <2>1, GruAccumulators DEF TileRows, MR
  <2> HIDE DEF acc
  <2> QED  BY <2>1, <2>2, ArmGruLoop, GruLoopKeeps
<1>3. CASE Arm!I8mmGru
  <2> DEFINE acc == [m \in Nat |-> [n \in Nat |-> Arm!SmmlaAcc(mem.H, mem.V, call.K, m, n)]]
  <2>1. call.tier = "i8mm" /\ Arm!GruLoop(8, Arm!Smmla, acc)
    BY <1>3 DEF Arm!I8mmGru, Arm!Runs, Arm!MR, Arm!D
  <2>2. ExactOn(Arm!Smmla, 0) /\ ExactOn(acc, 1) /\ TileRows = 8
    BY <2>1, GruAccumulators DEF TileRows, MR
  <2> HIDE DEF acc
  <2> QED  BY <2>1, <2>2, ArmGruLoop, GruLoopKeeps
<1>4. CASE Avx2Gru
  <2> DEFINE accI == [m \in Nat |-> [n \in Nat |-> PairsAcc(mem.A, mem.W, call.K, m, n)]]
             accH == [m \in Nat |-> [n \in Nat |-> PairsAcc(mem.H, mem.V, call.K, m, n)]]
  <2>1. call.tier = "avx2" /\ GruLoop(12, accI, accH)
    BY <1>4 DEF Avx2Gru, Runs, GruMR, D
  <2>2. ExactOn(accI, 0) /\ ExactOn(accH, 1) /\ TileRows = 12
    BY <2>1, GruAccumulators DEF TileRows, GruMR
  <2> HIDE DEF accI, accH
  <2> QED  BY <2>1, <2>2, GruLoopKeeps
<1>5. CASE AvxvnniGru \/ Avx512Gru
  <2>1. call.tier \in {"avxvnni", "avx512"} /\ GruLoop(TileRows, Vnni, GruVnni)
    BY <1>5 DEF AvxvnniGru, Avx512Gru, Runs, GruMR, MR, TileRows
  <2>2. ExactOn(Vnni, 0) /\ ExactOn(GruVnni, 1)  BY <2>1, GruAccumulators
  <2> QED  BY <2>1, <2>2, GruLoopKeeps
<1>6. Arm!NeonGru \/ Arm!DotprodGru \/ Arm!I8mmGru \/ Avx2Gru \/ AvxvnniGru \/ Avx512Gru
  BY DEF Gru, Arm!ArmNext, Arm!NeonEnter, Arm!DotprodEnter, Arm!I8mmEnter, Arm!NeonInt32,
         Arm!NeonK20, Arm!NeonFused, Arm!NeonAccum, Arm!NeonTrack, Arm!DotprodInt32,
         Arm!DotprodK20, Arm!DotprodFused, Arm!DotprodAccum, Arm!DotprodTrack, Arm!I8mmInt32,
         Arm!I8mmFused, Arm!I8mmAccum, Arm!I8mmTrack, Arm!DotprodGruEnter, Arm!I8mmGruEnter,
         Arm!Op, X86Next, Avx2Enter, Avx2Int32, Avx2K20, Avx2Fused, Avx2Accum, Avx2Track,
         Avx2GruEnter, VnniEnter, VnniGruEnter, AvxvnniInt32, AvxvnniK20, AvxvnniFused,
         AvxvnniAccum, AvxvnniTrack, Avx512Int32, Avx512K20, Avx512Fused, Avx512Accum,
         Avx512Track, XOp, Runs
<1> QED  BY <1>1, <1>2, <1>3, <1>4, <1>5, <1>6

\* A GRU kernel entered: both operands laid out.
LEMMA GruEnters ==
  ASSUME Gru, GruReady, stage = "ready", Arm!ArmNext \/ X86Next
  PROVE  stage' = "loop" /\ GruRuns'
<1>1. /\ call' = call /\ stage' = "loop" /\ pos' = 0
      /\ GruFields \subseteq DOMAIN mem'
      /\ mem'.A = LaidOut(0) /\ mem'.H = LaidOut(1)
      /\ mem'.W = GruWeights(0) /\ mem'.V = GruWeights(1)
      /\ mem'.bias = mem.bias /\ mem'.biasV = mem.biasV /\ mem'.h = mem.h /\ mem'.out = mem.out
  <2>1. /\ mem.A = Codes(0) /\ mem.H = Codes(1) /\ GruFields \subseteq DOMAIN mem
        /\ mem.W = Relaid(Packed(0)) /\ mem.V = Relaid(Packed(1)) /\ call.K % 8 = 0
    BY DEF GruReady, GruShape, D
  <2>2. CASE Arm!NeonEnter
    <3>1. call.tier = "neon" /\ call' = call /\ stage' = "loop" /\ pos' = 0 /\ mem' = mem
      BY <2>2 DEF Arm!NeonEnter, Arm!Continues
    <3>2. \A which : LaidOut(which) = Codes(which) /\ GruWeights(which) = Relaid(Packed(which))
      BY <3>1 DEF LaidOut, GruWeights
    <3> QED  BY <2>1, <3>1, <3>2
  <2>3. CASE Arm!DotprodGruEnter
    <3>1. /\ call.tier = "dotprod" /\ call' = call /\ stage' = "loop" /\ pos' = 0
          /\ mem' = [mem EXCEPT !.A = RowQuads(@, call.M, call.K),
                                !.H = RowQuads(@, call.M, call.K)]
      BY <2>3 DEF Arm!DotprodGruEnter, Arm!Continues, Arm!RowQuads, RowQuads, Arm!MR, MR, Arm!D
    <3>2. \A which : /\ LaidOut(which) = RowQuads(Codes(which), call.M, call.K)
                     /\ GruWeights(which) = Relaid(Packed(which))
      BY <3>1 DEF LaidOut, GruWeights, Arm!OnDotprod
    <3> QED  BY <2>1, <3>1, <3>2 DEF GruFields
  <2>4. CASE Arm!I8mmGruEnter
    <3>1. /\ call.tier = "i8mm" /\ call' = call /\ stage' = "loop" /\ pos' = 0
          /\ mem' = [mem EXCEPT !.A = RowPairs(@, call.M, call.K),
                                !.H = RowPairs(@, call.M, call.K)]
      BY <2>4 DEF Arm!I8mmGruEnter, Arm!Continues, Arm!RowPairs, RowPairs, Arm!MR, MR, Arm!D
    <3>2. \A which : /\ LaidOut(which) = RowPairs(Codes(which), call.M, call.K)
                     /\ GruWeights(which) = Relaid(Packed(which))
      BY <2>1, <3>1 DEF LaidOut, GruWeights, Arm!OnDotprod, Arm!OnI8mm
    <3> QED  BY <2>1, <3>1, <3>2 DEF GruFields
  <2>5. CASE Avx2GruEnter
    <3>1. /\ call.tier = "avx2" /\ call' = call /\ stage' = "loop" /\ pos' = 0
          /\ mem' = [mem EXCEPT !.W = AllPairs(@, call.N, call.K),
                                !.V = AllPairs(@, call.N, call.K)]
      BY <2>5 DEF Avx2GruEnter, Continues, D
    <3>2. \A which : /\ LaidOut(which) = Codes(which)
                     /\ Relaid(Packed(which)) = Packed(which)
                     /\ GruWeights(which) = AllPairs(Packed(which), call.N, call.K)
      BY <3>1 DEF LaidOut, GruWeights, Relaid
    <3> QED  BY <2>1, <3>1, <3>2 DEF GruFields
  <2>6. CASE VnniGruEnter
    <3>1. /\ call.tier \in {"avxvnni", "avx512"} /\ call' = call /\ stage' = "loop" /\ pos' = 0
          /\ mem' = [mem EXCEPT !.A = Xor128(@), !.H = Xor128(@)]
      BY <2>6 DEF VnniGruEnter, Continues
    <3>2. \A which : /\ LaidOut(which) = Xor128(Codes(which))
                     /\ GruWeights(which) = Relaid(Packed(which))
      BY <3>1 DEF LaidOut, GruWeights, Arm!OnDotprod, Arm!OnI8mm
    <3> QED  BY <2>1, <3>1, <3>2 DEF GruFields
  <2>7. \/ Arm!NeonEnter \/ Arm!DotprodGruEnter \/ Arm!I8mmGruEnter \/ Avx2GruEnter
        \/ VnniGruEnter
    BY DEF Gru, Arm!ArmNext, Arm!DotprodEnter, Arm!I8mmEnter, Arm!NeonInt32, Arm!NeonK20,
           Arm!NeonFused, Arm!NeonAccum, Arm!NeonTrack, Arm!DotprodInt32, Arm!DotprodK20,
           Arm!DotprodFused, Arm!DotprodAccum, Arm!DotprodTrack, Arm!I8mmInt32, Arm!I8mmFused,
           Arm!I8mmAccum, Arm!I8mmTrack, Arm!NeonGru, Arm!DotprodGru, Arm!I8mmGru, Arm!Op,
           Arm!GruLoop, X86Next, Avx2Enter, Avx2Int32, Avx2K20, Avx2Fused, Avx2Accum, Avx2Track,
           Avx2Gru, VnniEnter, AvxvnniInt32, AvxvnniK20, AvxvnniFused, AvxvnniAccum,
           AvxvnniTrack, AvxvnniGru, Avx512Int32, Avx512K20, Avx512Fused, Avx512Accum,
           Avx512Track, Avx512Gru, XOp, Runs, GruLoop
  <2> QED  BY <2>2, <2>3, <2>4, <2>5, <2>6, <2>7
<1>2. /\ LaidOut(0)' = LaidOut(0) /\ LaidOut(1)' = LaidOut(1)
      /\ GruWeights(0)' = GruWeights(0) /\ GruWeights(1)' = GruWeights(1)
      /\ Folded(0)' = Folded(0) /\ Folded(1)' = Folded(1)
      /\ TileRows' = TileRows /\ (GruShape' <=> GruShape)
  BY <1>1, GruFrozen
<1>3. RowsBelow(pos, mem.h, mem.out)'
  <2> DEFINE y == mem.h
             z == mem.out
  <2>1. RowsBelow(0, y, z) /\ mem'.h = y /\ mem'.out = z  BY <1>1 DEF GruReady
  <2> HIDE DEF y, z
  <2> QED  BY <1>1, <2>1, RowsKept
<1>4. pos' \in Nat /\ pos' % TileRows = 0 /\ pos' <= call.M
  BY <1>1, LayerShapes DEF Gru, TileRows, GruMR, MR
<1> QED  BY <1>1, <1>2, <1>3, <1>4 DEF GruRuns, GruReady

\* The operands of a GRU prepared, or a shape its kernels do not serve.
LEMMA GruPrepared ==
  ASSUME Gru, PrepareGru,
         mem.W = Relaid(Packed(0)), mem.V = Relaid(Packed(1)),
         mem.rs = SumsOf(Packed(0)), mem.rsV = SumsOf(Packed(1))
  PROVE  stage' = "aborted" \/ (stage' = "ready" /\ GruReady')
<1> DEFINE h == [m \in 0 .. call.M - 1 |-> [n \in 0 .. D - 1 |-> HBefore(m, n)]]
           out == [m \in 0 .. call.M - 1 |-> <<>>]
<1>1. /\ call' = call /\ stage' = IF (D % 8) = 0 /\ (call.M % 8) = 0 THEN "ready" ELSE "aborted"
      /\ mem' = [A |-> Codes(0), H |-> Codes(1), W |-> mem.W, V |-> mem.V,
                 bias |-> Folded(0), biasV |-> Folded(1), h |-> h, out |-> out]
  BY DEF PrepareGru, Continues, Folded, ZeroOf
<1>2. RowsBelow(0, h, out)
  <2>1. call.M \in Nat  BY LayerShapes DEF Gru
  <2> QED  BY <2>1 DEF RowsBelow
<1> HIDE DEF h, out
<1>3. /\ mem'.A = Codes(0) /\ mem'.H = Codes(1) /\ mem'.W = mem.W /\ mem'.V = mem.V
      /\ mem'.bias = Folded(0) /\ mem'.biasV = Folded(1) /\ mem'.h = h /\ mem'.out = out
      /\ GruFields \subseteq DOMAIN mem'
  BY <1>1 DEF GruFields
<1>4. /\ Codes(0)' = Codes(0) /\ Codes(1)' = Codes(1)
      /\ Relaid(Packed(0))' = Relaid(Packed(0)) /\ Relaid(Packed(1))' = Relaid(Packed(1))
      /\ Folded(0)' = Folded(0) /\ Folded(1)' = Folded(1) /\ (GruShape' <=> GruShape)
      /\ D' = D /\ \A m, n : NewState(m, n)' = NewState(m, n)
  BY <1>1, GruFrozen
<1>5. RowsBelow(0, mem.h, mem.out)'  BY <1>1, <1>2, <1>3, <1>4, Zenon DEF RowsBelow
<1> QED  BY <1>1, <1>3, <1>4, <1>5 DEF GruReady, GruShape

\* A GRU kernel runs between the entry and the end of its row loop.
LEMMA GruKernelStage ==
  ASSUME call.family = "gru", Arm!ArmNext \/ X86Next
  PROVE  stage \in {"ready", "loop"}
BY Zenon DEF Arm!ArmNext, Arm!NeonEnter, Arm!DotprodEnter, Arm!I8mmEnter, Arm!NeonInt32,
       Arm!NeonK20, Arm!NeonFused, Arm!NeonAccum, Arm!NeonTrack, Arm!DotprodInt32,
       Arm!DotprodK20, Arm!DotprodFused, Arm!DotprodAccum, Arm!DotprodTrack, Arm!I8mmInt32,
       Arm!I8mmFused, Arm!I8mmAccum, Arm!I8mmTrack, Arm!DotprodGruEnter, Arm!I8mmGruEnter,
       Arm!NeonGru, Arm!DotprodGru, Arm!I8mmGru, Arm!Op, Arm!Runs, Arm!GruLoop, X86Next,
       Avx2Enter, Avx2Int32, Avx2K20, Avx2Fused, Avx2Accum, Avx2Track, Avx2GruEnter, Avx2Gru,
       VnniEnter, VnniGruEnter, AvxvnniInt32, AvxvnniK20, AvxvnniFused, AvxvnniAccum,
       AvxvnniTrack, AvxvnniGru, Avx512Int32, Avx512K20, Avx512Fused, Avx512Accum, Avx512Track,
       Avx512Gru, XOp, Runs, GruLoop

\* A finished fused GRU holds the cell of every row its tiles cover, computed from
\* the codes and the state before the call, and the old state in the rows left.
THEOREM KernelsGruExact == KSpec => []GruExact
<1>1. KInit => GruInv  BY DEF KInit, GruInv, GruExact, NoCall
<1>2. ASSUME GruInv, [KNext]_kvars PROVE GruInv'
  <2>1. CASE UNCHANGED kvars
    <3>1. call' = call /\ stage' = stage /\ pos' = pos /\ mem' = mem  BY <2>1 DEF kvars
    <3>2. /\ \A which : /\ Packed(which)' = Packed(which) /\ Codes(which)' = Codes(which)
                        /\ LaidOut(which)' = LaidOut(which) /\ Folded(which)' = Folded(which)
                        /\ GruWeights(which)' = GruWeights(which)
                        /\ Relaid(Packed(which))' = Relaid(Packed(which))
                        /\ SumsOf(Packed(which))' = SumsOf(Packed(which))
          /\ \A m, n : NewState(m, n)' = NewState(m, n)
          /\ D' = D /\ TileRows' = TileRows /\ (GruShape' <=> GruShape)
      BY <3>1, GruFrozen
    <3>3. /\ RowsBelow(0, mem.h, mem.out)' <=> RowsBelow(0, mem.h, mem.out)
          /\ RowsBelow(pos, mem.h, mem.out)' <=> RowsBelow(pos, mem.h, mem.out)
      BY <3>1, <3>2 DEF RowsBelow
    <3>4. GruExact' <=> GruExact
      <4> DEFINE Left ==
            \A m \in 0 .. call.M - 1 :
              IF m < (call.M \div TileRows) * TileRows
              THEN mem.out[m] = mem.h[m] /\ \A n \in 0 .. D - 1 : mem.h[m][n] = NewState(m, n)
              ELSE mem.out[m] = <<>> /\ \A n \in 0 .. D - 1 : mem.h[m][n] = HBefore(m, n)
      <4>1. GruExact <=> (stage = "done" /\ call.family = "gru" => Left)
        BY DEF GruExact, NewState, Gate, ZeroOf
      <4>2. GruExact' <=> (stage' = "done" /\ call'.family = "gru" => Left')
        BY DEF GruExact, NewState, Gate, ZeroOf
      <4>3. Left' <=> Left  BY <3>1, <3>2
      <4> HIDE DEF Left
      <4> QED  BY <3>1, <4>1, <4>2, <4>3
    <3>5. (GruReady' <=> GruReady) /\ (GruRuns' <=> GruRuns)
      BY <3>1, <3>2, <3>3 DEF GruReady, GruRuns
    <3> QED  BY <1>2, <3>1, <3>2, <3>4, <3>5 DEF GruInv
  <2>2. CASE Return  BY <2>2 DEF Return, GruInv, GruExact, NoCall
  <2>3. CASE LoadLayer
    <3>1. PICK c \in Calls :
            /\ call' = c /\ stage' = "packed"
            /\ mem' = [W |-> PackW(Trained(c, 0), c.N, c.K),
                       V |-> IF c.family = "gru" THEN PackW(Trained(c, 1), c.N, c.K) ELSE <<>>]
      BY <2>3 DEF LoadLayer, Starts
    <3>2. mem'.W = Packed(0)' /\ (call'.family = "gru" => mem'.V = Packed(1)')
      BY <3>1 DEF Packed
    <3> QED  BY <3>1, <3>2 DEF GruInv, GruExact
  <2>4. CASE /\ stage' = "packed" /\ call' \in Calls
             /\ call'.family \in Others \cup {"quant"}
    BY <2>4 DEF GruInv, GruExact, Others
  <2>5. CASE call' = call /\ call.family \in Others \cup {"quant", "gemm"}
    BY <1>2, <2>5 DEF GruInv, GruExact, Others
  <2>6. CASE call' = call /\ call.family = "gru" /\ SumAndRepack
    <3>1. /\ stage' = "loaded"
          /\ mem'.W = Relaid(Packed(0)) /\ mem'.V = Relaid(Packed(1))
          /\ mem'.rs = SumsOf(Packed(0)) /\ mem'.rsV = SumsOf(Packed(1))
      BY <1>2, <2>6 DEF SumAndRepack, Continues, GruInv
    <3>2. /\ Relaid(Packed(0))' = Relaid(Packed(0)) /\ Relaid(Packed(1))' = Relaid(Packed(1))
          /\ SumsOf(Packed(0))' = SumsOf(Packed(0)) /\ SumsOf(Packed(1))' = SumsOf(Packed(1))
      BY <2>6, CallFrozen
    <3> QED  BY <1>2, <2>6, <3>1, <3>2 DEF GruInv, GruExact
  <2>7. CASE call' = call /\ call.family = "gru" /\ PrepareGru
    <3>1. Gru  BY <1>2, <2>7 DEF Gru, Layer, GruInv, NoCall
    <3>2. /\ mem.W = Relaid(Packed(0)) /\ mem.V = Relaid(Packed(1))
          /\ mem.rs = SumsOf(Packed(0)) /\ mem.rsV = SumsOf(Packed(1))
      BY <1>2, <2>7 DEF GruInv, PrepareGru
    <3>3. stage' = "aborted" \/ (stage' = "ready" /\ GruReady')
      BY <2>7, <3>1, <3>2, GruPrepared
    <3> QED  BY <1>2, <2>7, <3>3 DEF GruInv, GruExact
  <2>8. CASE call' = call /\ call.family = "gru" /\ (Arm!ArmNext \/ X86Next)
    <3>1. Gru  BY <1>2, <2>8 DEF Gru, Layer, GruInv, NoCall
    <3>2. CASE stage = "ready"
      <4>1. stage' = "loop" /\ GruRuns'
        BY <1>2, <2>8, <3>1, <3>2, GruEnters DEF GruInv
      <4> QED  BY <1>2, <2>8, <4>1 DEF GruInv, GruExact
    <3>3. CASE stage = "loop"
      <4>1. GruGoes  BY <1>2, <2>8, <3>1, <3>3, GruSteps DEF GruInv
      <4> QED  BY <1>2, <2>8, <4>1 DEF GruInv, GruExact, GruGoes
    <3> QED  BY <2>8, <3>2, <3>3, GruKernelStage
  <2>9. QuantStart => stage' = "packed" /\ call' \in Calls /\ call'.family = "quant"
    BY DEF QuantStart, Starts
  <2>10. (PrepareGru => call.family = "gru") /\ (PrepareGemm => call.family = "gemm")
    BY DEF PrepareGru, PrepareGemm
  <2> QED
    BY <1>2, <2>1, <2>2, <2>3, <2>4, <2>5, <2>6, <2>7, <2>8, <2>9, <2>10, FamilyStep DEF Others
<1>3. GruInv => GruExact  BY DEF GruInv
<1> QED  BY <1>1, <1>2, <1>3, PTL DEF KSpec

-----------------------------------------------------------------------------
(* Attention: its packs *)

Attn == call \in Calls /\ call.family = "attn"

\* A head whose repack is decided as its kernel is (fe_attention.c:203).
Repackable == ~(call.tier = "i8mm" /\ (call.HD % 8) # 0 /\ (HD_K % 8) = 0)

\* What the packs of head h hold: queries and keys padded with zeros, values.
QueryAt(h, m, k) == IF k < call.HD THEN Qkv(h, m, k) ELSE 0
KeyAt(h, n, k) == IF k < call.HD THEN Qkv(h, n, call.HD + k) ELSE 0
ValueAt(h, k, n) == Qkv(h, k, 2 * call.HD + n)

\* The packs of all heads, of the rows of the projection below top.
RowsPacked(top, Q, K, V) ==
  \A h \in Heads :
    /\ DOMAIN Q[h] = 0 .. call.F2 * HD_K - 1 /\ DOMAIN K[h] = 0 .. call.F2 * HD_K - 1
    /\ DOMAIN V[h] = 0 .. call.F2 * HD_V - 1
    /\ \A i \in 0 .. call.F2 * HD_K - 1 :
         /\ i \div HD_K < top => Q[h][i] = QueryAt(h, i \div HD_K, i % HD_K)
         /\ ColAt(HD_K, i) < top => K[h][i] = KeyAt(h, ColAt(HD_K, i), KAt(HD_K, i))
    /\ \A i \in 0 .. call.F2 * HD_V - 1 :
         KAt(call.F2, i) < top /\ ColAt(call.F2, i) < call.HD
           => V[h][i] = ValueAt(h, KAt(call.F2, i), ColAt(call.F2, i))

\* The weight of column n and depth k, as gemm_int32 of the tier reads it.
ReadAt(w, K, n, k) ==
  IF call.tier = "i8mm" /\ (K % 8) = 0
  THEN w[(n \div NR) * BlockBytes(K) + 64 * (k \div 8) + 8 * (n % NR) + (k % 8)]
  ELSE PackedAt(w, K, n, k)

\* The packs as the two products read them.
PacksRead(Q, K, V) ==
  \A h \in Heads :
    /\ \A m \in 0 .. call.F2 - 1, k \in 0 .. HD_K - 1 : Q[h][m * HD_K + k] = QueryAt(h, m, k)
    /\ \A n \in 0 .. call.F2 - 1, k \in 0 .. HD_K - 1 : ReadAt(K[h], HD_K, n, k) = KeyAt(h, n, k)
    /\ \A n \in 0 .. call.HD - 1, k \in 0 .. call.F2 - 1 :
         ReadAt(V[h], call.F2, n, k) = ValueAt(h, k, n)

\* The sizes of a head.
LEMMA HeadSizes ==
  ASSUME Attn
  PROVE  /\ call.F2 \in Nat \ {0} /\ call.NH \in Nat \ {0} /\ call.HD \in Nat \ {0}
         /\ call.F2 % 8 = 0 /\ call.F2 % 4 = 0
         /\ HD_K \in Nat \ {0} /\ HD_K % 4 = 0 /\ call.HD <= HD_K
         /\ HD_V \in Nat \ {0} /\ HD_V % 8 = 0 /\ call.HD <= HD_V
         /\ call.HD % 8 = 0 => HD_K = call.HD
<1>1. /\ call.F2 \in Nat \ {0} /\ call.NH \in Nat \ {0} /\ call.HD \in Nat \ {0}
      /\ call.F2 % 8 = 0
  BY ProjectionAssumption DEF Attn
<1> DEFINE n == call.HD
<1>2. n \in Nat \ {0}  BY <1>1
<1>3. /\ 4 * ((n + 3) \div 4) \in Nat \ {0} /\ (4 * ((n + 3) \div 4)) % 4 = 0
      /\ n <= 4 * ((n + 3) \div 4) /\ (n % 8 = 0 => 4 * ((n + 3) \div 4) = n)
      /\ 8 * ((n + 7) \div 8) \in Nat \ {0} /\ (8 * ((n + 7) \div 8)) % 8 = 0
      /\ n <= 8 * ((n + 7) \div 8)
  <2> HIDE DEF n
  <2> QED  BY <1>2
<1> QED  BY <1>1, <1>3 DEF HD_K, HD_V

\* Where the byte of a column and a depth is in a buffer of whole blocks.
LEMMA InPack ==
  ASSUME NEW N \in Nat, N % 8 = 0, NEW K \in Nat \ {0}, K % 4 = 0,
         NEW n \in 0 .. N - 1, NEW k \in 0 .. K - 1
  PROVE  \E i \in 0 .. N * K - 1 :
           ColAt(K, i) = n /\ KAt(K, i) = k /\ \A w : PackedAt(w, K, n, k) = w[i]
<1> DEFINE i == (n \div NR) * BlockBytes(K) + 32 * (k \div 4) + 4 * (n % NR) + (k % 4)
           B == BlockBytes(K)
           b == n \div NR
           c == N \div 8
<1>1. B = 8 * K /\ B \in Nat \ {0} /\ k \in 0 .. 4 * K4(K) - 1  BY DEF BlockBytes, K4, NR
<1>2. i \in Nat /\ ColAt(K, i) = n /\ KAt(K, i) = k /\ i \div B = b
  <2>1. n \in Nat  OBVIOUS
  <2> QED  BY <1>1, <2>1, PackedIndex
<1>3. b \in Nat /\ b + 1 <= c /\ c \in Nat /\ N = 8 * c  BY DEF NR
<1>4. i < N * K
  <2>1. i \in Int  BY <1>2
  <2> HIDE DEF i, B, b, c
  <2>2. i = B * (i \div B) + (i % B) /\ i % B \in 0 .. B - 1  BY <1>1, <2>1, DivMod, Zenon
  <2>3. i = b * B + (i % B)
    <3>1. i \div B = b  BY <1>2
    <3>2. i = B * b + (i % B)  BY <2>2, <3>1, Zenon
    <3>3. B * b = b * B  BY <1>1, <1>3
    <3> QED  BY <3>2, <3>3, Zenon
  <2>4. (b + 1) * B = b * B + B /\ b * B \in Int /\ c * B \in Int  BY <1>1, <1>3
  <2>5. (b + 1) * B <= c * B  BY <1>1, <1>3, ProductMonotone
  <2>6. c * B = N * K  BY <1>1, <1>3
  <2> QED  BY <1>1, <2>1, <2>2, <2>3, <2>4, <2>5, <2>6
<1>5. \A w : PackedAt(w, K, n, k) = w[i]  BY DEF PackedAt
<1> HIDE DEF i
<1>6. i \in 0 .. N * K - 1
  <2>1. N * K \in Int  OBVIOUS
  <2> QED  BY <1>2, <1>4, <2>1
<1> QED  BY <1>2, <1>5, <1>6

\* Repacked for I8MM or not, a pack is read as it was written.
LEMMA RepackedRead ==
  ASSUME NEW N \in Nat, N % 8 = 0, NEW K \in Nat \ {0}, K % 4 = 0, NEW w,
         DOMAIN w = 0 .. N * K - 1, NEW n \in 0 .. N - 1, NEW k \in 0 .. K - 1
  PROVE  ReadAt(IF call.tier = "i8mm" THEN RepackI8mm(w, N, K) ELSE w, K, n, k)
           = PackedAt(w, K, n, k)
<1>1. CASE call.tier = "i8mm" /\ K % 8 = 0
  <2> DEFINE i == (n \div NR) * BlockBytes(K) + 64 * (k \div 8) + 8 * (n % NR) + (k % 8)
             j == (n \div NR) * BlockBytes(K) + 64 * (k \div 8)
                    + 16 * ((n % NR) \div 2) + 8 * (n % 2) + (k % 8)
  <2>1. i = j
    <3>1. 8 * (n % 8) = 16 * ((n % 8) \div 2) + 8 * (n % 2)  OBVIOUS
    <3>2. /\ (n \div 8) * BlockBytes(K) \in Int /\ 64 * (k \div 8) \in Int /\ k % 8 \in Int
          /\ 16 * ((n % 8) \div 2) \in Int /\ 8 * (n % 2) \in Int
      BY DEF BlockBytes, K4, NR
    <3> QED  BY <3>1, <3>2 DEF NR
  <2>2. RepackI8mm(w, N, K)[j] = PackedAt(w, K, n, k)
    <3>1. (N \div NR) * NR = N /\ BlockBytes(K) = 8 * K  BY DEF NR, BlockBytes, K4
    <3>2. (N \div NR) * BlockBytes(K) = N * K
      <4> DEFINE c == N \div NR
      <4>1. c \in Nat /\ N = 8 * c  BY DEF NR
      <4> HIDE DEF c
      <4>2. c * (8 * K) = N * K  BY <4>1
      <4> QED  BY <3>1, <4>2 DEF c
    <3>3. n \in 0 .. (N \div NR) * NR - 1  BY <3>1
    <3>4. 0 .. (N \div NR) * BlockBytes(K) - 1 \subseteq DOMAIN w  BY <3>2
    <3> QED  BY <1>1, <3>3, <3>4, RepackExact
  <2> HIDE DEF i, j
  <2> QED  BY <1>1, <2>1, <2>2 DEF ReadAt, i
<1>2. CASE ~(call.tier = "i8mm" /\ K % 8 = 0)
  <2>1. K % 8 # 0 => RepackI8mm(w, N, K) = w  BY DEF RepackI8mm
  <2> QED  BY <1>2, <2>1 DEF ReadAt
<1> QED  BY <1>1, <1>2

\* Where a byte of a pack belongs: never before the first row, column or depth.
LEMMA PackPlaces ==
  ASSUME Attn, NEW i \in Nat
  PROVE  /\ i \div HD_K \in Nat /\ i % HD_K \in 0 .. HD_K - 1
         /\ ColAt(HD_K, i) \in Nat /\ KAt(HD_K, i) \in Nat
         /\ KAt(call.F2, i) \in Nat /\ ColAt(call.F2, i) \in Nat
<1>1. i \div HD_K \in Nat /\ i % HD_K \in 0 .. HD_K - 1
  <2> DEFINE d == HD_K
  <2>1. d \in Nat \ {0}  BY HeadSizes
  <2> HIDE DEF d
  <2>2. i \div d \in Int /\ i % d \in 0 .. d - 1  BY <2>1, DivMod
  <2>3. 0 <= i \div d
    <3>1. d * 0 <= i /\ i < d * (i + 1)
      <4>1. 1 * (i + 1) <= d * (i + 1)  BY <2>1, ProductMonotone
      <4>2. d * (i + 1) \in Int /\ d * 0 = 0  BY <2>1
      <4> QED  BY <4>1, <4>2
    <3> QED  BY <2>1, <3>1, DivBounds
  <2> QED  BY <2>2, <2>3 DEF d
<1>2. /\ ColAt(HD_K, i) \in Nat /\ KAt(HD_K, i) \in 0 .. 4 * K4(HD_K) - 1
      /\ ColAt(call.F2, i) \in Nat /\ KAt(call.F2, i) \in 0 .. 4 * K4(call.F2) - 1
  <2>1. HD_K \in Nat /\ HD_K > 0 /\ call.F2 \in Nat /\ call.F2 > 0  BY HeadSizes
  <2> QED  BY <2>1, PackedWhole, Zenon
<1> QED  BY <1>1, <1>2

\* The packs after a pass over four rows of the projection.
MoreQ(p, Q) ==
  LET rows == 4 * p .. 4 * p + 3
      Padded(h, m, t, from) == IF t < call.HD THEN Qkv(h, m, from + t) ELSE 0
  IN  [h \in Heads |-> [i \in DOMAIN Q[h] |->
         IF i \div HD_K \in rows THEN Padded(h, i \div HD_K, i % HD_K, 0) ELSE Q[h][i]]]

MoreK(p, K) ==
  LET rows == 4 * p .. 4 * p + 3
      Padded(h, m, t, from) == IF t < call.HD THEN Qkv(h, m, from + t) ELSE 0
  IN  [h \in Heads |-> [i \in DOMAIN K[h] |->
         IF ColAt(HD_K, i) \in rows THEN Padded(h, ColAt(HD_K, i), KAt(HD_K, i), call.HD)
         ELSE K[h][i]]]

MoreV(p, V) ==
  LET rows == 4 * p .. 4 * p + 3
  IN  [h \in Heads |-> [i \in DOMAIN V[h] |->
         IF KAt(call.F2, i) \in rows /\ ColAt(call.F2, i) < call.HD
         THEN Qkv(h, KAt(call.F2, i), 2 * call.HD + ColAt(call.F2, i)) ELSE V[h][i]]]

\* A pass over four rows of the projection packs them, and keeps the rows before.
LEMMA FourMoreRows ==
  ASSUME Attn, NEW p \in Nat, 4 * p < call.F2, NEW Q, NEW K, NEW V, RowsPacked(4 * p, Q, K, V)
  PROVE  4 * (p + 1) <= call.F2 /\ RowsPacked(4 * (p + 1), MoreQ(p, Q), MoreK(p, K), MoreV(p, V))
<1> DEFINE rows == 4 * p .. 4 * p + 3
           Padded(h, m, t, from) == IF t < call.HD THEN Qkv(h, m, from + t) ELSE 0
           Q1 == MoreQ(p, Q)
           K1 == MoreK(p, K)
           V1 == MoreV(p, V)
<1>1. /\ call.F2 \in Nat \ {0} /\ call.F2 % 4 = 0 /\ call.HD \in Nat \ {0}
      /\ HD_K \in Nat \ {0} /\ HD_V \in Nat \ {0}
  BY HeadSizes
<1>2. 4 * (p + 1) <= call.F2
  <2> DEFINE f == call.F2
  <2>1. f \in Nat /\ f % 4 = 0 /\ 4 * p < f  BY <1>1
  <2> HIDE DEF f
  <2> QED  BY <2>1 DEF f
<1>3. ASSUME NEW x \in Nat PROVE x < 4 * (p + 1) <=> x \in rows \/ x < 4 * p
  OBVIOUS
<1>4. ASSUME NEW i \in Nat
      PROVE  /\ i \div HD_K \in Nat /\ i % HD_K \in 0 .. HD_K - 1
             /\ ColAt(HD_K, i) \in Nat /\ KAt(HD_K, i) \in Nat
             /\ KAt(call.F2, i) \in Nat /\ ColAt(call.F2, i) \in Nat
  BY PackPlaces
<1>5. ASSUME NEW h \in Heads
      PROVE  /\ DOMAIN Q[h] = 0 .. call.F2 * HD_K - 1 /\ DOMAIN K[h] = 0 .. call.F2 * HD_K - 1
             /\ DOMAIN V[h] = 0 .. call.F2 * HD_V - 1
             /\ DOMAIN Q1[h] = DOMAIN Q[h] /\ DOMAIN K1[h] = DOMAIN K[h]
             /\ DOMAIN V1[h] = DOMAIN V[h]
  BY DEF RowsPacked, MoreQ, MoreK, MoreV
<1>6. ASSUME NEW h \in Heads, NEW i \in 0 .. call.F2 * HD_K - 1, i \div HD_K < 4 * (p + 1)
      PROVE  Q1[h][i] = QueryAt(h, i \div HD_K, i % HD_K)
  <2> DEFINE m == i \div HD_K
             t == i % HD_K
  <2>1. i \in Nat /\ i \in DOMAIN Q[h]
    <3>1. i \in Nat  OBVIOUS
    <3>2. DOMAIN Q[h] = 0 .. call.F2 * HD_K - 1  BY <1>5
    <3> QED  BY <3>1, <3>2
  <2>2. m \in Nat /\ t \in Nat  BY <1>4, <2>1
  <2>3. Q1[h][i] = IF m \in rows THEN Padded(h, m, t, 0) ELSE Q[h][i]  BY <2>1 DEF MoreQ
  <2>4. m < 4 * p => Q[h][i] = QueryAt(h, m, t)  BY DEF RowsPacked
  <2>5. m \in rows \/ m < 4 * p  BY <1>3, <1>6, <2>2
  <2>6. Padded(h, m, t, 0) = QueryAt(h, m, t)
    <3>1. 0 + t = t  BY <2>2
    <3> QED  BY <3>1 DEF QueryAt
  <2>7. m \in rows => ~(m < 4 * p)  BY <2>2
  <2> HIDE DEF Q1, m, t, rows, Padded
  <2>8. Q1[h][i] = QueryAt(h, m, t)  BY <2>3, <2>4, <2>5, <2>6
  <2> QED  BY <2>8 DEF m, t
<1>7. ASSUME NEW h \in Heads, NEW i \in 0 .. call.F2 * HD_K - 1, ColAt(HD_K, i) < 4 * (p + 1)
      PROVE  K1[h][i] = KeyAt(h, ColAt(HD_K, i), KAt(HD_K, i))
  <2> DEFINE m == ColAt(HD_K, i)
             t == KAt(HD_K, i)
  <2>1. i \in Nat /\ i \in DOMAIN K[h]
    <3>1. i \in Nat  OBVIOUS
    <3>2. DOMAIN K[h] = 0 .. call.F2 * HD_K - 1  BY <1>5
    <3> QED  BY <3>1, <3>2
  <2>2. m \in Nat  BY <1>4, <2>1
  <2>3. K1[h][i] = IF m \in rows THEN Padded(h, m, t, call.HD) ELSE K[h][i]
    BY <2>1 DEF MoreK
  <2>4. m < 4 * p => K[h][i] = KeyAt(h, m, t)  BY DEF RowsPacked
  <2>5. m \in rows \/ m < 4 * p  BY <1>3, <1>7, <2>2
  <2>6. Padded(h, m, t, call.HD) = KeyAt(h, m, t)  BY DEF KeyAt
  <2> HIDE DEF K1, m, t, rows, Padded
  <2>8. K1[h][i] = KeyAt(h, m, t)  BY <2>3, <2>4, <2>5, <2>6
  <2> QED  BY <2>8 DEF m, t
<1>8. ASSUME NEW h \in Heads, NEW i \in 0 .. call.F2 * HD_V - 1,
             KAt(call.F2, i) < 4 * (p + 1), ColAt(call.F2, i) < call.HD
      PROVE  V1[h][i] = ValueAt(h, KAt(call.F2, i), ColAt(call.F2, i))
  <2> DEFINE m == KAt(call.F2, i)
             n == ColAt(call.F2, i)
  <2>1. i \in Nat /\ i \in DOMAIN V[h]
    <3>1. i \in Nat  OBVIOUS
    <3>2. DOMAIN V[h] = 0 .. call.F2 * HD_V - 1  BY <1>5
    <3> QED  BY <3>1, <3>2
  <2>2. m \in Nat  BY <1>4, <2>1
  <2>3. V1[h][i] = IF m \in rows /\ n < call.HD THEN Qkv(h, m, 2 * call.HD + n) ELSE V[h][i]
    BY <2>1 DEF MoreV
  <2>4. m < 4 * p => V[h][i] = ValueAt(h, m, n)  BY <1>8 DEF RowsPacked
  <2>5. m \in rows \/ m < 4 * p  BY <1>3, <1>8, <2>2
  <2>6. n < call.HD  BY <1>8
  <2> HIDE DEF V1, m, n, rows
  <2>8. V1[h][i] = ValueAt(h, m, n)  BY <2>3, <2>4, <2>5, <2>6 DEF ValueAt
  <2> QED  BY <2>8 DEF m, n
<1> HIDE DEF Q1, K1, V1
<1>9. RowsPacked(4 * (p + 1), Q1, K1, V1)  BY <1>5, <1>6, <1>7, <1>8, Zenon DEF RowsPacked
<1> QED  BY <1>2, <1>9 DEF Q1, K1, V1

\* All rows packed and repacked: the products read queries, keys and values.
LEMMA PacksReady ==
  ASSUME Attn, Repackable, NEW Q, NEW K, NEW V, RowsPacked(call.F2, Q, K, V), NEW K1, NEW V1,
         \A h \in Heads :
           /\ K1[h] = IF call.tier = "i8mm" /\ call.HD % 8 = 0
                      THEN RepackI8mm(K[h], call.F2, call.HD) ELSE K[h]
           /\ V1[h] = IF call.tier = "i8mm" THEN RepackI8mm(V[h], HD_V, call.F2) ELSE V[h]
  PROVE  PacksRead(Q, K1, V1)
<1>1. /\ call.F2 \in Nat \ {0} /\ call.F2 % 4 = 0 /\ call.F2 % 8 = 0 /\ call.HD \in Nat \ {0}
      /\ HD_K \in Nat \ {0} /\ HD_K % 4 = 0
      /\ HD_V \in Nat \ {0} /\ HD_V % 8 = 0 /\ call.HD <= HD_V
      /\ call.HD % 8 = 0 => HD_K = call.HD
  BY HeadSizes
<1>2. ASSUME NEW h \in Heads, NEW m \in 0 .. call.F2 - 1, NEW k \in 0 .. HD_K - 1
      PROVE  Q[h][m * HD_K + k] = QueryAt(h, m, k)
  <2> DEFINE i == m * HD_K + k
  <2>1. i \div HD_K = m /\ i % HD_K = k /\ i \in 0 .. call.F2 * HD_K - 1
    <3>1. m \in Nat /\ m < call.F2  BY <1>1
    <3> QED  BY <1>1, <3>1, TileOffset, Zenon
  <2>2. m < call.F2  BY <1>1
  <2> HIDE DEF i
  <2>3. Q[h][i] = QueryAt(h, m, k)  BY <2>1, <2>2 DEF RowsPacked
  <2> QED  BY <2>3 DEF i
<1>3. ASSUME NEW h \in Heads, NEW n \in 0 .. call.F2 - 1, NEW k \in 0 .. HD_K - 1
      PROVE  ReadAt(K1[h], HD_K, n, k) = KeyAt(h, n, k)
  <2>1. PackedAt(K[h], HD_K, n, k) = KeyAt(h, n, k)
    <3>3. call.F2 \in Nat /\ call.F2 % 8 = 0  BY <1>1
    <3>1. PICK i \in 0 .. call.F2 * HD_K - 1 :
            ColAt(HD_K, i) = n /\ KAt(HD_K, i) = k /\ \A x : PackedAt(x, HD_K, n, k) = x[i]
      BY <1>1, <3>3, InPack, Zenon
    <3>2. n < call.F2  BY <1>1
    <3> QED  BY <3>1, <3>2 DEF RowsPacked
  <2>2. K1[h] = IF call.tier = "i8mm" THEN RepackI8mm(K[h], call.F2, HD_K) ELSE K[h]
    <3>1. CASE call.HD % 8 = 0  BY <1>1, <3>1
    <3>2. CASE call.HD % 8 # 0
      <4>1. call.tier = "i8mm" => HD_K % 8 # 0  BY <3>2 DEF Repackable
      <4>2. call.tier = "i8mm" => RepackI8mm(K[h], call.F2, HD_K) = K[h]  BY <4>1 DEF RepackI8mm
      <4> QED  BY <3>2, <4>2
    <3> QED  BY <3>1, <3>2
  <2>3. DOMAIN K[h] = 0 .. call.F2 * HD_K - 1  BY DEF RowsPacked
  <2> QED  BY <1>1, <2>1, <2>2, <2>3, RepackedRead
<1>4. ASSUME NEW h \in Heads, NEW n \in 0 .. call.HD - 1, NEW k \in 0 .. call.F2 - 1
      PROVE  ReadAt(V1[h], call.F2, n, k) = ValueAt(h, k, n)
  <2>1. n \in 0 .. HD_V - 1 /\ n < call.HD /\ k < call.F2  BY <1>1
  <2>5. HD_V * call.F2 = call.F2 * HD_V  BY <1>1
  <2>6. /\ HD_V \in Nat /\ HD_V % 8 = 0 /\ call.F2 \in Nat \ {0} /\ call.F2 % 4 = 0
        /\ n \in 0 .. HD_V - 1 /\ k \in 0 .. call.F2 - 1
    BY <1>1, <2>1
  <2>2. PackedAt(V[h], call.F2, n, k) = ValueAt(h, k, n)
    <3>1. PICK i \in 0 .. HD_V * call.F2 - 1 :
            /\ ColAt(call.F2, i) = n /\ KAt(call.F2, i) = k
            /\ PackedAt(V[h], call.F2, n, k) = V[h][i]
      <4> DEFINE c == HD_V
                 f == call.F2
                 w == V[h]
      <4>1. /\ c \in Nat /\ c % 8 = 0 /\ f \in Nat \ {0} /\ f % 4 = 0
            /\ n \in 0 .. c - 1 /\ k \in 0 .. f - 1
        BY <2>6
      <4> HIDE DEF c, f, w
      <4>2. \E i \in 0 .. c * f - 1 :
              ColAt(f, i) = n /\ KAt(f, i) = k /\ PackedAt(w, f, n, k) = w[i]
        <5>1. c \in Nat /\ c % 8 = 0  BY <4>1
        <5>2. f \in Nat \ {0} /\ f % 4 = 0  BY <4>1
        <5>3. PICK i \in 0 .. c * f - 1 :
                ColAt(f, i) = n /\ KAt(f, i) = k /\ \A x : PackedAt(x, f, n, k) = x[i]
          BY <4>1, <5>1, <5>2, InPack, Zenon
        <5>4. PackedAt(w, f, n, k) = w[i]  BY <5>3, Zenon
        <5> QED  BY <5>3, <5>4
      <4> QED  BY <4>2 DEF c, f, w
    <3>2. i \in 0 .. call.F2 * HD_V - 1  BY <2>5, <3>1
    <3> QED  BY <2>1, <3>1, <3>2 DEF RowsPacked
  <2>3. DOMAIN V[h] = 0 .. HD_V * call.F2 - 1  BY <2>5 DEF RowsPacked
  <2>4. V1[h] = IF call.tier = "i8mm" THEN RepackI8mm(V[h], HD_V, call.F2) ELSE V[h]
    OBVIOUS
  <2>7. ReadAt(V1[h], call.F2, n, k) = PackedAt(V[h], call.F2, n, k)
    <3> DEFINE c == HD_V
               f == call.F2
               w == V[h]
    <3>1. /\ c \in Nat /\ c % 8 = 0 /\ f \in Nat \ {0} /\ f % 4 = 0 /\ n \in 0 .. c - 1
          /\ k \in 0 .. f - 1 /\ DOMAIN w = 0 .. c * f - 1
      BY <2>3, <2>6
    <3> HIDE DEF c, f, w
    <3>2. ReadAt(IF call.tier = "i8mm" THEN RepackI8mm(w, c, f) ELSE w, f, n, k)
            = PackedAt(w, f, n, k)
      BY <3>1, RepackedRead
    <3> QED  BY <2>4, <3>2 DEF c, f, w
  <2> QED  BY <2>2, <2>7
<1> QED  BY <1>2, <1>3, <1>4 DEF PacksRead

\* Zeros past the end of a row add nothing.
LEMMA SumToPadded ==
  ASSUME NEW t, NEW u, NEW m \in Nat, NEW n \in Nat, m <= n,
         \A i \in 0 .. m - 1 : t[i] = u[i] /\ u[i] \in Int, \A i \in m .. n - 1 : t[i] = 0
  PROVE  SumTo(n, t) = SumTo(m, u)
<1> DEFINE Same == {j \in Nat : m <= j /\ j <= n => SumTo(j, t) = SumTo(m, u)}
<1>0. SumTo(m, t) = SumTo(m, u)
  <2>1. \A i \in 0 .. m - 1 : t[i] = u[i]  OBVIOUS
  <2> QED  BY <2>1, SumToSame
<1>1. 0 \in Same
  <2>1. m <= 0 => m = 0  OBVIOUS
  <2> QED  BY <1>0, <2>1
<1>2. ASSUME NEW j \in Nat, j \in Same PROVE j + 1 \in Same
  <2> SUFFICES ASSUME m <= j + 1, j + 1 <= n PROVE SumTo(j + 1, t) = SumTo(m, u)
    OBVIOUS
  <2>1. CASE m = j + 1  BY <1>0, <2>1
  <2>2. CASE m <= j
    <3>1. SumTo(j + 1, t) = SumTo(j, t) + t[j]  BY SumToStep
    <3>2. SumTo(j, t) = SumTo(m, u) /\ t[j] = 0  BY <1>2, <2>2
    <3>3. SumTo(m, u) \in Int
      <4>1. \A i \in 0 .. m - 1 : u[i] \in Int  OBVIOUS
      <4>2. m \in 0 .. m  OBVIOUS
      <4> QED  BY <4>1, <4>2, SumToInt
    <3> QED  BY <3>1, <3>2, <3>3
  <2> QED  BY <2>1, <2>2
<1> HIDE DEF Same
<1>3. \A j \in Nat : j \in Same  BY <1>1, <1>2, SetInduction
<1>4. n \in Same  BY <1>3
<1> QED  BY <1>4 DEF Same

-----------------------------------------------------------------------------
(* Attention: its two products *)

\* Query, key and value of a head are in its part of the row.
LEMMA HeadCodes ==
  ASSUME Attn, NEW h \in Heads, NEW m \in 0 .. call.F2 - 1, NEW t \in 0 .. call.HD - 1
  PROVE  /\ Qkv(h, m, t) \in Int /\ Qkv(h, m, call.HD + t) \in Int
         /\ Qkv(h, m, 2 * call.HD + t) \in Int
<1>1. call.F2 \in Nat \ {0} /\ call.NH \in Nat \ {0} /\ call.HD \in Nat \ {0}  BY HeadSizes
<1>2. \A k \in 0 .. 3 * call.NH * call.HD - 1 : Code(call.data, 0, m, k) \in Int
  BY ProjectionAssumption DEF Attn
<1>3. ASSUME NEW D1 \in Nat \ {0}, NEW N1 \in Nat \ {0}, NEW x \in 0 .. D1 - 1,
             NEW g \in 0 .. N1 - 1, NEW part \in 0 .. 2
      PROVE  g * 3 * D1 + (part * D1 + x) \in 0 .. 3 * N1 * D1 - 1
  <2>1. g * 3 * D1 = 3 * (g * D1) /\ 3 * N1 * D1 = 3 * (N1 * D1)  OBVIOUS
  <2>2. (g + 1) * D1 <= N1 * D1  BY ProductMonotone
  <2>3. (g + 1) * D1 = g * D1 + D1 /\ g * D1 \in Nat /\ N1 * D1 \in Nat  OBVIOUS
  <2>4. part * D1 \in {0, D1, 2 * D1}  OBVIOUS
  <2> QED  BY <2>1, <2>2, <2>3, <2>4
<1>4. h \in 0 .. call.NH - 1  BY DEF Heads
<1>5. ASSUME NEW part \in 0 .. 2
      PROVE  Code(call.data, 0, m, h * 3 * call.HD + (part * call.HD + t)) \in Int
  BY <1>1, <1>2, <1>3, <1>4
<1>6. 0 * call.HD + t = t /\ 1 * call.HD + t = call.HD + t  BY <1>1
<1>7. 0 \in 0 .. 2 /\ 1 \in 0 .. 2 /\ 2 \in 0 .. 2  OBVIOUS
<1> QED  BY <1>5, <1>6, <1>7 DEF Qkv

\* gemm_int32 is the sum of products, of a row and of the weights as it reads them.
LEMMA ProductOf ==
  ASSUME NEW a, NEW w, NEW K \in Nat, NEW m, NEW n, NEW x,
         \A k \in 0 .. K - 1 : a[m * K + k] * ReadAt(w, K, n, k) = x[k]
  PROVE  GemmInt32(a, w, K, m, n) = SumTo(K, x)
<1> DEFINE t == [k \in Nat |-> a[m * K + k] *
                   IF call.tier = "i8mm" /\ (K % 8) = 0
                   THEN w[(n \div NR) * BlockBytes(K) + 64 * (k \div 8) + 8 * (n % NR) + (k % 8)]
                   ELSE PackedAt(w, K, n, k)]
<1>1. \A k \in 0 .. K - 1 : t[k] = x[k]  BY DEF ReadAt
<1>2. GemmInt32(a, w, K, m, n) = SumTo(K, t)  BY DEF GemmInt32
<1> HIDE DEF t
<1> QED  BY <1>1, <1>2, SumToSame

\* A cell of the scores of head h: its padding adds nothing.
LEMMA ScoreExact ==
  ASSUME Attn, NEW Q, NEW K, NEW V, PacksRead(Q, K, V), NEW h \in Heads,
         NEW m \in 0 .. call.F2 - 1, NEW n \in 0 .. call.F2 - 1
  PROVE  GemmInt32(Q[h], K[h], HD_K, m, n) = ScoreRow(h, m)[n]
<1> DEFINE x == [k \in Nat |-> QueryAt(h, m, k) * KeyAt(h, n, k)]
           u == [t \in Nat |-> Qkv(h, m, t) * Qkv(h, n, call.HD + t)]
           D1 == call.HD
           D2 == HD_K
<1>1. D1 \in Nat \ {0} /\ D2 \in Nat \ {0} /\ D1 <= D2  BY HeadSizes
<1>2. GemmInt32(Q[h], K[h], HD_K, m, n) = SumTo(D2, x)
  <2>1. \A k \in 0 .. HD_K - 1 : Q[h][m * HD_K + k] * ReadAt(K[h], HD_K, n, k) = x[k]
    <3>1. \A k \in 0 .. HD_K - 1 : Q[h][m * HD_K + k] = QueryAt(h, m, k)  BY DEF PacksRead
    <3>2. \A k \in 0 .. HD_K - 1 : ReadAt(K[h], HD_K, n, k) = KeyAt(h, n, k)  BY DEF PacksRead
    <3>3. \A k \in 0 .. HD_K - 1 : k \in Nat  BY <1>1
    <3>4. \A k \in Nat : x[k] = QueryAt(h, m, k) * KeyAt(h, n, k)  OBVIOUS
    <3> HIDE DEF x
    <3> QED  BY <3>1, <3>2, <3>3, <3>4
  <2>2. HD_K \in Nat  BY <1>1
  <2> HIDE DEF x
  <2>3. GemmInt32(Q[h], K[h], HD_K, m, n) = SumTo(HD_K, x)  BY <2>1, <2>2, ProductOf
  <2> QED  BY <2>3 DEF D2
<1>3. \A i \in 0 .. D1 - 1 : x[i] = u[i]
  BY <1>1 DEF QueryAt, KeyAt
<1>4. \A i \in 0 .. D1 - 1 : u[i] \in Int
  <2> SUFFICES ASSUME NEW i \in 0 .. D1 - 1 PROVE u[i] \in Int  OBVIOUS
  <2>1. i \in Nat /\ i \in 0 .. call.HD - 1  BY <1>1
  <2>2. Qkv(h, m, i) \in Int
    BY <2>1, HeadCodes
  <2>3. Qkv(h, n, call.HD + i) \in Int
    BY <2>1, HeadCodes
  <2> QED  BY <2>1, <2>2, <2>3
<1>5. \A i \in D1 .. D2 - 1 : x[i] = 0
  <2> SUFFICES ASSUME NEW i \in D1 .. D2 - 1 PROVE x[i] = 0  OBVIOUS
  <2>1. i \in Nat /\ ~(i < call.HD)  BY <1>1
  <2>2. QueryAt(h, m, i) = 0 /\ KeyAt(h, n, i) = 0  BY <2>1 DEF QueryAt, KeyAt
  <2> QED  BY <2>1, <2>2
<1>6. ScoreRow(h, m)[n] = SumTo(D1, u)  BY DEF ScoreRow
<1> HIDE DEF x, u, D1, D2
<1>7. D1 \in Nat /\ D2 \in Nat /\ \A i \in 0 .. D1 - 1 : x[i] = u[i] /\ u[i] \in Int
  BY <1>1, <1>3, <1>4
<1>8. SumTo(D2, x) = SumTo(D1, u)  BY <1>1, <1>5, <1>7, SumToPadded
<1> QED  BY <1>2, <1>6, <1>8

\* Cell n of row m of head h of the result, and the scores of head h.
Mixed(h, m, n) ==
  LET row == ScoreRow(h, m)
  IN  SumTo(call.F2, [k \in Nat |-> Softmax(row, k) * Qkv(h, k, 2 * call.HD + n)])

ScoresOf(h, s) ==
  \A m \in 0 .. call.F2 - 1, k \in 0 .. call.F2 - 1 :
    s[m * call.F2 + k] = Softmax(ScoreRow(h, m), k)

\* The heads below top have their part of every row.
HeadsMixed(top, out) ==
  \A h \in Heads, m \in 0 .. call.F2 - 1, n \in 0 .. call.HD - 1 :
    h < top => out[m * call.NH * call.HD + h * call.HD + n] = Mixed(h, m, n)

AttnFields == {"Q", "K", "V", "s", "out"}

\* Stage by stage: the packs fill, then head after head is mixed.
AttnAt(st, p, Q, K, V, s, out) ==
  /\ DOMAIN out = 0 .. call.F2 * call.NH * call.HD - 1
  /\ st = "loaded" => p \in Nat /\ 4 * p <= call.F2 /\ RowsPacked(4 * p, Q, K, V)
  /\ Repackable /\ st \in {"loop", "ready"} =>
       p \in Nat /\ PacksRead(Q, K, V) /\ HeadsMixed(p, out)
  /\ Repackable /\ st = "ready" => p \in Heads /\ ScoresOf(p, s)
  /\ Repackable /\ st = "done" => HeadsMixed(call.NH, out)

AttnInv ==
  /\ call \in Calls \cup {NoCall}
  /\ call.family = "attn" =>
       AttnFields \subseteq DOMAIN mem /\ AttnAt(stage, pos, mem.Q, mem.K, mem.V, mem.s, mem.out)

\* What a call does not change, for attention.
LEMMA AttnKept ==
  ASSUME call' = call, NEW st, NEW p, NEW Q, NEW K, NEW V, NEW s, NEW out,
         AttnAt(st, p, Q, K, V, s, out), stage' = st, pos' = p,
         mem'.Q = Q, mem'.K = K, mem'.V = V, mem'.s = s, mem'.out = out
  PROVE  AttnAt(stage, pos, mem.Q, mem.K, mem.V, mem.s, mem.out)'
<1>1. Heads' = Heads /\ HD_K' = HD_K /\ HD_V' = HD_V /\ (Repackable' <=> Repackable)
  BY DEF Heads, HD_K, HD_V, Repackable
<1>2. \A h, m, t : Qkv(h, m, t)' = Qkv(h, m, t)  BY DEF Qkv
<1>3. \A h, m, k : /\ QueryAt(h, m, k)' = QueryAt(h, m, k)
                   /\ KeyAt(h, m, k)' = KeyAt(h, m, k)
                   /\ ValueAt(h, m, k)' = ValueAt(h, m, k)
  BY <1>2 DEF QueryAt, KeyAt, ValueAt
<1>4. \A w, N, n, k : ReadAt(w, N, n, k)' = ReadAt(w, N, n, k)  BY DEF ReadAt
<1>5. \A h, m : ScoreRow(h, m)' = ScoreRow(h, m)  BY <1>2 DEF ScoreRow
<1>6. \A h, m, n : Mixed(h, m, n)' = Mixed(h, m, n)  BY <1>2, <1>5 DEF Mixed
<1>7. DOMAIN out = 0 .. call'.F2 * call'.NH * call'.HD - 1  BY DEF AttnAt
<1>8. st = "loaded" => RowsPacked(4 * pos, mem.Q, mem.K, mem.V)'
  BY <1>1, <1>3 DEF AttnAt, RowsPacked
<1>9. Repackable /\ st \in {"loop", "ready"} => PacksRead(mem.Q, mem.K, mem.V)'
  BY <1>1, <1>3, <1>4 DEF AttnAt, PacksRead
<1>10. Repackable /\ st \in {"loop", "ready"} => HeadsMixed(pos, mem.out)'
  BY <1>1, <1>6 DEF AttnAt, HeadsMixed
<1>11. Repackable /\ st = "ready" => ScoresOf(pos, mem.s)'
  BY <1>1, <1>5 DEF AttnAt, ScoresOf
<1>12. Repackable /\ st = "done" => HeadsMixed(call.NH, mem.out)'
  BY <1>1, <1>6 DEF AttnAt, HeadsMixed
<1> QED
  BY <1>1, <1>7, <1>8, <1>9, <1>10, <1>11, <1>12 DEF AttnAt

\* A step that makes or keeps a call of attention is one of attention's.
LEMMA AttnStep ==
  ASSUME [KNext]_kvars, call'.family = "attn"
  PROVE  UNCHANGED kvars \/ AttnNext
<1>1. ~Return  BY DEF Return, NoCall
<1>2. ~LoadLayer  BY DEF LoadLayer, Starts
<1>3. ~QuantStart  BY DEF QuantStart, Starts
<1> QED  BY <1>1, <1>2, <1>3, FamilyStep DEF OwnStep

\* Where cell n of head h is in row m of the result.
IsCell(F, N, D1, m, h, n) ==
  LET e == m * N * D1 + h * D1 + n
  IN  /\ e \in 0 .. F * N * D1 - 1
      /\ e \div (N * D1) = m /\ (e % (N * D1)) \div D1 = h /\ e % D1 = n

\* Element n of head h in row m is one place of the output, and no other is.
LEMMA CellOfHead ==
  ASSUME NEW F \in Nat \ {0}, NEW N \in Nat \ {0}, NEW D1 \in Nat \ {0},
         NEW m \in 0 .. F - 1, NEW h \in 0 .. N - 1, NEW n \in 0 .. D1 - 1
  PROVE  IsCell(F, N, D1, m, h, n)
<1> DEFINE e == m * N * D1 + h * D1 + n
           r == h * D1 + n
           C == N * D1
<1>1. r \div D1 = h /\ r % D1 = n /\ r \in 0 .. N * D1 - 1
  <2>1. h \in Nat /\ h < N /\ N \in Nat  OBVIOUS
  <2> QED  BY <2>1, TileOffset, Zenon
<1>2. C \in Nat \ {0}
  <2>1. 1 * D1 <= N * D1  BY ProductMonotone
  <2> QED  BY <2>1
<1>3. (m * C + r) \div C = m /\ (m * C + r) % C = r /\ m * C + r \in 0 .. F * C - 1
  <2>1. m \in Nat /\ m < F /\ F \in Nat  OBVIOUS
  <2>2. r \in 0 .. C - 1  BY <1>1
  <2> HIDE DEF C, r
  <2> QED  BY <1>2, <2>1, <2>2, TileOffset, Zenon
<1>4. e = m * C + r /\ F * C = F * N * D1
  <2>1. m * N * D1 = m * (N * D1) /\ F * N * D1 = F * (N * D1)  OBVIOUS
  <2>2. m * (N * D1) \in Int /\ h * D1 \in Int  OBVIOUS
  <2> QED  BY <2>1, <2>2
<1>5. e % D1 = n
  <2> DEFINE b == m * N + h
  <2>1. b \in Nat /\ b < b + 1 /\ b + 1 \in Nat  OBVIOUS
  <2>2. b * D1 + n = e
    <3>1. (m * N + h) * D1 = m * N * D1 + h * D1  OBVIOUS
    <3> QED  BY <3>1
  <2> HIDE DEF b, e
  <2>3. (b * D1 + n) % D1 = n  BY <2>1, TileOffset, Zenon
  <2> QED  BY <2>2, <2>3
<1> HIDE DEF e, r, C
<1>6. e \in 0 .. F * N * D1 - 1 /\ e \div C = m /\ (e % C) \div D1 = h /\ e % D1 = n
  BY <1>1, <1>3, <1>4, <1>5
<1> QED  BY <1>6 DEF e, C, IsCell

\* The packs are cleared.
LEMMA AttnClears ==
  ASSUME AttnInv, AttnClear PROVE AttnInv'
<1> DEFINE Of(n, v) == [h \in Heads |-> [i \in 0 .. n - 1 |-> v]]
           Q == Of(call.F2 * HD_K, Stale)
           K == Q
           V == Of(call.F2 * HD_V, 0)
<1>1. /\ call' = call /\ stage' = "loaded" /\ pos' = 0 /\ AttnFields \subseteq DOMAIN mem'
      /\ mem'.Q = Q /\ mem'.K = K /\ mem'.V = V /\ mem'.s = mem.s /\ mem'.out = mem.out
  BY DEF AttnClear, Continues, AttnInv, AttnFields
<1>2. Attn  BY DEF AttnClear, AttnInv, Attn, NoCall
<1>3. call.F2 \in Nat /\ call.F2 >= 0 /\ 4 * 0 = 0  BY <1>2, HeadSizes
<1>4. RowsPacked(0, Q, K, V)
  <2>1. ASSUME NEW i \in Nat
        PROVE  ~(i \div HD_K < 0) /\ ~(ColAt(HD_K, i) < 0) /\ ~(KAt(call.F2, i) < 0)
    <3>1. i \div HD_K \in Nat /\ ColAt(HD_K, i) \in Nat /\ KAt(call.F2, i) \in Nat
      BY <1>2, PackPlaces
    <3> QED  BY <3>1
  <2>2. \A n, v : \A h \in Heads : DOMAIN Of(n, v)[h] = 0 .. n - 1  OBVIOUS
  <2>3. call.F2 * HD_K \in Nat /\ call.F2 * HD_V \in Nat
    <3>1. HD_K \in Nat /\ HD_V \in Nat  BY <1>2, HeadSizes
    <3> QED  BY <1>3, <3>1
  <2>4. \A i : i \in 0 .. call.F2 * HD_K - 1 \/ i \in 0 .. call.F2 * HD_V - 1 => i \in Nat
    BY <2>3
  <2> HIDE DEF Of
  <2> QED  BY <2>1, <2>2, <2>4 DEF RowsPacked
<1>5. AttnAt("loaded", 0, Q, K, V, mem.s, mem.out)
  <2> HIDE DEF Q, K, V
  <2> QED  BY <1>3, <1>4 DEF AttnAt, AttnInv, AttnClear
<1> HIDE DEF Q, K, V
<1>6. AttnAt(stage, pos, mem.Q, mem.K, mem.V, mem.s, mem.out)'
  BY <1>1, <1>5, AttnKept
<1> QED  BY <1>1, <1>6 DEF AttnInv

\* Four more rows are packed.
LEMMA AttnPacks ==
  ASSUME AttnInv, AttnPack PROVE AttnInv'
<1> DEFINE Q == MoreQ(pos, mem.Q)
           K == MoreK(pos, mem.K)
           V == MoreV(pos, mem.V)
<1>1. /\ call' = call /\ stage' = "loaded" /\ pos' = pos + 1 /\ AttnFields \subseteq DOMAIN mem'
      /\ mem'.Q = Q /\ mem'.K = K /\ mem'.V = V /\ mem'.s = mem.s /\ mem'.out = mem.out
  BY DEF AttnPack, Continues, AttnInv, AttnFields, MoreQ, MoreK, MoreV
<1>2. Attn  BY DEF AttnPack, AttnInv, Attn, NoCall
<1>3. /\ pos \in Nat /\ 4 * pos < call.F2 /\ RowsPacked(4 * pos, mem.Q, mem.K, mem.V)
      /\ DOMAIN mem.out = 0 .. call.F2 * call.NH * call.HD - 1
  BY DEF AttnPack, AttnInv, AttnAt
<1>4. 4 * (pos + 1) <= call.F2 /\ RowsPacked(4 * (pos + 1), Q, K, V)
  BY <1>2, <1>3, FourMoreRows
<1> HIDE DEF Q, K, V
<1>5. AttnAt("loaded", pos + 1, Q, K, V, mem.s, mem.out)
  BY <1>3, <1>4 DEF AttnAt
<1>6. AttnAt(stage, pos, mem.Q, mem.K, mem.V, mem.s, mem.out)'
  BY <1>1, <1>5, AttnKept
<1> QED  BY <1>1, <1>6 DEF AttnInv

\* The packs are repacked and the heads begin.
LEMMA AttnRepacks ==
  ASSUME AttnInv, AttnRepack PROVE AttnInv'
<1> DEFINE i8mm == call.tier = "i8mm"
           heads(x, on, N, K) == [h \in Heads |-> IF on THEN RepackI8mm(x[h], N, K) ELSE x[h]]
           K1 == heads(mem.K, i8mm /\ (call.HD % 8) = 0, call.F2, call.HD)
           V1 == heads(mem.V, i8mm, HD_V, call.F2)
<1>1. /\ call' = call /\ stage' = "loop" /\ pos' = 0 /\ AttnFields \subseteq DOMAIN mem'
      /\ mem'.Q = mem.Q /\ mem'.K = K1 /\ mem'.V = V1 /\ mem'.s = mem.s /\ mem'.out = mem.out
  BY DEF AttnRepack, Continues, AttnInv, AttnFields
<1>2. Attn  BY DEF AttnRepack, AttnInv, Attn, NoCall
<1>3. /\ RowsPacked(call.F2, mem.Q, mem.K, mem.V)
      /\ DOMAIN mem.out = 0 .. call.F2 * call.NH * call.HD - 1
  BY DEF AttnRepack, AttnInv, AttnAt
<1>4. \A h \in Heads :
        /\ K1[h] = IF call.tier = "i8mm" /\ call.HD % 8 = 0
                   THEN RepackI8mm(mem.K[h], call.F2, call.HD) ELSE mem.K[h]
        /\ V1[h] = IF call.tier = "i8mm" THEN RepackI8mm(mem.V[h], HD_V, call.F2) ELSE mem.V[h]
  OBVIOUS
<1> HIDE DEF K1, V1
<1>5. Repackable => PacksRead(mem.Q, K1, V1)  BY <1>2, <1>3, <1>4, PacksReady
<1>6. HeadsMixed(0, mem.out)
  <2>1. \A h \in Heads : ~(h < 0)
    <3>1. call.NH \in Nat  BY <1>2, HeadSizes
    <3> QED  BY <3>1 DEF Heads
  <2> QED  BY <2>1 DEF HeadsMixed
<1>7. AttnAt("loop", 0, mem.Q, K1, V1, mem.s, mem.out)
  BY <1>3, <1>5, <1>6 DEF AttnAt
<1>8. AttnAt(stage, pos, mem.Q, mem.K, mem.V, mem.s, mem.out)'
  BY <1>1, <1>7, AttnKept
<1> QED  BY <1>1, <1>8 DEF AttnInv

\* The scores of a head.
LEMMA AttnScored ==
  ASSUME AttnInv, AttnScores PROVE AttnInv'
<1> DEFINE F == call.F2
           c32 == [m \in 0 .. call.F2 - 1 |-> [n \in 0 .. call.F2 - 1 |->
                     GemmInt32(mem.Q[pos], mem.K[pos], HD_K, m, n)]]
           s1 == [e \in 0 .. call.F2 * call.F2 - 1 |->
                    Softmax(c32[e \div call.F2], e % call.F2)]
<1>1. /\ call' = call /\ stage' = "ready" /\ pos' = pos /\ AttnFields \subseteq DOMAIN mem'
      /\ mem'.Q = mem.Q /\ mem'.K = mem.K /\ mem'.V = mem.V /\ mem'.s = s1 /\ mem'.out = mem.out
  BY DEF AttnScores, Continues, AttnInv, AttnFields
<1>2. Attn  BY DEF AttnScores, AttnInv, Attn, NoCall
<1>3. /\ stage = "loop" /\ pos < call.NH /\ DOMAIN mem.out = 0 .. call.F2 * call.NH * call.HD - 1
      /\ Repackable => pos \in Nat /\ PacksRead(mem.Q, mem.K, mem.V) /\ HeadsMixed(pos, mem.out)
  BY DEF AttnScores, AttnInv, AttnAt
<1>4. Repackable => pos \in Heads
  <2>1. call.NH \in Nat  BY <1>2, HeadSizes
  <2> QED  BY <1>3, <2>1 DEF Heads
<1>5. ASSUME Repackable PROVE ScoresOf(pos, s1)
  <2>1. ASSUME NEW m \in 0 .. F - 1 PROVE c32[m] = ScoreRow(pos, m)
    <3>1. \A n \in 0 .. F - 1 :
            GemmInt32(mem.Q[pos], mem.K[pos], HD_K, m, n) = ScoreRow(pos, m)[n]
      BY <1>2, <1>3, <1>4, <1>5, ScoreExact
    <3>2. ScoreRow(pos, m) = [n \in 0 .. F - 1 |-> ScoreRow(pos, m)[n]]  BY DEF ScoreRow
    <3>3. c32[m] = [n \in 0 .. F - 1 |-> GemmInt32(mem.Q[pos], mem.K[pos], HD_K, m, n)]
      OBVIOUS
    <3> HIDE DEF c32
    <3> QED  BY <3>1, <3>2, <3>3
  <2> SUFFICES ASSUME NEW m \in 0 .. F - 1, NEW k \in 0 .. F - 1
               PROVE  s1[m * F + k] = Softmax(ScoreRow(pos, m), k)
    BY DEF ScoresOf
  <2>2. F \in Nat \ {0} /\ m \in Nat /\ m < F  BY <1>2, HeadSizes
  <2> DEFINE e == m * F + k
  <2>3. e \div F = m /\ e % F = k /\ e \in 0 .. F * F - 1
    <3> HIDE DEF F
    <3> QED  BY <2>2, TileOffset, Zenon DEF e
  <2>4. s1[e] = Softmax(c32[e \div F], e % F)
    <3> HIDE DEF c32, e
    <3> QED  BY <2>3
  <2> HIDE DEF s1, c32, F, e
  <2>5. s1[e] = Softmax(ScoreRow(pos, m), k)  BY <2>1, <2>3, <2>4
  <2> QED  BY <2>5 DEF e
<1> HIDE DEF s1
<1>6. AttnAt("ready", pos, mem.Q, mem.K, mem.V, s1, mem.out)
  BY <1>3, <1>4, <1>5 DEF AttnAt
<1>7. AttnAt(stage, pos, mem.Q, mem.K, mem.V, mem.s, mem.out)'
  BY <1>1, <1>6, AttnKept
<1> QED  BY <1>1, <1>7 DEF AttnInv

\* The result after the mix of head p.
PutHead(p, s, V, out) ==
  LET C == call.NH * call.HD IN
  [e \in DOMAIN out |->
     IF (e % C) \div call.HD = p THEN GemmInt32(s, V[p], call.F2, e \div C, e % call.HD)
     ELSE out[e]]

\* A head's part of every row after its mix, the other heads' as they were.
LEMMA OneMoreHead ==
  ASSUME Attn, NEW p \in Heads, NEW Q, NEW K, NEW V, PacksRead(Q, K, V), NEW s, ScoresOf(p, s),
         NEW out, DOMAIN out = 0 .. call.F2 * call.NH * call.HD - 1, HeadsMixed(p, out)
  PROVE  HeadsMixed(p + 1, PutHead(p, s, V, out))
<1>1. call.F2 \in Nat \ {0} /\ call.NH \in Nat \ {0} /\ call.HD \in Nat \ {0}  BY HeadSizes
<1> SUFFICES ASSUME NEW h \in Heads, NEW m \in 0 .. call.F2 - 1, NEW n \in 0 .. call.HD - 1,
                    h < p + 1
             PROVE  PutHead(p, s, V, out)[m * call.NH * call.HD + h * call.HD + n] = Mixed(h, m, n)
  BY DEF HeadsMixed
<1> DEFINE out1 == PutHead(p, s, V, out)
           e == m * call.NH * call.HD + h * call.HD + n
           C == call.NH * call.HD
           x == [k \in Nat |-> Softmax(ScoreRow(h, m), k) * Qkv(h, k, 2 * call.HD + n)]
<1>2. e \in DOMAIN out /\ e \div C = m /\ (e % C) \div call.HD = h /\ e % call.HD = n
  <2> DEFINE F == call.F2
             N == call.NH
             D1 == call.HD
  <2>1. F \in Nat \ {0} /\ N \in Nat \ {0} /\ D1 \in Nat \ {0}  BY <1>1
  <2>2. m \in 0 .. F - 1 /\ h \in 0 .. N - 1 /\ n \in 0 .. D1 - 1  BY DEF Heads
  <2>3. DOMAIN out = 0 .. F * N * D1 - 1  OBVIOUS
  <2> HIDE DEF F, N, D1
  <2>4. IsCell(F, N, D1, m, h, n)
    BY <2>1, <2>2, CellOfHead, Zenon
  <2> QED  BY <2>3, <2>4 DEF F, N, D1, IsCell
<1>3. out1[e] = IF h = p THEN GemmInt32(s, V[p], call.F2, m, n) ELSE out[e]
  <2> HIDE DEF e
  <2> QED  BY <1>2 DEF PutHead
<1> HIDE DEF out1
<1>4. h \in Nat /\ p \in Nat
  <2>1. call.NH \in Nat  BY <1>1
  <2> QED  BY <2>1 DEF Heads
<1>5. CASE h = p
  <2>1. \A k \in 0 .. call.F2 - 1 : s[m * call.F2 + k] * ReadAt(V[h], call.F2, n, k) = x[k]
    <3> SUFFICES ASSUME NEW k \in 0 .. call.F2 - 1
                 PROVE  s[m * call.F2 + k] * ReadAt(V[h], call.F2, n, k) = x[k]
      OBVIOUS
    <3>1. s[m * call.F2 + k] = Softmax(ScoreRow(h, m), k)  BY <1>5 DEF ScoresOf
    <3>2. ReadAt(V[h], call.F2, n, k) = Qkv(h, k, 2 * call.HD + n)  BY DEF PacksRead, ValueAt
    <3>3. k \in Nat  BY <1>1
    <3>4. x[k] = Softmax(ScoreRow(h, m), k) * Qkv(h, k, 2 * call.HD + n)  BY <3>3
    <3> HIDE DEF x
    <3> QED  BY <3>1, <3>2, <3>4
  <2>2. call.F2 \in Nat  BY <1>1
  <2>3. Mixed(h, m, n) = SumTo(call.F2, x)  BY DEF Mixed
  <2>4. GemmInt32(s, V[h], call.F2, m, n) = SumTo(call.F2, x)
    <3> DEFINE f == call.F2
               w == V[h]
    <3>1. f \in Nat /\ \A k \in 0 .. f - 1 : s[m * f + k] * ReadAt(w, f, n, k) = x[k]
      BY <2>1, <2>2
    <3> HIDE DEF f, w, x
    <3>2. GemmInt32(s, w, f, m, n) = SumTo(f, x)  BY <3>1, ProductOf
    <3> QED  BY <3>2 DEF f, w
  <2> HIDE DEF x, e
  <2>5. out1[e] = Mixed(h, m, n)  BY <1>3, <1>5, <2>3, <2>4
  <2> QED  BY <2>5 DEF e, out1
<1>6. CASE h # p
  <2>1. h < p  BY <1>4, <1>6
  <2>2. out[e] = Mixed(h, m, n)  BY <2>1 DEF HeadsMixed
  <2> HIDE DEF e
  <2>3. out1[e] = Mixed(h, m, n)  BY <1>3, <1>6, <2>2
  <2> QED  BY <2>3 DEF e, out1
<1> QED  BY <1>5, <1>6

\* A head is mixed.
LEMMA AttnMixed ==
  ASSUME AttnInv, AttnMix PROVE AttnInv'
<1> DEFINE out1 == PutHead(pos, mem.s, mem.V, mem.out)
           st == IF pos + 1 < call.NH THEN "loop" ELSE "done"
<1>1. /\ call' = call /\ stage' = st /\ pos' = pos + 1 /\ AttnFields \subseteq DOMAIN mem'
      /\ mem'.Q = mem.Q /\ mem'.K = mem.K /\ mem'.V = mem.V /\ mem'.s = mem.s /\ mem'.out = out1
  BY DEF AttnMix, Continues, AttnInv, AttnFields, PutHead
<1>2. Attn  BY DEF AttnMix, AttnInv, Attn, NoCall
<1>3. /\ DOMAIN mem.out = 0 .. call.F2 * call.NH * call.HD - 1
      /\ Repackable => /\ pos \in Heads /\ PacksRead(mem.Q, mem.K, mem.V)
                       /\ HeadsMixed(pos, mem.out) /\ ScoresOf(pos, mem.s)
  BY DEF AttnMix, AttnInv, AttnAt
<1>4. DOMAIN out1 = DOMAIN mem.out  BY DEF PutHead
<1>5. Repackable => HeadsMixed(pos + 1, out1)
  <2> SUFFICES ASSUME Repackable PROVE HeadsMixed(pos + 1, out1)  OBVIOUS
  <2>2. pos \in Heads /\ PacksRead(mem.Q, mem.K, mem.V)  BY <1>3
  <2>3. HeadsMixed(pos, mem.out) /\ ScoresOf(pos, mem.s)  BY <1>3
  <2>4. DOMAIN mem.out = 0 .. call.F2 * call.NH * call.HD - 1  BY <1>3
  <2> QED  BY <1>2, <2>2, <2>3, <2>4, OneMoreHead
<1>6. Repackable => pos + 1 \in Nat /\ (~(pos + 1 < call.NH) => pos + 1 = call.NH)
  <2>1. call.NH \in Nat  BY <1>2, HeadSizes
  <2> QED  BY <1>3, <2>1 DEF Heads
<1> HIDE DEF out1
<1>7. AttnAt(st, pos + 1, mem.Q, mem.K, mem.V, mem.s, out1)
  BY <1>3, <1>4, <1>5, <1>6 DEF AttnAt
<1> HIDE DEF st
<1>8. AttnAt(stage, pos, mem.Q, mem.K, mem.V, mem.s, mem.out)'
  BY <1>1, <1>7, AttnKept
<1> QED  BY <1>1, <1>8 DEF AttnInv

\* Every head mixes its own values by the softmax of its own queries and keys,
\* whatever padding and repacking the three packs went through.
THEOREM KernelsAttentionExact == KSpec => []AttentionExact
<1>1. KInit => AttnInv  BY DEF KInit, AttnInv, NoCall
<1>2. ASSUME AttnInv, [KNext]_kvars PROVE AttnInv'
  <2>1. call' \in Calls \cup {NoCall}
    <3>1. call \in Calls \cup {NoCall}  BY <1>2 DEF AttnInv
    <3>2. LoadLayer => call' \in Calls  BY DEF LoadLayer, Starts
    <3>3. QuantStart => call' \in Calls  BY DEF QuantStart, Starts
    <3>4. Return => call' = NoCall  BY DEF Return
    <3>5. UNCHANGED kvars => call' = call  BY DEF kvars
    <3> QED  BY <1>2, <3>1, <3>2, <3>3, <3>4, <3>5, FamilyStep
  <2>2. CASE call'.family # "attn"  BY <2>1, <2>2 DEF AttnInv
  <2>3. CASE UNCHANGED kvars /\ call'.family = "attn"
    <3>1. call' = call /\ stage' = stage /\ pos' = pos /\ mem' = mem  BY <2>3 DEF kvars
    <3>2. AttnAt(stage, pos, mem.Q, mem.K, mem.V, mem.s, mem.out)
      BY <1>2, <2>3, <3>1 DEF AttnInv
    <3>3. AttnAt(stage, pos, mem.Q, mem.K, mem.V, mem.s, mem.out)'
      BY <3>1, <3>2, AttnKept
    <3> QED  BY <1>2, <2>3, <3>1, <3>3 DEF AttnInv
  <2>4. CASE AttnStart
    <3>1. PICK c \in Calls :
            /\ call' = c /\ stage' = "packed"
            /\ mem' = [Q |-> <<>>, K |-> <<>>, V |-> <<>>, s |-> <<>>,
                       out |-> [e \in 0 .. c.F2 * c.NH * c.HD - 1 |-> Stale]]
      BY <2>4 DEF AttnStart, Starts
    <3>2. /\ AttnFields \subseteq DOMAIN mem'
          /\ DOMAIN mem'.out = 0 .. call'.F2 * call'.NH * call'.HD - 1
      BY <3>1 DEF AttnFields
    <3> QED  BY <2>1, <3>1, <3>2 DEF AttnInv, AttnAt
  <2>5. CASE AttnClear  BY <1>2, <2>5, AttnClears
  <2>6. CASE AttnPack  BY <1>2, <2>6, AttnPacks
  <2>7. CASE AttnRepack  BY <1>2, <2>7, AttnRepacks
  <2>8. CASE AttnScores  BY <1>2, <2>8, AttnScored
  <2>9. CASE AttnMix  BY <1>2, <2>9, AttnMixed
  <2> QED
    BY <1>2, <2>2, <2>3, <2>4, <2>5, <2>6, <2>7, <2>8, <2>9, AttnStep DEF AttnNext
<1>3. AttnInv => AttentionExact
  <2> SUFFICES ASSUME AttnInv, stage = "done", call.family = "attn", Repackable,
                      NEW h \in Heads, NEW m \in 0 .. call.F2 - 1, NEW n \in 0 .. call.HD - 1
               PROVE  mem.out[m * call.NH * call.HD + h * call.HD + n] = Mixed(h, m, n)
    BY DEF AttentionExact, Mixed, Repackable
  <2>1. Attn  BY DEF AttnInv, Attn, NoCall
  <2>2. h < call.NH
    <3>1. call.NH \in Nat  BY <2>1, HeadSizes
    <3> QED  BY <3>1 DEF Heads
  <2>3. HeadsMixed(call.NH, mem.out)  BY DEF AttnInv, AttnAt
  <2> QED  BY <2>2, <2>3 DEF HeadsMixed
<1> QED  BY <1>1, <1>2, <1>3, PTL DEF KSpec

-----------------------------------------------------------------------------
(* Types: what the operands hold, whatever they have been repacked to *)

WeightsTyped(w) == \A i \in DOMAIN w : w[i] \in -127 .. 127
CodeRange == IF call.tier \in {"avxvnni", "avx512"} THEN 0 .. 255 ELSE -128 .. 127
CodesTyped(a) == \A i \in DOMAIN a : a[i] \in CodeRange

\* The pairs of every block are bytes of the block.
LEMMA AllPairsMoves ==
  ASSUME NEW N \in Nat, NEW K \in Nat \ {0}, NEW w, NEW S,
         DOMAIN w = 0 .. (NBlocks(N) * BlockBytes(K)) - 1,
         \A j \in DOMAIN w : w[j] \in S,
         NEW i \in DOMAIN AllPairs(w, N, K)
  PROVE  AllPairs(w, N, K)[i] \in S
<1> DEFINE B == BlockBytes(K)
           b == i \div B
           r == i % B
           blk == [e \in 0 .. NBlocks(N) - 1 |-> KPairs(w, e * B, K)]
<1>1. B \in Nat \ {0} /\ NBlocks(N) \in Nat  BY DEF BlockBytes, K4, NR, NBlocks
<1>2. i \in DOMAIN w /\ AllPairs(w, N, K)[i] = blk[b][r]  BY DEF AllPairs
<1>3. b \in 0 .. NBlocks(N) - 1 /\ r \in 0 .. B - 1
  <2>1. i \in 0 .. NBlocks(N) * B - 1  BY <1>2
  <2> HIDE DEF B
  <2> QED  BY <1>1, <2>1, InBlock
<1>4. blk[b] = KPairs(w, b * B, K)  BY <1>3
<1> HIDE DEF blk, b, r
<1>5. b * B \in Nat  BY <1>1, <1>3
<1>6. \A j \in 0 .. B - 1 : w[b * B + j] \in S
  <2>1. b \in Nat /\ b < NBlocks(N)  BY <1>1, <1>3
  <2> HIDE DEF B
  <2>2. \A j \in 0 .. B - 1 : b * B + j \in 0 .. NBlocks(N) * B - 1  BY <1>1, <2>1, TileOffset
  <2> QED  BY <2>2 DEF B
<1>7. r \in 0 .. BlockBytes(K) - 1  BY <1>3
<1>8. KPairs(w, b * B, K)[r] \in S
  <2> DEFINE base == b * B
  <2>1. base \in Nat /\ \A j \in 0 .. BlockBytes(K) - 1 : w[base + j] \in S  BY <1>5, <1>6
  <2> HIDE DEF base
  <2>2. KPairs(w, base, K)[r] \in S  BY <1>7, <2>1, KPairsMoves
  <2> QED  BY <2>2 DEF base
<1> QED  BY <1>2, <1>4, <1>8

\* Loaded weights are int8 and never -128, in each of their layouts.
LEMMA LayerWeights ==
  ASSUME Layer
  PROVE  /\ WeightsTyped(Packed(0)) /\ WeightsTyped(Relaid(Packed(0)))
         /\ WeightsTyped(AllPairs(Packed(0), call.N, call.K))
<1> DEFINE N == call.N
           K == call.K
           w == Trained(call, 0)
           p == PackW(w, N, K)
           S == -127 .. 127
<1>1. N \in Nat /\ K \in Nat \ {0}  BY LayerShapes
<1>2. \A n \in 0 .. N - 1, k \in 0 .. K - 1 : w[n][k] \in Int  BY LayerShapes DEF Trained
<1>3. Packed(0) = p  BY DEF Packed
<1>4. DOMAIN p = 0 .. (NBlocks(N) * BlockBytes(K)) - 1  BY DEF PackW
<1> HIDE DEF N, K, w
<1>5. \A i \in DOMAIN p : p[i] \in S  BY <1>1, <1>2, PackedBytes
<1> HIDE DEF p, S
<1>6. \A i \in DOMAIN RepackI8mm(p, N, K) : RepackI8mm(p, N, K)[i] \in S
  BY <1>1, <1>4, <1>5, RepackMoves
<1>7. \A i \in DOMAIN AllPairs(p, N, K) : AllPairs(p, N, K)[i] \in S
  BY <1>1, <1>4, <1>5, AllPairsMoves
<1>8. Relaid(p) = p \/ Relaid(p) = RepackI8mm(p, N, K)  BY DEF Relaid, N, K
<1> QED  BY <1>3, <1>5, <1>6, <1>7, <1>8 DEF WeightsTyped, N, K, S

\* The activations of a layer are int8, also repacked, and uint8 once turned unsigned.
LEMMA LayerCodes ==
  ASSUME Layer
  PROVE  LET S == -128 .. 127
             a == Codes(0)
         IN  /\ \A i \in DOMAIN a : a[i] \in S
             /\ \A i \in DOMAIN RowQuads(a, call.M, call.K) : RowQuads(a, call.M, call.K)[i] \in S
             /\ call.K % 8 = 0 =>
                  \A i \in DOMAIN RowPairs(a, call.M, call.K) : RowPairs(a, call.M, call.K)[i] \in S
             /\ \A i \in DOMAIN Xor128(a) : Xor128(a)[i] \in 0 .. 255
<1> DEFINE M == call.M
           K == call.K
           a == Codes(0)
           S == -128 .. 127
<1>1. M \in Nat /\ K \in Nat \ {0} /\ K % 4 = 0  BY LayerShapes
<1>2. \A i \in 0 .. M * K - 1 : a[i] \in S
  <2> TAKE i \in 0 .. M * K - 1
  <2>1. i \div K \in 0 .. M - 1 /\ i % K \in 0 .. K - 1
    <3> HIDE DEF M, K
    <3> QED  BY <1>1, InBlock
  <2>2. a[i] = Code(call.data, 0, i \div K, i % K)  BY DEF Codes
  <2>3. \A k \in 0 .. K - 1, m \in 0 .. M - 1 : Code(call.data, 0, m, k) \in S  BY LayerShapes
  <2> QED  BY <2>1, <2>2, <2>3
<1>3. DOMAIN a = 0 .. M * K - 1  BY DEF Codes
<1> HIDE DEF M, K, a, S
<1>4. \A i \in DOMAIN RowQuads(a, M, K) : RowQuads(a, M, K)[i] \in S
  BY <1>1, <1>2, RowQuadsMoves
<1>5. K % 8 = 0 => \A i \in DOMAIN RowPairs(a, M, K) : RowPairs(a, M, K)[i] \in S
  BY <1>1, <1>2, RowPairsMoves
<1>6. \A i \in DOMAIN Xor128(a) : Xor128(a)[i] \in 0 .. 255
  <2>1. \A i \in DOMAIN Xor128(a) : i \in DOMAIN a /\ Xor128(a)[i] = a[i] + 128  BY DEF Xor128
  <2>2. \A i \in DOMAIN a : a[i] + 128 \in 0 .. 255
    <3>1. \A i \in DOMAIN a : a[i] \in S  BY <1>2, <1>3
    <3> QED  BY <3>1 DEF S
  <2> QED  BY <2>1, <2>2
<1>7. \A i \in DOMAIN a : a[i] \in S  BY <1>2, <1>3
<1> QED  BY <1>4, <1>5, <1>6, <1>7 DEF M, K, a, S

\* Of the operands of a layer, what there is at stage st.
OperandsAt(st, b) ==
  /\ st = "packed" => b.W = Packed(0)
  /\ st = "loaded" => b.W = Relaid(Packed(0))
  /\ st = "ready" => /\ {"A", "W"} \subseteq DOMAIN b
                     /\ b.W = Relaid(Packed(0)) /\ b.A = Codes(0)
                     /\ call.family = "gru" => call.K % 8 = 0
  /\ st \in {"loop", "done"} => /\ {"A", "W"} \subseteq DOMAIN b
                                /\ WeightsTyped(b.W) /\ CodesTyped(b.A)
  /\ st = "aborted" => WeightsTyped(b.W)

ControlTyped ==
  /\ call \in Calls \cup {NoCall} /\ stage \in Stages /\ pos \in Nat
  /\ (stage = "idle") <=> (call = NoCall)

\* A counted fp32 product ends at its number of rows.
BandsTyped ==
  call.family = "conv" /\ call.op \in {"strided", "sgemm"} /\ stage = "loop"
    => "M" \in DOMAIN mem /\ mem.M \in Nat

TypesInv ==
  /\ ControlTyped /\ BandsTyped
  /\ call.family \in {"gemm", "gru"} => OperandsAt(stage, mem)

\* What a call has of its operands does not change while nothing is written.
LEMMA OperandsKept ==
  ASSUME call' = call, NEW st, NEW b, OperandsAt(st, b), stage' = st, mem' = b
  PROVE  OperandsAt(stage, mem)'
<1>1. Packed(0)' = Packed(0) /\ Codes(0)' = Codes(0) /\ Relaid(Packed(0))' = Relaid(Packed(0))
  BY CallFrozen
<1>2. CodeRange' = CodeRange  BY DEF CodeRange
<1> QED  BY <1>1, <1>2 DEF OperandsAt, WeightsTyped, CodesTyped

\* An iteration of a kernel's outer loop, or its end: the operands stay as they are.
Iterates ==
  /\ call' = call /\ stage' \in {"loop", "done", "aborted"} /\ pos' \in Nat
  /\ DOMAIN mem' = DOMAIN mem /\ mem'.A = mem.A /\ mem'.W = mem.W

\* A store of a tile leaves the operands alone,
LEMMA StoresIterate ==
  ASSUME {"A", "W"} \subseteq DOMAIN mem, NEW rows, NEW cols, NEW acc, mem' = Stored(rows, cols, acc)
  PROVE  DOMAIN mem' = DOMAIN mem /\ mem'.A = mem.A /\ mem'.W = mem.W
<1> DEFINE new == [m \in rows |-> [n \in cols |-> Epilogue(n, acc[m][n], mem.C[m][n])]]
           top(m) == MaxTo(call.N, [n \in Nat |-> IF n \in cols THEN AbsOf(new[m][n]) ELSE 0])
           C == [m \in DOMAIN mem.C |-> IF m \in rows
                   THEN [n \in DOMAIN mem.C[m] |-> IF n \in cols THEN new[m][n] ELSE mem.C[m][n]]
                   ELSE mem.C[m]]
           peak == IF call.op = "track"
                   THEN Greatest(mem.peak, MaxTo(call.M, [m \in Nat |-> IF m \in rows THEN top(m) ELSE 0]))
                   ELSE mem.peak
<1>1. mem' = [mem EXCEPT !.C = C, !.peak = peak]  BY DEF Stored
<1> HIDE DEF C, peak
<1> QED  BY <1>1

\* and so does a step of any loop.
LEMMA LoopsIterate ==
  ASSUME pos \in Nat, {"A", "W"} \subseteq DOMAIN mem,
         NEW acc, NEW accI, NEW accH, NEW covered, NEW simd, NEW R \in Nat,
         RowLoop(acc) \/ BlockLoop(covered, simd, acc) \/ PairLoop(covered, simd)
           \/ GruLoop(R, accI, accH)
  PROVE  Iterates
<1>1. CASE RowLoop(acc)
  <2>1. \/ /\ call' = call /\ stage' = (IF (call.N % NR) # 0 THEN "aborted" ELSE "loop")
           /\ pos' = pos + MR
           /\ mem' = Stored(pos .. pos + MR - 1, 0 .. (call.N \div NR) * NR - 1, acc)
        \/ /\ call' = call /\ stage' = (IF pos < call.M THEN "aborted" ELSE "done")
           /\ pos' = pos /\ mem' = mem
    BY <1>1, Zenon DEF RowLoop, Continues
  <2> DEFINE rows == pos .. pos + MR - 1
             cols == 0 .. (call.N \div NR) * NR - 1
  <2>2. CASE pos' = pos /\ mem' = mem  BY <2>1, <2>2 DEF Iterates
  <2>3. CASE mem' = Stored(rows, cols, acc)
    <3>1. DOMAIN mem' = DOMAIN mem /\ mem'.A = mem.A /\ mem'.W = mem.W
      <4> HIDE DEF rows, cols
      <4> QED  BY <2>3, StoresIterate
    <3>2. pos + MR \in Nat  BY DEF MR
    <3> QED  BY <2>1, <3>1, <3>2 DEF Iterates
  <2> QED  BY <2>1, <2>2, <2>3
<1>2. ASSUME NEW width \in Nat, NEW c, NEW s, NEW x, BlockStep(width, c, s, x) PROVE Iterates
  <2>1. /\ call' = call /\ stage' \in {"aborted", "loop"} /\ pos' = pos + width
        /\ mem' = Stored(0 .. (IF s THEN call.M ELSE c) - 1, pos .. pos + width - 1, x)
    BY <1>2 DEF BlockStep, Continues
  <2> QED  BY <2>1, StoresIterate DEF Iterates
<1>3. CASE Continues(IF pos < call.N THEN "aborted" ELSE "done", pos, mem)
  BY <1>3 DEF Continues, Iterates
<1>4. CASE BlockLoop(covered, simd, acc)
  <2>1. \/ BlockStep(8, covered, simd, acc)
        \/ Continues(IF pos < call.N THEN "aborted" ELSE "done", pos, mem)
    BY <1>4 DEF BlockLoop, NR
  <2> QED  BY <1>2, <1>3, <2>1
<1>5. CASE PairLoop(covered, simd)
  <2>1. \/ BlockStep(16, covered, simd, Vnni)
        \/ BlockStep(8, (call.M \div MR) * MR, FALSE, Vnni)
        \/ Continues(IF pos < call.N THEN "aborted" ELSE "done", pos, mem)
    <3>1. NR = 8 /\ 2 * NR = 16  BY DEF NR
    <3> QED  BY <1>5, <3>1 DEF PairLoop
  <2> QED  BY <1>2, <1>3, <2>1
<1>6. CASE GruLoop(R, accI, accH)
  <2> DEFINE ih == [m \in Nat |-> [n \in Nat |-> mem.bias[n] + Scale(n) * accI[m][n]]]
             hh == [m \in Nat |-> [n \in Nat |-> mem.biasV[n] + Scale(n) * accH[m][n]]]
             new == [m \in pos .. pos + R - 1 |-> [n \in 0 .. D - 1 |->
                       GruCell([j \in Nat |-> ih[m][j]], [j \in Nat |-> hh[m][j]], mem.h[m][n], n)]]
             h == [m \in DOMAIN mem.h |-> IF m \in DOMAIN new THEN new[m] ELSE mem.h[m]]
             out == [m \in DOMAIN mem.out |-> IF m \in DOMAIN new THEN new[m] ELSE mem.out[m]]
  <2>1. \/ /\ call' = call /\ stage' = "loop" /\ pos' = pos + R
           /\ mem' = [mem EXCEPT !.h = h, !.out = out]
        \/ call' = call /\ stage' = "done" /\ pos' = pos /\ mem' = mem
    BY <1>6 DEF GruLoop, Continues
  <2> HIDE DEF h, out
  <2>2. CASE call' = call /\ stage' = "done" /\ pos' = pos /\ mem' = mem
    BY <2>2 DEF Iterates
  <2>3. CASE /\ call' = call /\ stage' = "loop" /\ pos' = pos + R
             /\ mem' = [mem EXCEPT !.h = h, !.out = out]
    <3>1. DOMAIN mem' = DOMAIN mem /\ mem'.A = mem.A /\ mem'.W = mem.W  BY <2>3
    <3> QED  BY <2>3, <3>1 DEF Iterates
  <2> QED  BY <2>1, <2>2, <2>3
<1> QED  BY <1>1, <1>4, <1>5, <1>6

\* A kernel loops over its tiles with operands that it does not write.
LEMMA KernelLoops ==
  ASSUME Layer, stage = "loop", pos \in Nat, OperandsAt(stage, mem), Arm!ArmNext \/ X86Next
  PROVE  Iterates
<1>1. {"A", "W"} \subseteq DOMAIN mem  BY DEF OperandsAt
<1>2. ASSUME NEW R \in Nat, NEW accI, NEW accH, GruLoop(R, accI, accH) \/ Arm!GruLoop(R, accI, accH)
      PROVE  Iterates
  BY <1>1, <1>2, ArmGruLoop, LoopsIterate
<1>3. ASSUME NEW acc, NEW covered, NEW simd,
             \/ RowLoop(acc) \/ Arm!RowLoop(acc)
             \/ BlockLoop(covered, simd, acc) \/ PairLoop(covered, simd)
      PROVE  Iterates
  <2>1. RowLoop(acc) \/ BlockLoop(covered, simd, acc) \/ PairLoop(covered, simd)
    BY <1>3, ArmRowLoop
  <2>2. 8 \in Nat  OBVIOUS
  <2> QED  BY <1>1, <2>1, <2>2, LoopsIterate
<1>4. CASE call.family = "gemm" /\ Arm!ArmNext
  <2>1. Arm!RowLoop(Arm!Neon) \/ Arm!RowLoop(Arm!Dot) \/ Arm!RowLoop(Arm!Smmla)
    BY <1>4
    DEF Arm!ArmNext, Arm!NeonEnter, Arm!DotprodEnter, Arm!I8mmEnter, Arm!NeonInt32,
        Arm!NeonK20, Arm!NeonFused, Arm!NeonAccum, Arm!NeonTrack, Arm!DotprodInt32,
        Arm!DotprodK20, Arm!DotprodFused, Arm!DotprodAccum, Arm!DotprodTrack, Arm!I8mmInt32,
        Arm!I8mmFused, Arm!I8mmAccum, Arm!I8mmTrack, Arm!DotprodGruEnter, Arm!I8mmGruEnter,
        Arm!NeonGru, Arm!DotprodGru, Arm!I8mmGru, Arm!Runs
  <2> QED  BY <1>3, <2>1
<1>5. CASE call.family = "gemm" /\ X86Next
  <2> DEFINE r == (call.M \div MR) * MR
             capped == AfterTwelves((call.M \div 24) * 24)
             uncapped == AfterTwelves(call.M)
  <2> HIDE DEF r, capped, uncapped
  <2>1. \/ RowLoop(Pairs) \/ RowLoop(Signs)
        \/ BlockLoop(capped, TRUE, Pairs) \/ BlockLoop(capped, FALSE, Pairs)
        \/ BlockLoop(r, FALSE, Signs)
        \/ BlockLoop(capped, TRUE, Vnni) \/ BlockLoop(uncapped, FALSE, Vnni)
        \/ PairLoop(capped, TRUE) \/ PairLoop(r, FALSE) \/ PairLoop(capped, FALSE)
    BY <1>5
    DEF X86Next, Avx2Enter, Avx2Int32, Avx2K20, Avx2Fused, Avx2Accum, Avx2Track,
        Avx2GruEnter, Avx2Gru, VnniEnter, VnniGruEnter, AvxvnniInt32, AvxvnniK20, AvxvnniFused,
        AvxvnniAccum, AvxvnniTrack, AvxvnniGru, Avx512Int32, Avx512K20, Avx512Fused,
        Avx512Accum, Avx512Track, Avx512Gru, Avx2Loop, XOp, Runs, Avx512Rows, r, capped, uncapped
  <2> QED  BY <1>3, <2>1
<1>6. CASE call.family = "gru"
  <2> DEFINE hNeon == [m \in Nat |-> [n \in Nat |-> Arm!NeonAcc(mem.H, mem.V, call.K, m, n)]]
             hDot == [m \in Nat |-> [n \in Nat |-> Arm!DotAcc(mem.H, mem.V, call.K, m, n)]]
             hSmmla == [m \in Nat |-> [n \in Nat |-> Arm!SmmlaAcc(mem.H, mem.V, call.K, m, n)]]
             iPairs == [m \in Nat |-> [n \in Nat |-> PairsAcc(mem.A, mem.W, call.K, m, n)]]
             hPairs == [m \in Nat |-> [n \in Nat |-> PairsAcc(mem.H, mem.V, call.K, m, n)]]
  <2>1. Arm!NeonGru \/ Arm!DotprodGru \/ Arm!I8mmGru \/ Avx2Gru \/ AvxvnniGru \/ Avx512Gru
    BY <1>6
    DEF Arm!ArmNext, Arm!NeonEnter, Arm!DotprodEnter, Arm!I8mmEnter, Arm!NeonInt32,
        Arm!NeonK20, Arm!NeonFused, Arm!NeonAccum, Arm!NeonTrack, Arm!DotprodInt32,
        Arm!DotprodK20, Arm!DotprodFused, Arm!DotprodAccum, Arm!DotprodTrack, Arm!I8mmInt32,
        Arm!I8mmFused, Arm!I8mmAccum, Arm!I8mmTrack, Arm!DotprodGruEnter, Arm!I8mmGruEnter,
        Arm!Op, X86Next, Avx2Enter, Avx2Int32, Avx2K20, Avx2Fused, Avx2Accum, Avx2Track,
        Avx2GruEnter, VnniEnter, VnniGruEnter, AvxvnniInt32, AvxvnniK20, AvxvnniFused,
        AvxvnniAccum, AvxvnniTrack, Avx512Int32, Avx512K20, Avx512Fused, Avx512Accum,
        Avx512Track, XOp, Runs
  <2>2. \/ Arm!GruLoop(8, Arm!Neon, hNeon) \/ Arm!GruLoop(8, Arm!Dot, hDot)
        \/ Arm!GruLoop(8, Arm!Smmla, hSmmla) \/ GruLoop(12, iPairs, hPairs)
        \/ GruLoop(12, Vnni, GruVnni) \/ GruLoop(8, Vnni, GruVnni)
    BY <2>1
    DEF Arm!NeonGru, Arm!DotprodGru, Arm!I8mmGru, Avx2Gru, AvxvnniGru, Avx512Gru, Arm!MR, Arm!D,
        MR, GruMR, D
  <2> HIDE DEF hNeon, hDot, hSmmla, iPairs, hPairs
  <2>3. 8 \in Nat /\ 12 \in Nat  OBVIOUS
  <2> QED  BY <1>2, <2>2, <2>3
<1> QED  BY <1>4, <1>5, <1>6 DEF Layer

\* A kernel entered: weights and activations as its tier wants them.
LEMMA KernelEnters ==
  ASSUME Layer, stage = "ready", OperandsAt(stage, mem), Arm!ArmNext \/ X86Next
  PROVE  call' = call /\ stage' = "loop" /\ pos' = 0 /\ OperandsAt("loop", mem')
<1> DEFINE a == Codes(0)
           w == Packed(0)
           M == call.M
           N == call.N
           K == call.K
<1>1. /\ mem.A = a /\ mem.W = Relaid(w) /\ {"A", "W"} \subseteq DOMAIN mem
      /\ call.family = "gru" => K % 8 = 0
  BY DEF OperandsAt
<1>2. WeightsTyped(Relaid(w)) /\ WeightsTyped(AllPairs(w, N, K))  BY LayerWeights
<1>3. /\ CodeRange = -128 .. 127 =>
           /\ CodesTyped(a) /\ CodesTyped(RowQuads(a, M, K))
           /\ K % 8 = 0 => CodesTyped(RowPairs(a, M, K))
      /\ CodeRange = 0 .. 255 => CodesTyped(Xor128(a))
  BY LayerCodes DEF CodesTyped
<1> HIDE DEF a, w
<1>4. CASE Arm!NeonEnter
  <2>1. call.tier = "neon" /\ call' = call /\ stage' = "loop" /\ pos' = 0 /\ mem' = mem
    BY <1>4 DEF Arm!NeonEnter, Arm!Continues
  <2>2. CodeRange = -128 .. 127  BY <2>1 DEF CodeRange
  <2> QED  BY <1>1, <1>2, <1>3, <2>1, <2>2 DEF OperandsAt
<1>5. CASE Arm!DotprodEnter \/ Arm!DotprodGruEnter
  <2>1. /\ call.tier \in {"dotprod", "i8mm"} /\ call' = call /\ stage' = "loop" /\ pos' = 0
        /\ mem' = [mem EXCEPT !.A = RowQuads(@, M, K)]
             \/ mem' = [mem EXCEPT !.A = RowQuads(@, M, K), !.H = RowQuads(@, M, K)]
    BY <1>5 DEF Arm!DotprodEnter, Arm!DotprodGruEnter, Arm!OnDotprod, Arm!Continues,
                Arm!RowQuads, RowQuads, Arm!MR, MR, Arm!D
  <2>2. mem'.A = RowQuads(a, M, K) /\ mem'.W = Relaid(w) /\ {"A", "W"} \subseteq DOMAIN mem'
    BY <1>1, <2>1
  <2>3. CodeRange = -128 .. 127  BY <2>1 DEF CodeRange
  <2> QED  BY <1>2, <1>3, <2>1, <2>2, <2>3 DEF OperandsAt
<1>6. CASE Arm!I8mmEnter \/ Arm!I8mmGruEnter
  <2>1. /\ call.tier = "i8mm" /\ call' = call /\ stage' = "loop" /\ pos' = 0 /\ K % 8 = 0
        /\ mem' = [mem EXCEPT !.A = RowPairs(@, M, K)]
             \/ mem' = [mem EXCEPT !.A = RowPairs(@, M, K), !.H = RowPairs(@, M, K)]
    BY <1>1, <1>6 DEF Arm!I8mmEnter, Arm!I8mmGruEnter, Arm!OnI8mm, Arm!Continues,
                      Arm!RowPairs, RowPairs, Arm!MR, MR, Arm!D
  <2>2. mem'.A = RowPairs(a, M, K) /\ mem'.W = Relaid(w) /\ {"A", "W"} \subseteq DOMAIN mem'
    BY <1>1, <2>1
  <2>3. CodeRange = -128 .. 127  BY <2>1 DEF CodeRange
  <2> QED  BY <1>2, <1>3, <2>1, <2>2, <2>3 DEF OperandsAt
<1>7. CASE Avx2Enter \/ Avx2GruEnter
  <2>1. /\ call.tier = "avx2" /\ call' = call /\ stage' = "loop" /\ pos' = 0
        /\ \/ mem'.A = mem.A /\ mem'.W = mem.W /\ {"A", "W"} \subseteq DOMAIN mem'
           \/ mem' = [mem EXCEPT !.W = AllPairs(@, N, K), !.V = AllPairs(@, N, K)]
    BY <1>7 DEF Avx2Enter, Avx2GruEnter, Continues, D
  <2>2. CodeRange = -128 .. 127 /\ Relaid(w) = w  BY <2>1 DEF CodeRange, Relaid
  <2>3. CASE mem'.A = mem.A /\ mem'.W = mem.W /\ {"A", "W"} \subseteq DOMAIN mem'
    BY <1>1, <1>2, <1>3, <2>1, <2>2, <2>3 DEF OperandsAt
  <2>4. CASE mem' = [mem EXCEPT !.W = AllPairs(@, N, K), !.V = AllPairs(@, N, K)]
    <3>1. mem'.A = a /\ mem'.W = AllPairs(w, N, K) /\ {"A", "W"} \subseteq DOMAIN mem'
      BY <1>1, <2>2, <2>4
    <3> QED  BY <1>2, <1>3, <2>1, <2>2, <3>1 DEF OperandsAt
  <2> QED  BY <2>1, <2>3, <2>4
<1>8. CASE VnniEnter \/ VnniGruEnter
  <2>1. /\ call.tier \in {"avxvnni", "avx512"} /\ call' = call /\ stage' = "loop" /\ pos' = 0
        /\ mem' = [mem EXCEPT !.A = Xor128(@)]
             \/ mem' = [mem EXCEPT !.A = Xor128(@), !.H = Xor128(@)]
    BY <1>8 DEF VnniEnter, VnniGruEnter, Continues
  <2>2. mem'.A = Xor128(a) /\ mem'.W = Relaid(w) /\ {"A", "W"} \subseteq DOMAIN mem'
    BY <1>1, <2>1
  <2>3. CodeRange = 0 .. 255  BY <2>1 DEF CodeRange
  <2> QED  BY <1>2, <1>3, <2>1, <2>2, <2>3 DEF OperandsAt
<1>9. \/ Arm!NeonEnter \/ Arm!DotprodEnter \/ Arm!DotprodGruEnter \/ Arm!I8mmEnter
      \/ Arm!I8mmGruEnter \/ Avx2Enter \/ Avx2GruEnter \/ VnniEnter \/ VnniGruEnter
  BY DEF Arm!ArmNext, Arm!NeonInt32, Arm!NeonK20, Arm!NeonFused, Arm!NeonAccum,
         Arm!NeonTrack, Arm!DotprodInt32, Arm!DotprodK20, Arm!DotprodFused, Arm!DotprodAccum,
         Arm!DotprodTrack, Arm!I8mmInt32, Arm!I8mmFused, Arm!I8mmAccum, Arm!I8mmTrack,
         Arm!NeonGru, Arm!DotprodGru, Arm!I8mmGru, Arm!Runs, Arm!RowLoop, Arm!GruLoop,
         X86Next, Avx2Int32, Avx2K20, Avx2Fused, Avx2Accum, Avx2Track, Avx2Gru, AvxvnniInt32,
         AvxvnniK20, AvxvnniFused, AvxvnniAccum, AvxvnniTrack, AvxvnniGru, Avx512Int32,
         Avx512K20, Avx512Fused, Avx512Accum, Avx512Track, Avx512Gru, Avx2Loop, XOp, Runs,
         RowLoop, BlockLoop, PairLoop, GruLoop
<1> QED  BY <1>4, <1>5, <1>6, <1>7, <1>8, <1>9

\* The other layers: a step leads from stage to stage and counts in naturals.
LEMMA OthersControl ==
  ASSUME pos \in Nat, BandsTyped,
         \/ AttnNext \/ BlobNext \/ WinoNext \/ FftNext \/ QuantNext \/ ConvNext
  PROVE  stage' \in Stages \ {"idle"} /\ pos' \in Nat
<1>1. CASE AttnNext
  BY <1>1
  DEF AttnNext, AttnStart, AttnClear, AttnPack, AttnRepack, AttnScores, AttnMix, Starts, Continues,
      Stages
<1>2. CASE BlobNext
  BY <1>2
  DEF BlobNext, BlobStart, BlobRefused, BlobTake, BlobEnd, BlobFinalize, Starts, Continues, Stages
<1>3. CASE WinoNext
  <2>1. CASE WinoLoad  BY <2>1 DEF WinoLoad, Starts, Stages
  <2>2. CASE WinoDerive  BY <2>2 DEF WinoDerive, Continues, Stages
  <2>3. CASE WinoScan  BY <2>3 DEF WinoScan, Continues, Stages
  <2>4. CASE WinoTransform  BY <2>4 DEF WinoTransform, Continues, Stages
  <2>5. CASE WinoGemm  BY <2>5 DEF WinoGemm, Continues, Stages
  <2>6. CASE WinoEpilogue  BY <2>6 DEF WinoEpilogue, Continues, Stages
  <2> QED  BY <1>3, <2>1, <2>2, <2>3, <2>4, <2>5, <2>6 DEF WinoNext
<1>4. CASE FftNext
  <2>1. CASE FftStart \/ FftInit
    <3>1. \/ stage' = "packed" /\ pos' = pos
          \/ stage' = "loaded" /\ pos' = 0
      BY <2>1, Zenon DEF FftStart, FftInit, Starts, Continues
    <3> QED  BY <3>1 DEF Stages
  <2>2. CASE FftPackReal \/ FftPreInverse
    BY <2>2 DEF FftPackReal, FftPreInverse, FftContinues, Continues, Stages
  <2>3. CASE FftStage0 \/ FftRadix4
    <3>1. stage' = "loop" /\ (pos' = 1 \/ pos' = pos + 1)
      BY <2>3, Zenon DEF FftStage0, FftRadix4, FftContinues, Continues
    <3> QED  BY <3>1 DEF Stages
  <2>4. CASE FftRadix2  BY <2>4 DEF FftRadix2, FftContinues, Continues, Stages
  <2>5. CASE FftPostForward  BY <2>5 DEF FftPostForward, FftContinues, Continues, Stages
  <2>6. CASE FftUnpack  BY <2>6 DEF FftUnpack, FftContinues, Continues, Stages
  <2> QED  BY <1>4, <2>1, <2>2, <2>3, <2>4, <2>5, <2>6 DEF FftNext
<1>5. CASE QuantNext
  BY <1>5
  DEF QuantNext, QuantStart, ScanRange, QuantiseFlat, QuantiseFp16, QuantiseTransposed,
      QuantiseConcat, Starts, Continues, Stages
<1>6. CASE ConvNext
  <2>1. CASE StridedStart \/ SgemmStart \/ TransStart
    BY <2>1 DEF StridedStart, SgemmStart, TransStart, Starts, Stages
  <2>2. CASE StridedIm2col \/ SgemmEnter
    BY <2>2 DEF StridedIm2col, SgemmEnter, Continues, Stages
  <2>3. CASE TransBias \/ TransChannel
    BY <2>3 DEF TransBias, TransChannel, Continues, Stages
  <2>4. CASE SgemmBand
    <3>1. mem.M \in Nat  BY <2>4 DEF SgemmBand, BandsTyped
    <3>2. /\ stage' = "done" \/ stage' = "loop"
          /\ pos' = pos + SGEMM_MR \/ pos' = mem.M
      BY <2>4 DEF SgemmBand, Continues
    <3> QED  BY <3>1, <3>2 DEF Stages, SGEMM_MR
  <2> QED  BY <1>6, <2>1, <2>2, <2>3, <2>4 DEF ConvNext
<1> QED  BY <1>1, <1>2, <1>3, <1>4, <1>5, <1>6

\* The rows of a product are counted before its loop and not touched in it.
LEMMA BandsCounted ==
  ASSUME TypesInv, [KNext]_kvars PROVE BandsTyped'
<1> SUFFICES ASSUME call'.family = "conv", call'.op \in {"strided", "sgemm"}, stage' = "loop"
             PROVE  "M" \in DOMAIN mem' /\ mem'.M \in Nat
  BY DEF BandsTyped
<1>1. CASE UNCHANGED kvars  BY <1>1 DEF kvars, TypesInv, BandsTyped
<1>2. CASE StridedStart \/ SgemmStart \/ TransStart
  BY <1>2 DEF StridedStart, SgemmStart, TransStart, Starts
<1>3. CASE StridedIm2col \/ SgemmEnter
  <2>1. call' = call /\ DriverCall
    BY <1>3 DEF StridedIm2col, SgemmEnter, Continues, DriverCall, TypesInv, ControlTyped, NoCall
  <2>2. ConvRows \in Nat  BY <2>1, DriverSizes
  <2>3. CASE StridedIm2col
    <3>1. "M" \in DOMAIN mem' /\ mem'.M = FNew - (ENC_K0 \div call.stride) + 1 /\ call.op = "strided"
      BY <2>3 DEF StridedIm2col, Continues
    <3> QED  BY <2>2, <3>1 DEF ConvRows, Strided
  <2>4. CASE SgemmEnter
    <3>1. "M" \in DOMAIN mem' /\ mem'.M = call.M /\ call.op = "sgemm"
      BY <2>4 DEF SgemmEnter, Continues
    <3> QED  BY <2>2, <3>1 DEF ConvRows, Strided
  <2> QED  BY <1>3, <2>3, <2>4
<1>4. CASE SgemmBand
  <2> DEFINE full == pos + SGEMM_MR <= mem.M
             end == IF full THEN pos + SGEMM_MR ELSE mem.M
             cell(m, n) == IF full /\ n < (call.N \div SGEMM_NR) * SGEMM_NR
                           THEN TileCell(m, n) ELSE TailCell(m, n)
             C == [e \in DOMAIN mem.C |-> IF e \div call.N \in pos .. end - 1
                     THEN cell(e \div call.N, e % call.N) ELSE mem.C[e]]
  <2>1. mem' = [mem EXCEPT !.C = C]  BY <1>4 DEF SgemmBand, Continues
  <2> HIDE DEF C
  <2>2. "M" \in DOMAIN mem /\ mem.M \in Nat  BY <1>4 DEF SgemmBand, TypesInv, BandsTyped
  <2> QED  BY <2>1, <2>2
<1>5. ~(TransBias \/ TransChannel)
  BY DEF TransBias, TransChannel, Continues
<1> QED  BY <1>1, <1>2, <1>3, <1>4, <1>5, ConvStep DEF ConvNext

\* Through every repack weights are int8 and never -128, activations int8, or uint8 in
\* the loops of a VNNI tier; a call, its stage and its counter keep their types.
THEOREM KernelsTypes == KSpec => []KernelsTypeOK
<1>1. KInit => TypesInv
  BY DEF KInit, TypesInv, ControlTyped, BandsTyped, NoCall, Stages
<1>2. ASSUME TypesInv, [KNext]_kvars PROVE TypesInv'
  <2> USE <1>2
  <2>1. BandsTyped'  BY BandsCounted
  <2>2. CASE UNCHANGED kvars
    <3>1. call' = call /\ stage' = stage /\ pos' = pos /\ mem' = mem  BY <2>2 DEF kvars
    <3>2. call.family \in {"gemm", "gru"} => OperandsAt(stage, mem)'
      BY <3>1, OperandsKept DEF TypesInv
    <3> QED  BY <2>1, <3>1, <3>2 DEF TypesInv, ControlTyped
  <2>3. CASE Return
    BY <2>1, <2>3 DEF Return, TypesInv, ControlTyped, NoCall, Stages
  <2>4. CASE stage = "idle" /\ LoadLayer
    <3>1. PICK c \in Calls : /\ c.family \in {"gemm", "gru"} /\ call' = c /\ stage' = "packed"
                             /\ pos' = pos /\ mem'.W = PackW(Trained(c, 0), c.N, c.K)
      BY <2>4 DEF LoadLayer, Starts
    <3>2. mem'.W = Packed(0)'  BY <3>1 DEF Packed
    <3>3. OperandsAt(stage, mem)'  BY <3>1, <3>2 DEF OperandsAt
    <3>4. call' # NoCall  BY <3>1 DEF NoCall
    <3> QED  BY <2>1, <3>1, <3>3, <3>4 DEF TypesInv, ControlTyped, Stages
  <2>5. CASE /\ call'.family \notin {"gemm", "gru", "none"} /\ call' \in Calls \cup {NoCall}
             /\ AttnNext \/ BlobNext \/ WinoNext \/ FftNext \/ QuantNext \/ ConvNext
    <3>1. stage' \in Stages \ {"idle"} /\ pos' \in Nat
      BY <2>5, OthersControl DEF TypesInv, ControlTyped
    <3>2. call' # NoCall  BY <2>5 DEF NoCall
    <3> QED  BY <2>1, <2>5, <3>1, <3>2 DEF TypesInv, ControlTyped
  <2>6. CASE call' = call /\ call.family \in {"gemm", "gru"} /\ (SumAndRepack \/ PrepareGemm \/ PrepareGru)
    <3>1. Layer /\ OperandsAt(stage, mem) /\ call # NoCall
      BY <2>6 DEF TypesInv, ControlTyped, Layer, NoCall
    <3>2. stage' \in Stages \ {"idle"} /\ pos' = 0
      BY <2>6 DEF SumAndRepack, PrepareGemm, PrepareGru, Continues, Stages
    <3>3. OperandsAt(stage', mem')
      <4>1. CASE SumAndRepack
        <5>1. stage = "packed" /\ stage' = "loaded" /\ mem'.W = Relaid(mem.W)
          BY <4>1 DEF SumAndRepack, Continues
        <5> QED  BY <3>1, <5>1 DEF OperandsAt
      <4>2. CASE PrepareGemm
        <5>1. /\ stage = "loaded" /\ stage' = "ready" /\ call.family = "gemm"
              /\ mem'.A = Codes(0) /\ mem'.W = mem.W /\ {"A", "W"} \subseteq DOMAIN mem'
          BY <4>2 DEF PrepareGemm, Continues
        <5> QED  BY <3>1, <5>1 DEF OperandsAt
      <4>3. CASE PrepareGru
        <5>1. /\ stage = "loaded"
              /\ stage' = (IF (D % 8) = 0 /\ (call.M % 8) = 0 THEN "ready" ELSE "aborted")
              /\ mem'.A = Codes(0) /\ mem'.W = mem.W /\ {"A", "W"} \subseteq DOMAIN mem'
          BY <4>3 DEF PrepareGru, Continues
        <5>2. mem.W = Relaid(Packed(0)) /\ WeightsTyped(Relaid(Packed(0)))
          BY <3>1, <5>1, LayerWeights DEF OperandsAt
        <5> QED  BY <5>1, <5>2 DEF OperandsAt, D
      <4> QED  BY <2>6, <4>1, <4>2, <4>3
    <3>4. OperandsAt(stage, mem)'  BY <2>6, <3>3, OperandsKept
    <3> QED  BY <2>1, <2>6, <3>1, <3>2, <3>4 DEF TypesInv, ControlTyped
  <2>7. CASE call' = call /\ call.family \in {"gemm", "gru"} /\ (Arm!ArmNext \/ X86Next)
    <3>1. Layer /\ OperandsAt(stage, mem) /\ call # NoCall /\ pos \in Nat
      BY <2>7 DEF TypesInv, ControlTyped, Layer, NoCall
    <3>2. stage' \in Stages \ {"idle"} /\ pos' \in Nat /\ OperandsAt(stage', mem')
      <4>1. CASE stage = "ready"
        <5>1. stage' = "loop" /\ pos' = 0 /\ OperandsAt("loop", mem')
          BY <2>7, <3>1, <4>1, KernelEnters
        <5> QED  BY <5>1 DEF Stages
      <4>2. CASE stage = "loop"
        <5>1. Iterates  BY <2>7, <3>1, <4>2, KernelLoops, SMTT(30)
        <5> QED  BY <3>1, <4>2, <5>1 DEF Iterates, OperandsAt, Stages
      <4>3. stage \in {"ready", "loop"}
        BY Zenon, <2>7
        DEF Arm!ArmNext, Arm!NeonEnter, Arm!DotprodEnter, Arm!I8mmEnter, Arm!NeonInt32,
            Arm!NeonK20, Arm!NeonFused, Arm!NeonAccum, Arm!NeonTrack, Arm!DotprodInt32,
            Arm!DotprodK20, Arm!DotprodFused, Arm!DotprodAccum, Arm!DotprodTrack, Arm!I8mmInt32,
            Arm!I8mmFused, Arm!I8mmAccum, Arm!I8mmTrack, Arm!DotprodGruEnter, Arm!I8mmGruEnter,
            Arm!NeonGru, Arm!DotprodGru, Arm!I8mmGru, Arm!RowLoop, Arm!GruLoop, X86Next,
            Avx2Enter, Avx2Int32, Avx2K20, Avx2Fused, Avx2Accum, Avx2Track, Avx2GruEnter,
            Avx2Gru, VnniEnter, VnniGruEnter, AvxvnniInt32, AvxvnniK20, AvxvnniFused,
            AvxvnniAccum, AvxvnniTrack, AvxvnniGru, Avx512Int32, Avx512K20, Avx512Fused,
            Avx512Accum, Avx512Track, Avx512Gru, Avx2Loop, RowLoop, BlockLoop, PairLoop, GruLoop
      <4> QED  BY <4>1, <4>2, <4>3
    <3>3. OperandsAt(stage, mem)'  BY <2>7, <3>2, OperandsKept
    <3> QED  BY <2>1, <2>7, <3>1, <3>2, <3>3 DEF TypesInv, ControlTyped
  <2>8. QuantStart => QuantNext /\ call'.family = "quant" /\ call' \in Calls
    BY DEF QuantNext, QuantStart, Starts
  <2>9. call \in Calls \cup {NoCall}  BY DEF TypesInv, ControlTyped
  <2>10. OwnStep /\ call'.family \in Others
           => AttnNext \/ BlobNext \/ WinoNext \/ FftNext \/ ConvNext
    BY DEF OwnStep, Others
  <2> QED
    BY <2>2, <2>3, <2>4, <2>5, <2>6, <2>7, <2>8, <2>9, <2>10, FamilyStep DEF Others
<1>3. TypesInv => KernelsTypeOK
  <2> SUFFICES ASSUME TypesInv PROVE KernelsTypeOK  OBVIOUS
  <2>1. ControlTyped  BY DEF TypesInv
  <2>2. ASSUME call.family \in {"gemm", "gru"}
        PROVE  WeightsTyped(mem.W) /\ (stage \in {"loop", "done"} => CodesTyped(mem.A))
    <3>1. Layer /\ stage # "idle"
      BY <2>1, <2>2 DEF Layer, ControlTyped, NoCall
    <3>2. stage \in {"packed", "loaded", "ready", "loop", "done", "aborted"}
      BY <2>1, <3>1 DEF ControlTyped, Stages
    <3>3. OperandsAt(stage, mem)  BY <2>2 DEF TypesInv
    <3> QED  BY <3>1, <3>2, <3>3, LayerWeights DEF OperandsAt
  <2> QED  BY <2>1, <2>2 DEF KernelsTypeOK, ControlTyped, WeightsTyped, CodesTyped, CodeRange
<1> QED  BY <1>1, <1>2, <1>3, PTL DEF KSpec

===============================================================================
