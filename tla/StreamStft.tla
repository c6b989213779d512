----------------------------- MODULE StreamStft -----------------------------
(***************************************************************************)
(* The streaming STFT and its inverse (fe_stft.c) around a network that    *)
(* passes every spectrum through: the sliding analysis frame, the weighted *)
(* overlap-add, its two caches, and the synthesis window's normaliser.     *)
(*                                                                         *)
(* An input sample is its position 1, 2, ... in everything fed so far and  *)
(* a zero is Zero.  A sample under way to the output is the set of terms   *)
(* summed for it, each with the input sample and the window position it    *)
(* was weighted at; terms of a Zero add nothing and are left out.  Arrays  *)
(* start at 1 where the code's start at 0.                                 *)
(***************************************************************************)
EXTENDS Integers

CONSTANTS
  N,         \* FE_N_FFT (1024)
  H,         \* FE_HOP_SIZE (320)
  MaxFrames  \* bound: frames fed

ASSUME GeometryAssumption == N \in Nat \ {0} /\ H \in 1 .. N
ASSUME MaxFramesAssumption == MaxFrames \in Nat

CL == N - H  \* FE_CACHE_LEN
Zero == 0

VARIABLES
  fed,        \* frames fed since fe_init
  base,       \* frames fed before the last fe_reset
  cacheStft,  \* cache_stft
  cacheIstft, \* cache_istft
  emitted     \* the frame the last call of this stream wrote to its output

vars == <<fed, base, cacheStft, cacheIstft, emitted>>

-----------------------------------------------------------------------------
(* fe_stft_init: the normaliser of the synthesis window *)

\* Mutant: the number of hops is rounded down.
K_floor == N \div H
K == (N + H - 1) \div H

\* The window positions whose squares fold[] collects for position n.
Normaliser(n) ==
  {m \in 1 .. N : \E f \in 0 .. 2 * K - 2 : f * H + m = (K - 1) * H + n}

\* The last index of fold[] that is written.
FoldTop == (2 * K - 2) * H + N
FoldLen == 4 * N

-----------------------------------------------------------------------------

NoFrame == [i \in 1 .. H |-> {}]

Init ==
  /\ fed = 0 /\ base = 0
  /\ cacheStft = [n \in 1 .. CL |-> Zero]
  /\ cacheIstft = [n \in 1 .. CL |-> {}]
  /\ emitted = NoFrame

\* fe_stft: the cached samples, then the new ones.
AnalysisFrame == [n \in 1 .. N |-> IF n <= CL THEN cacheStft[n] ELSE fed * H + (n - CL)]

\* Mutant: the window position is one off.
Term_early(src, n) == IF src = Zero THEN {} ELSE {[src |-> src, at |-> n - 1]}
Term(src, n) == IF src = Zero THEN {} ELSE {[src |-> src, at |-> n]}

\* fe_istft: the windowed inverse transform over what the cache holds.
OverlapAdd ==
  [n \in 1 .. N |-> Term(AnalysisFrame[n], n) \cup (IF n <= CL THEN cacheIstft[n] ELSE {})]

ProcessFrame ==
  /\ fed < MaxFrames
  /\ cacheStft' = [n \in 1 .. CL |-> AnalysisFrame[n + H]]
  /\ emitted' = [i \in 1 .. H |-> OverlapAdd[i]]
  /\ cacheIstft' = [n \in 1 .. CL |-> OverlapAdd[n + H]]
  /\ fed' = fed + 1
  /\ UNCHANGED base

\* Mutant: the overlap of the old stream stays.
Reset_keepsOverlap ==
  /\ cacheStft' = [n \in 1 .. CL |-> Zero]
  /\ base' = fed
  /\ emitted' = NoFrame
  /\ UNCHANGED <<fed, cacheIstft>>

\* The part of fe_reset that concerns the two caches; a new stream begins.
Reset ==
  /\ cacheStft' = [n \in 1 .. CL |-> Zero]
  /\ cacheIstft' = [n \in 1 .. CL |-> {}]
  /\ base' = fed
  /\ emitted' = NoFrame
  /\ UNCHANGED fed

Next == ProcessFrame \/ Reset

Spec == Init /\ [][Next]_vars

-----------------------------------------------------------------------------
(* Properties *)

Terms == [src : Nat \ {Zero}, at : 1 .. N]

TypeOK ==
  /\ fed \in Nat /\ base \in Nat
  /\ cacheStft \in [1 .. CL -> Nat]
  /\ cacheIstft \in [1 .. CL -> SUBSET Terms]
  /\ emitted \in [1 .. H -> SUBSET Terms]

\* The input sample that position i of the last frame stands for.
Source(i) == (fed - 1) * H + i - CL

\* "Fixed 704-sample alignment delay": every output sample is made of the one
\* input sample CL before it, and of nothing where that lies before the stream,
\* so that no reset lets a sample of the stream before through.
Aligned ==
  \A i \in 1 .. H :
    {c.src : c \in emitted[i]} = IF Source(i) > base * H THEN {Source(i)} ELSE {}

\* The squared window weights that were summed for an output sample are those
\* that the synthesis window was divided by, though H does not divide N: an
\* untouched spectrum comes out as the signal that went in, from the first
\* sample of the stream on.
Reconstructs ==
  \A i \in 1 .. H : \A c \in emitted[i] : {d.at : d \in emitted[i]} = Normaliser(c.at)

-----------------------------------------------------------------------------
(* The inductive invariant: both caches in closed form *)

\* What position p of the input is worth to the current stream.
InStream(p) == IF p > base * H THEN p ELSE Zero

\* The window positions j, j + H, j + 2H, ... from the k-th on.
Spaced(j, k) == {m \in 1 .. N : \E l \in k .. N : m = j + l * H}

TermsOf(src, ats) == {[src |-> src, at |-> m] : m \in IF src = Zero THEN {} ELSE ats}

IInv ==
  /\ fed \in Nat /\ base \in 0 .. fed
  /\ cacheStft = [n \in 1 .. CL |-> InStream(fed * H + n - CL)]
  /\ cacheIstft = [n \in 1 .. CL |-> TermsOf(InStream(fed * H + n - CL), Spaced(n, 1))]
  /\ emitted = [i \in 1 .. H |-> TermsOf(InStream(Source(i)), Spaced(i, 0))]
=============================================================================
