------------------------------ MODULE Winograd ------------------------------
(***************************************************************************)
(* Winograd F(2,3) for the k = 3 convolutions (fe_winograd.c): weights     *)
(* derived from the packed layer at load; a frame is scanned, transformed  *)
(* and quantised per component, multiplied by four int32 GEMMs (exact on   *)
(* the shapes layers have: tiles and N multiples of 8, K of 4; see         *)
(* Kernels) and put together, two rows from a tile.  Derived weights are   *)
(* doubled, outputs are in units of 1 / (2 * 127 * 127) before SiLU.       *)
(***************************************************************************)
EXTENDS KernelCall

\* call.M rows of call.K channels in, call.N channels out; the rows are FE_F1,
\* a multiple of 8 in every configuration (fe_config_medium.h:95).
ASSUME WinoAssumption ==
  \A c \in Calls :
    c.family = "wino" =>
      /\ {c.M, c.N} \subseteq Nat /\ c.M % 2 = 0 /\ c.K \in Nat \ {0} /\ c.bias \in BOOLEAN
      /\ \A n \in 0 .. c.N - 1, k \in 0 .. 3 * c.K - 1 : Weight(c.data, 0, n, k) \in Int
      /\ \A m \in 0 .. c.M - 1, k \in 0 .. c.K - 1 : Code(c.data, 0, m, k) \in Int

Components == 0 .. 3
NTiles == call.M \div 2
Bias3(n) == (3 * n) - 7

WinoLoad ==
  \E c \in {d \in Calls : d.family = "wino"} :
    Starts(c,
      [W |-> PackW([n \in 0 .. c.N - 1 |-> [k \in 0 .. 3 * c.K - 1 |-> Weight(c.data, 0, n, k)]],
                   c.N, 3 * c.K),
       x |-> [i \in 0 .. c.M * c.K - 1 |-> Code(c.data, 0, i \div c.K, i % c.K)]])

\* Rows of G: twice the derived weight of component i.
Derived(i, w0, w1, w2) ==
  CASE i = 0 -> 2 * w0
    [] i = 1 -> w0 + w1 + w2
    [] i = 2 -> w0 - w1 + w2
    [] i = 3 -> 2 * w2

\* fe_winograd_f23_derive_weights: unpacked, transformed, packed per component.
WinoDerive ==
  /\ call.family = "wino" /\ stage = "packed"
  /\ LET tap(n, c, j) == PackedAt(mem.W, 3 * call.K, n, 3 * c + j)
         g(i) == [n \in 0 .. call.N - 1 |-> [c \in 0 .. call.K - 1 |->
                    Derived(i, tap(n, c, 0), tap(n, c, 1), tap(n, c, 2))]]
     IN  Continues("loaded", 0,
           [x |-> mem.x, W |-> mem.W,
            wg  |-> [i \in Components |-> PackW(g(i), call.N, call.K)],
            top |-> [i \in Components |-> RowMax(g(i), call.N, call.K)]])

\* Row p of the input, zero before the first and after the last.
Row(p, c) == IF p \in 0 .. call.M - 1 THEN mem.x[p * call.K + c] ELSE 0

\* Mutant: the last component with the sign of the textbook's other convention.
Transformed_flipped(i, t, c) ==
  CASE i = 0 -> Row(2 * t - 1, c) - Row(2 * t + 1, c)
    [] i = 1 -> Row(2 * t, c) + Row(2 * t + 1, c)
    [] i = 2 -> Row(2 * t + 1, c) - Row(2 * t, c)
    [] i = 3 -> Row(2 * t + 2, c) - Row(2 * t, c)

\* Rows of B^T on rows 2t - 1 .. 2t + 2.
Transformed(i, t, c) ==
  CASE i = 0 -> Row(2 * t - 1, c) - Row(2 * t + 1, c)
    [] i = 1 -> Row(2 * t, c) + Row(2 * t + 1, c)
    [] i = 2 -> Row(2 * t + 1, c) - Row(2 * t, c)
    [] i = 3 -> Row(2 * t, c) - Row(2 * t + 2, c)

\* Pass A: the largest magnitude of each component; 1 stands in for 0.
WinoScan ==
  /\ call.family = "wino" /\ stage = "loaded"
  /\ LET mx(i) == MaxTo(NTiles, [t \in Nat |-> MaxTo(call.K, [c \in Nat |-> AbsOf(Transformed(i, t, c))])])
         peaks == [i \in Components |-> mx(i)]
     IN  Continues("ready", 0,
           [x |-> mem.x, W |-> mem.W, wg |-> mem.wg, top |-> mem.top,
            peak |-> [i \in Components |-> IF peaks[i] = 0 THEN 1 ELSE peaks[i]]])

\* Pass B: codes, four channels at a time and the rest one by one.
WinoTransform ==
  /\ call.family = "wino" /\ stage = "ready"
  /\ LET code(i, t, c) ==
           LET d == Transformed(i, t, c) * 127
           IN  Clamp(-127, 127, IF c < (call.K \div 4) * 4 THEN RoundEven(d, mem.peak[i])
                                ELSE RoundAway(d, mem.peak[i]))
     IN  Continues("loop", 0,
           [x |-> mem.x, W |-> mem.W, wg |-> mem.wg, top |-> mem.top, peak |-> mem.peak,
            dq |-> [i \in Components |-> [j \in 0 .. NTiles * call.K - 1 |->
                      code(i, j \div call.K, j % call.K)]],
            U  |-> [i \in Components |-> <<>>]])

\* One component's product.
WinoGemm ==
  /\ call.family = "wino" /\ stage = "loop" /\ pos \in Components
  /\ Continues("loop", pos + 1,
       [mem EXCEPT !.U[pos] = [t \in 0 .. NTiles - 1 |-> [n \in 0 .. call.N - 1 |->
          SumTo(call.K, [k \in Nat |-> mem.dq[pos][t * call.K + k] * PackedAt(mem.wg[pos], call.K, n, k)])]]])

\* A^T on the dequantised products, and the bias.  The skip copy in fp16 is
\* stored in the same pass (rounded, not modelled), by vectors only: a column
\* tail aborts.
WinoEpilogue ==
  /\ call.family = "wino" /\ stage = "loop" /\ pos = 4
  /\ LET u(i, t, n) == mem.peak[i] * mem.top[i][n] * mem.U[i][t][n]
         b(n) == IF call.bias THEN 2 * 127 * 127 * Bias3(n) ELSE 0
         y == [f \in 0 .. 2 * NTiles - 1 |-> [n \in 0 .. call.N - 1 |->
                LET t == f \div 2
                IN  IF (f % 2) = 0 THEN u(0, t, n) + u(1, t, n) + u(2, t, n) + b(n)
                    ELSE u(1, t, n) - u(2, t, n) - u(3, t, n) + b(n)]]
         lanes == IF call.tier = "neon" THEN 4 ELSE 8
     IN  Continues(IF call.op = "skip16" /\ (call.N % lanes) # 0 THEN "aborted" ELSE "done", pos,
           [x |-> mem.x, W |-> mem.W, peak |-> mem.peak, top |-> mem.top,
            y |-> y])

WinoNext == WinoLoad \/ WinoDerive \/ WinoScan \/ WinoTransform \/ WinoGemm \/ WinoEpilogue
==============================================================================
