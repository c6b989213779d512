------------------------------ MODULE ActQuant ------------------------------
(***************************************************************************)
(* Quantisation of activations (qgemm_quant.c): a scan for the range, the  *)
(* choice of scale and zero point, and the codes, which every tier writes  *)
(* with its own split into a vector body and a scalar tail.  Activations   *)
(* are integers, a scale is the fraction num / den.                        *)
(***************************************************************************)
EXTENDS KernelCall

CONSTANT Sample(_, _)   \* Sample(data, i), element i of an activation tensor

\* What is quantised: tensors of at least one element.
ASSUME TensorsAssumption ==
  \A c \in Calls :
    c.family = "quant" =>
      /\ {c.M, c.K} \subseteq Nat \ {0}
      /\ c.tier \in {"neon", "avx2", "avx512"}
      /\ c.op \in {"flat", "scaled", "fp16", "transposed", "transposed16", "concat"}
      /\ \A i \in 0 .. c.M * c.K - 1 : Sample(c.data, i) \in Int

Elements == call.M * call.K
OfFp16 == call.op \in {"fp16", "transposed16"}

\* FE_CONCAT2: the left half of each row is fp32, the right half fp16.
RightHalf(i) == call.op = "concat" /\ 2 * (i % call.K) >= call.K

QuantStart ==
  \E c \in {d \in Calls : d.family = "quant"} :
    Starts(c, [x |-> [i \in 0 .. c.M * c.K - 1 |-> Sample(c.data, i)]])

\* Mutant: the range is not extended to zero.
PickQparams_tight(vmin, vmax) ==
  LET span == IF vmax > vmin THEN vmax - vmin ELSE 1
  IN  [num |-> span, den |-> 255, zp |-> Clamp(0, 255, RoundAway(-vmin * 255, span))]

\* pick_qparams: the range is made to include zero; an empty one is rescued.
PickQparams(vmin, vmax) ==
  LET lo   == Least(vmin, 0)
      span == IF Greatest(vmax, 0) > lo THEN Greatest(vmax, 0) - lo ELSE 1
  IN  [num |-> span, den |-> 255, zp |-> Clamp(0, 255, RoundAway(-lo * 255, span))]

\* Symmetric output of fe_qgemm_packed_calib_to_int8out.
MaxAbsParams(x) ==
  LET mx == MaxTo(Elements, [i \in Nat |-> AbsOf(x[i])])
  IN  [num |-> IF mx = 0 THEN 1 ELSE mx, den |-> 127, zp |-> 128]

\* The scan; that of fp16 storage has no tail and aborts on one.
Lanes16 == IF call.tier = "neon" THEN 4 ELSE 8
ScanRange ==
  /\ call.family = "quant" /\ stage = "packed"
  /\ LET x == mem.x
         vmax == x[0] + MaxTo(Elements, [i \in Nat |-> x[i] - x[0]])
         vmin == x[0] - MaxTo(Elements, [i \in Nat |-> x[0] - x[i]])
         q == IF call.op = "scaled" THEN MaxAbsParams(x) ELSE PickQparams(vmin, vmax)
         part == IF call.op = "concat" THEN Elements \div 2 ELSE Elements
     IN  IF (OfFp16 \/ call.op = "concat") /\ (part % Lanes16) # 0
         THEN Continues("aborted", 0, mem)
         ELSE Continues("ready", 0, [x |-> x, q |-> q, out |-> <<>>])

(***************************************************************************)
(* One code.  A vector body adds the zero point before it rounds, halves   *)
(* to even, and saturates; the scalar tail rounds halves away from zero    *)
(* first.  The fp16 bodies have no lower clamp at -127.                    *)
(***************************************************************************)
BodyCode(x, floor) ==
  LET q == mem.q IN Clamp(floor, 127, RoundEven(x * q.den + (q.zp - 128) * q.num, q.num))
TailCode(x) == LET q == mem.q IN Clamp(-127, 127, RoundAway(x * q.den, q.num) + q.zp - 128)

\* How many of n elements in a row the vector loops take.
Body(n) == CASE call.tier = "avx512" -> n
             [] call.tier = "avx2"   -> (n \div 8) * 8
             [] call.tier = "neon"   -> (n \div 4) * 4

QuantiseFlat ==
  /\ call.family = "quant" /\ call.op \in {"flat", "scaled"} /\ stage = "ready"
  /\ Continues("done", 0, [mem EXCEPT !.out =
       [i \in 0 .. Elements - 1 |->
          IF i < Body(Elements) THEN BodyCode(mem.x[i], -127) ELSE TailCode(mem.x[i])]])

QuantiseFp16 ==
  /\ call.family = "quant" /\ call.op = "fp16" /\ stage = "ready"
  /\ Continues("done", 0, [mem EXCEPT !.out =
       [i \in 0 .. Elements - 1 |-> BodyCode(mem.x[i], -128)]])

\* fp32 [K, M] in, codes [M, K] out: 4x4 tiles, then tails in k and in m.
QuantiseTransposed ==
  /\ call.family = "quant" /\ call.op \in {"transposed", "transposed16"} /\ stage = "ready"
  /\ LET whole == (call.M % 4) = 0 /\ (call.K % 4) = 0
         Cell(m, k) == LET x == mem.x[k * call.M + m]
                       IN  IF m < (call.M \div 4) * 4 /\ k < (call.K \div 4) * 4
                           THEN BodyCode(x, -127) ELSE TailCode(x)
     IN  IF call.op = "transposed16" /\ ~whole
         THEN Continues("aborted", 0, mem)
         ELSE Continues("done", 0, [mem EXCEPT !.out =
                [i \in 0 .. Elements - 1 |-> Cell(i \div call.K, i % call.K)]])

\* fe_qgemm_packed_silu_calib_concat2_fp16b, row by row with one scale.
QuantiseConcat ==
  /\ call.family = "quant" /\ call.op = "concat" /\ stage = "ready"
  /\ LET half == call.K \div 2
         Cell(i) == IF RightHalf(i) THEN BodyCode(mem.x[i], -128)
                    ELSE IF (i % call.K) < Body(half) THEN BodyCode(mem.x[i], -127)
                    ELSE TailCode(mem.x[i])
     IN  IF (half % Lanes16) # 0
         THEN Continues("aborted", 0, mem)
         ELSE Continues("done", 0, [mem EXCEPT !.out = [i \in 0 .. Elements - 1 |-> Cell(i)]])

QuantNext == QuantStart \/ ScanRange \/ QuantiseFlat \/ QuantiseFp16
             \/ QuantiseTransposed \/ QuantiseConcat
==============================================================================
