------------------------------ MODULE KernelCall ------------------------------
(***************************************************************************)
(* One kernel call of the network, from the load of its weights to its     *)
(* result.  The engine runs kernels one at a time in the caller's thread;  *)
(* the steps of a call are the calls into the kernel and the iterations of *)
(* its outer loop.  mem holds the buffers of the call that is running.     *)
(***************************************************************************)
EXTENDS QgemmPack

CONSTANTS
  Calls,              \* the calls made: records with at least family and tier
  Weight(_, _, _, _), \* Weight(data, which, n, k), a trained weight
  Code(_, _, _, _),   \* Code(data, which, m, k), a quantised activation
  Silu(_), Sigmoid(_), Tanh(_),
  MaxMK               \* 256 * FE_QGEMM_MAX_K, the i16 scratch of the AVX2 tier

VARIABLES
  call,   \* the call that runs, or NoCall
  stage,  \* how far it has come
  pos,    \* counter of the outer loop
  mem     \* its buffers

kvars == <<call, stage, pos, mem>>

NoCall == [family |-> "none", tier |-> "none", op |-> "none"]
Stages == {"idle", "packed", "loaded", "ready", "loop", "done", "aborted"}

KInit == call = NoCall /\ stage = "idle" /\ pos = 0 /\ mem = <<>>

Starts(c, buffers) ==
  stage = "idle" /\ call' = c /\ stage' = "packed" /\ mem' = buffers /\ UNCHANGED pos

\* The running call goes on: stage s, loop counter p, buffers b.
Continues(s, p, b) == stage' = s /\ pos' = p /\ mem' = b /\ UNCHANGED call

Runs(family, tier, op) == call.family = family /\ call.tier = tier /\ call.op = op

\* The caller has taken the result, or a new process follows an abort().
Return ==
  /\ stage \in {"done", "aborted"}
  /\ call' = NoCall /\ stage' = "idle" /\ pos' = 0 /\ mem' = <<>>
===============================================================================
