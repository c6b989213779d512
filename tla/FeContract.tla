----------------------------- MODULE FeContract -----------------------------
(***************************************************************************)
(* What fe.h promises a caller of the C ABI, with no trace of how the      *)
(* engine does it: everything fe_run returns is a function of the blob and *)
(* of the frames since fe_init or fe_reset.  FeEngine implements this      *)
(* module (a refinement, checked and proved); EnhancerBinding is built on  *)
(* the same operators.                                                     *)
(***************************************************************************)
EXTENDS FeApi

CONSTANTS
  Frames,     \* what a 320-sample input frame may contain
  MaxStream   \* bound: frames of one stream

VARIABLES
  api,        \* [blob, stream]: the engine as its caller knows it
  out,        \* what fe_run last wrote to its output buffer
  rc          \* what the last call returned

contractVars == <<api, out, rc>>

\* A call without a result: what changes the engine is told apart by it from fe_init.
Void == 1

ContractInit == api = Uninitialised /\ out = NoOutput /\ rc = 0

InitOk(b) ==
  /\ api' = AfterInit(api, b)
  /\ rc' = 0
  /\ UNCHANGED out

\* A failed fe_init has changed nothing: the call may simply be made again.
InitFails ==
  /\ ~IsInitialised(api)
  /\ rc' = -1
  /\ UNCHANGED <<api, out>>

Run(x) ==
  /\ Len(api.stream) < MaxStream
  /\ api' = AfterRun(api, x)
  /\ out' = OutputOf(api, x, out)
  /\ rc' = Void

Reset == api' = AfterReset(api) /\ rc' = Void /\ UNCHANGED out

Free == api' = AfterFree(api) /\ rc' = Void /\ UNCHANGED out

ContractNext ==
  \/ \E b \in Blobs : InitOk(b)
  \/ InitFails
  \/ \E x \in Frames : Run(x)
  \/ Reset
  \/ Free

ContractSpec == ContractInit /\ [][ContractNext]_contractVars
=============================================================================
