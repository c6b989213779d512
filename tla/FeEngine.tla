------------------------------ MODULE FeEngine ------------------------------
(***************************************************************************)
(* The C engine behind fe.h: fe_init with every step at which it can fail, *)
(* fe_run, fe_reset, fe_free, and the globals they share - g_s, g_w, the   *)
(* kernel table and the Winograd scratch pointer.                          *)
(*                                                                         *)
(* The ABI is single-threaded, so the only interleaving is between the     *)
(* calls; inside fe_init one action is one call it makes, so that what a   *)
(* failure leaves behind is a state of its own.                            *)
(*                                                                         *)
(* Data is provenance.  A state buffer is the sequence of frames that its  *)
(* contents depend on (<<>> is all zeros); packed weights are the name of  *)
(* the layout they are in.                                                 *)
(***************************************************************************)
EXTENDS QgemmDispatch

CONSTANTS
  Blobs, NoBlob,  \* weight blobs, by identity of the memory that holds them
  BadMagic,       \* blobs whose first 12 bytes the loader rejects
  BadSize,        \* blobs whose payload is shorter or longer than the layers
  Frames,         \* input frames of the caller
  Silence,        \* the all-zero frame of the warm-up loop
  WarmFrames,     \* its length (128 in the code)
  MaxStream       \* bound: frames between two resets

ASSUME NoBlobAssumption == NoBlob \notin Blobs
ASSUME BadBlobsAssumption == BadMagic \cup BadSize \subseteq Blobs
ASSUME SilenceAssumption == Silence \notin Frames
ASSUME WarmAssumption == WarmFrames \in Nat
ASSUME MaxStreamAssumption == MaxStream \in Nat

VARIABLES
  pc,       \* "idle" between calls, else the next call fe_init will make
  arg,      \* fe_init's weights_blob
  warm,     \* warm-up frames still to run
  owned,    \* the buffers of g_w that are allocated
  layout,   \* layout of the int8 weights in q_buf and in q_wino_buf
  wref,     \* blob that g_w's zero-copy pointers point into
  live,     \* g_s # NULL
  state,    \* the streaming fields of *g_s
  scratch,  \* what the static Winograd scratch pointer points to
  out,      \* what fe_run last wrote to its output buffer
  rc        \* what the last call returned: fe_init's code, or Void

weightVars == <<owned, layout, wref>>
stateVars == <<live, state, scratch, out>>
callVars == <<pc, arg, warm, rc>>
vars == <<callVars, weightVars, stateVars, dispatchVars>>

-----------------------------------------------------------------------------
(* Weights *)

Buffers == {"q", "scales", "row_sums", "wino", "wino_scales", "prepack"}

\* The tier's kernels read int8 weights in one layout only.
LayoutFor(tier) == IF tier = "i8mm" THEN "i8mm" ELSE "dotprod"

\* The repack permutes bytes in place: applied twice it is not its own inverse.
Repack(l) == IF l = "dotprod" THEN "i8mm" ELSE "scrambled"

\* Mutant: the Winograd weights stay as they were derived.
FinalizeForTier_gemmOnly(l, tier) ==
  IF tier = "i8mm" THEN [l EXCEPT !.q = Repack(@)] ELSE l

FinalizeForTier(l, tier) ==
  IF tier = "i8mm" THEN [l EXCEPT !.q = Repack(@), !.wino = Repack(@)] ELSE l

\* The derivation unpacks q_buf as DOTPROD and packs its result as DOTPROD.
DeriveWinograd(l) ==
  [l EXCEPT !.wino = IF l.q = "dotprod" THEN "dotprod" ELSE "scrambled"]

-----------------------------------------------------------------------------
(* Streaming state *)

Fields == {"gru", "stft", "istft"}
Zeroed == [f \in Fields |-> <<>>]

\* One frame: the spectrum reads cache_stft, the GRUs their hidden state, the
\* output cache_istft; each of the three is overwritten with what it now covers.
ProcessFrame(s, x) == [f \in Fields |-> Append(s[f], x)]

\* Mutant: the overlap of the old stream is left in cache_istft.
ResetState_keepsOverlap(s) == [s EXCEPT !["gru"] = <<>>, !["stft"] = <<>>]

ResetState(s) == [f \in Fields |-> <<>>]

NoOutput == [blob |-> NoBlob, tier |-> NoTier, state |-> Zeroed]
NoLayout == [q |-> "none", wino |-> "none"]
Void == 1
-----------------------------------------------------------------------------

Init ==
  /\ DispatchInit
  /\ pc = "idle" /\ arg = NoBlob /\ warm = 0 /\ rc = 0
  /\ owned = {} /\ layout = NoLayout /\ wref = NoBlob
  /\ live = FALSE /\ state = Zeroed /\ scratch = "null" /\ out = NoOutput

Return(code) == pc' = "idle" /\ rc' = code /\ UNCHANGED <<arg, warm>>
Continue(next) == pc' = next /\ UNCHANGED <<arg, warm, rc>>

(* fe_init, up to its first call *)

\* Mutant: a second fe_init starts a new stream.
InitAlready_restarts ==
  /\ pc = "idle" /\ live
  /\ Return(0)
  /\ state' = ResetState(state)
  /\ UNCHANGED <<live, scratch, out, weightVars, dispatchVars>>

\* Initialised already: whatever blob the caller passes, nothing is loaded.
InitAlready ==
  /\ pc = "idle" /\ live
  /\ Return(0)
  /\ UNCHANGED <<weightVars, stateVars, dispatchVars>>

InitBadArgs ==
  /\ pc = "idle" /\ ~live
  /\ Return(-1)
  /\ UNCHANGED <<weightVars, stateVars, dispatchVars>>

InitEnter(b) ==
  /\ pc = "idle" /\ ~live
  /\ pc' = "qgemm" /\ arg' = b
  /\ UNCHANGED <<warm, rc, weightVars, stateVars, dispatchVars>>

InitQgemm ==
  /\ pc = "qgemm"
  /\ \/ (QgemmInitKeeps \/ QgemmInitSelects) /\ Continue("load")
     \/ QgemmInitFails /\ Return(-1)
  /\ UNCHANGED <<weightVars, stateVars>>

(* fe_load_weights: header, buffers, payload, Winograd derivation *)

LoadHeaderBad ==
  /\ pc = "load" /\ arg \in BadMagic
  /\ Continue("unload")
  /\ UNCHANGED <<weightVars, stateVars, dispatchVars>>

\* All six mallocs are made before any result is looked at.
LoadAllocate(got) ==
  /\ pc = "load" /\ arg \notin BadMagic
  /\ owned' = got
  /\ Continue(IF got = Buffers THEN "parse" ELSE "unload")
  /\ UNCHANGED <<layout, wref, stateVars, dispatchVars>>

LoadPayload ==
  /\ pc = "parse"
  /\ wref' = arg
  /\ layout' = [layout EXCEPT !.q = "dotprod"]
  /\ Continue(IF arg \in BadSize THEN "unload" ELSE "derive")
  /\ UNCHANGED <<owned, stateVars, dispatchVars>>

LoadDerive ==
  /\ pc = "derive"
  /\ \/ layout' = DeriveWinograd(layout) /\ Continue("finalize")
     \/ UNCHANGED layout /\ Continue("unload")     \* no scratch memory
  /\ UNCHANGED <<owned, wref, stateVars, dispatchVars>>

InitFinalize ==
  /\ pc = "finalize"
  /\ layout' = FinalizeForTier(layout, ops)
  /\ Continue("create")
  /\ UNCHANGED <<owned, wref, stateVars, dispatchVars>>

InitCreateState ==
  /\ pc = "create"
  /\ live' = TRUE /\ state' = Zeroed /\ scratch' = "state"
  /\ warm' = WarmFrames /\ pc' = "warm"
  /\ UNCHANGED <<arg, rc, out, weightVars, dispatchVars>>

InitCreateFails ==
  /\ pc = "create"
  /\ Continue("unload")
  /\ UNCHANGED <<weightVars, stateVars, dispatchVars>>

\* Mutants: a failed step returns without freeing; it tries again for ever.
InitUnload_leaks ==
  /\ pc = "unload"
  /\ Return(-1)
  /\ UNCHANGED <<weightVars, stateVars, dispatchVars>>

InitUnload_retries ==
  /\ pc = "unload"
  /\ owned' = {}
  /\ Continue("load")
  /\ UNCHANGED <<layout, wref, stateVars, dispatchVars>>

\* fe_free_weights frees what is owned; the pointers into it stay as they are.
InitUnload ==
  /\ pc = "unload"
  /\ owned' = {}
  /\ Return(-1)
  /\ UNCHANGED <<layout, wref, stateVars, dispatchVars>>

\* Mutant: one frame too many.
InitWarmUp_offByOne ==
  /\ pc = "warm" /\ warm >= 0
  /\ state' = ProcessFrame(state, Silence)
  /\ warm' = warm - 1
  /\ UNCHANGED <<pc, arg, rc, live, scratch, out, weightVars, dispatchVars>>

InitWarmUp ==
  /\ pc = "warm" /\ warm > 0
  /\ state' = ProcessFrame(state, Silence)
  /\ warm' = warm - 1
  /\ UNCHANGED <<pc, arg, rc, live, scratch, out, weightVars, dispatchVars>>

InitReset ==
  /\ pc = "warm" /\ warm = 0
  /\ state' = ResetState(state)
  /\ Return(0)
  /\ UNCHANGED <<live, scratch, out, weightVars, dispatchVars>>

(* The other three calls; each is a no-op, or nearly, without an engine *)

FeRun(x) ==
  /\ pc = "idle" /\ live
  /\ Len(state["gru"]) < MaxStream
  /\ state' = ProcessFrame(state, x)
  /\ out' = [blob |-> wref, tier |-> ops, state |-> ProcessFrame(state, x)]
  /\ rc' = Void
  /\ UNCHANGED <<live, scratch, pc, arg, warm, weightVars, dispatchVars>>

FeReset ==
  /\ pc = "idle" /\ live
  /\ state' = ResetState(state)
  /\ rc' = Void
  /\ UNCHANGED <<live, scratch, out, pc, arg, warm, weightVars, dispatchVars>>

\* Mutant: the state is destroyed, the weights are kept.
FeFree_keepsWeights ==
  /\ pc = "idle"
  /\ live' = FALSE
  /\ state' = IF live THEN Zeroed ELSE state
  /\ scratch' = IF live THEN "freed" ELSE scratch
  /\ rc' = Void
  /\ UNCHANGED <<owned, out, layout, wref, pc, arg, warm, dispatchVars>>

FeFree ==
  /\ pc = "idle"
  /\ live' = FALSE
  /\ state' = IF live THEN Zeroed ELSE state
  /\ scratch' = IF live THEN "freed" ELSE scratch
  /\ owned' = {}
  /\ rc' = Void
  /\ UNCHANGED <<out, layout, wref, pc, arg, warm, dispatchVars>>

FeForceTier ==
  /\ pc = "idle"
  /\ ClearForcedTier \/ \E t \in TierNames : ForceTier(t)
  /\ UNCHANGED <<callVars, weightVars, stateVars>>

InitStep ==
  \/ InitQgemm
  \/ LoadHeaderBad \/ (\E got \in SUBSET Buffers : LoadAllocate(got))
  \/ LoadPayload \/ LoadDerive
  \/ InitFinalize \/ InitCreateState \/ InitCreateFails \/ InitUnload
  \/ InitWarmUp \/ InitReset

Next ==
  \/ \E b \in Blobs : InitEnter(b)
  \/ InitAlready \/ InitBadArgs
  \/ InitStep
  \/ \E x \in Frames : FeRun(x)
  \/ FeReset \/ FeFree \/ FeForceTier

Spec == Init /\ [][Next]_vars

\* A C call that was made runs to its return.
FairSpec == Spec /\ WF_vars(InitStep)

-----------------------------------------------------------------------------
(* Properties *)

Phases == {"idle", "qgemm", "load", "parse", "derive", "finalize", "create",
           "unload", "warm"}
Layouts == {"none", "dotprod", "i8mm", "scrambled"}
Histories == [Fields -> Seq(Frames \cup {Silence})]

TypeOK ==
  /\ DispatchTypeOK
  /\ pc \in Phases /\ arg \in Blobs \cup {NoBlob} /\ warm \in 0 .. WarmFrames
  /\ rc \in {0, -1, Void}
  /\ owned \subseteq Buffers /\ layout \in [q : Layouts, wino : Layouts]
  /\ wref \in Blobs \cup {NoBlob}
  /\ live \in BOOLEAN /\ state \in Histories
  /\ scratch \in {"null", "state", "freed"}
  /\ out \in [blob : Blobs \cup {NoBlob}, tier : Tiers \cup {NoTier}, state : Histories]

\* Between calls the engine is whole or absent: with g_s every buffer of g_w is
\* allocated and the Winograd scratch is inside g_s; without g_s nothing is left
\* allocated, whichever step of fe_init failed and whatever was freed before.
WholeOrAbsent ==
  pc = "idle" =>
    /\ owned = IF live THEN Buffers ELSE {}
    /\ live => scratch = "state"

\* fe_load_weights overwrites the six owning pointers: it never does while one
\* of them still owns memory.
NothingOverwritten == pc = "load" => owned = {}

\* A frame is only ever processed with weights in the layout that the installed
\* kernels read: repacked exactly once on the I8MM tier and never elsewhere, the
\* Winograd weights derived before it, and no later choice of tier changes that.
WeightsFitKernels ==
  live => layout = [q |-> LayoutFor(ops), wino |-> LayoutFor(ops)]

\* The kernel table fe_init goes on with is the one that the tier forced last,
\* or its removal, asks for - not one cached by an earlier initialisation.
KernelsAsForced ==
  pc \in Phases \ {"idle", "qgemm", "unload"} => ops = SelectOps(forced) /\ ops # NoTier

\* The quantizer takes its 512-bit path exactly while the AVX-512 kernels are
\* installed, though tiers with and without it may be forced in turn: it would
\* fault on a CPU without AVX-512.
ZmmFitsKernels == live => /\ ops # NoTier
                          /\ zmm <=> ops = "avx512vnni"
                          /\ zmm => "avx512vnni" \in host

\* The three fields that carry a stream agree on which frames they cover, and
\* the warm-up's silence is in none of them: what fe_run returned depends on
\* the frames of one stream.
OneStream ==
  /\ (pc = "idle" /\ live) => \A f, g \in Fields : state[f] = state[g]
  /\ \A f, g \in Fields : out.state[f] = out.state[g]
  /\ \A f \in Fields : \A i \in DOMAIN out.state[f] : out.state[f][i] # Silence

\* The kernels a live engine uses never change under it, though tiers may be
\* forced and cleared while it runs.
KernelsFrozen == [][live /\ live' => UNCHANGED <<ops, layout, wref>>]_vars

\* What a caller sees of the engine: initialised only between the return of a
\* successful fe_init and fe_free.
Ready == pc = "idle" /\ live

ApiState ==
  IF Ready THEN [blob |-> wref, stream |-> state["gru"]]
           ELSE [blob |-> NoBlob, stream |-> <<>>]
ApiOutput == [blob |-> out.blob, heard |-> out.state["gru"]]

Contract == INSTANCE FeContract WITH api <- ApiState, out <- ApiOutput

\* The engine keeps the promises of fe.h: a failed or repeated fe_init changes
\* nothing, fe_run's output is a function of the blob and of the frames since
\* fe_init or fe_reset, fe_free may be called again.
KeepsContract == Contract!ContractSpec

\* Every fe_init returns.
InitReturns == (pc # "idle") ~> (pc = "idle")

-----------------------------------------------------------------------------
(* The inductive invariant behind the safety properties *)

\* What fe_init has established when it makes its next call.
InitProgress ==
  /\ pc \in Phases \ {"idle", "warm"} => ~live
  /\ pc \in {"idle", "qgemm", "load"} /\ ~live => owned = {}
  /\ pc \in {"parse", "derive", "finalize", "create"} => owned = Buffers
  /\ pc \in {"derive", "finalize"} => layout.q = "dotprod"
  /\ pc = "finalize" => layout.wino = "dotprod"
  /\ pc = "create" => layout = [q |-> LayoutFor(ops), wino |-> LayoutFor(ops)]
  /\ pc = "warm" => live
  /\ pc # "idle" => arg \in Blobs
  /\ pc \in {"derive", "finalize", "create", "warm"} => wref = arg

\* What a live engine rests on.
LiveEngine ==
  live => /\ owned = Buffers /\ scratch = "state" /\ ops # NoTier /\ wref \in Blobs
          /\ layout = [q |-> LayoutFor(ops), wino |-> LayoutFor(ops)]

\* A table that the next fe_qgemm_init keeps is the automatic choice.
CachedTable == KeepsTable => ops = SelectOps(AutoTier) /\ ops # NoTier

\* Every table comes with its setting of the quantizer and is one the host has.
TableFitsHost == ops # NoTier => ops \in host /\ zmm = (ops = "avx512vnni")

\* Outside fe_init a stream holds the caller's frames only, the same in each field.
CallersStream ==
  (pc = "idle" /\ live) =>
    /\ \A f, g \in Fields : state[f] = state[g]
    /\ \A f \in Fields : state[f] \in Seq(Frames)

OutputStream ==
  /\ \A f, g \in Fields : out.state[f] = out.state[g]
  /\ \A f \in Fields : out.state[f] \in Seq(Frames)

IInv ==
  /\ TypeOK
  /\ InitProgress
  /\ LiveEngine
  /\ CachedTable
  /\ TableFitsHost
  /\ KernelsAsForced
  /\ CallersStream
  /\ OutputStream
=============================================================================
