--------------------------- MODULE FeEngineProofs ---------------------------
(***************************************************************************)
(* Proofs about FeEngine, for every ladder of tiers, every set of CPUs and *)
(* blobs, any length of the warm-up and any bound on streams.              *)
(***************************************************************************)
EXTENDS FeEngine, TLAPS

\* What select_ops installs is a tier of the ladder that the host has, or none.
LEMMA SelectOpsType ==
  ASSUME host \in Hosts, NEW f
  PROVE  /\ SelectOps(f) \in Tiers \cup {NoTier}
         /\ SelectOps(f) # NoTier => SelectOps(f) \in host
  BY DEF SelectOps, Reach, Tiers

\* Appending a frame to each of the fields keeps them histories.
LEMMA ProcessFrameType ==
  ASSUME NEW S, NEW s \in [Fields -> Seq(S)], NEW x \in S
  PROVE  ProcessFrame(s, x) \in [Fields -> Seq(S)]
  BY DEF ProcessFrame

\* A zeroed state has an empty history, whatever the frames.
LEMMA ZeroedType == ASSUME NEW S PROVE Zeroed \in [Fields -> Seq(S)]
  BY DEF Zeroed

\* Its fields agree, and hold no frame of the warm-up.
LEMMA ZeroedStream ==
  /\ \A f, g \in Fields : Zeroed[f] = Zeroed[g]
  /\ \A f \in Fields : Zeroed[f] \in Seq(Frames)
  BY DEF Zeroed

\* The initial states satisfy the inductive invariant.
LEMMA InitInvariant == Init => IInv
  <1> SUFFICES ASSUME Init PROVE IInv
    OBVIOUS
  <1> USE DEF Init, DispatchInit
  <1>1. TypeOK
    <2>1. DispatchTypeOK
      BY DEF DispatchTypeOK
    <2>2. Zeroed \in Histories
      BY ZeroedType DEF Histories
    <2>3. out \in [blob : Blobs \cup {NoBlob}, tier : Tiers \cup {NoTier}, state : Histories]
      BY <2>2 DEF NoOutput
    <2>4. warm \in 0 .. WarmFrames
      BY WarmAssumption
    <2>5. layout \in [q : Layouts, wino : Layouts]
      BY DEF NoLayout, Layouts
    <2>6. QED
      BY <2>1, <2>2, <2>3, <2>4, <2>5 DEF TypeOK, Phases
  <1>2. InitProgress /\ LiveEngine /\ CallersStream
    BY DEF InitProgress, LiveEngine, CallersStream, Phases
  <1>3. CachedTable /\ TableFitsHost /\ KernelsAsForced
    BY DEF CachedTable, TableFitsHost, KernelsAsForced, KeepsTable
  <1>4. OutputStream
    <2>1. out.state = Zeroed
      BY DEF NoOutput
    <2>2. QED
      BY <2>1 DEF OutputStream, Zeroed
  <1>5. QED
    BY <1>1, <1>2, <1>3, <1>4 DEF IInv

-----------------------------------------------------------------------------
(* Each action preserves the inductive invariant *)

\* Steps of fe_qgemm_init, alone.
LEMMA QgemmKeepsTable ==
  ASSUME DispatchTypeOK, CachedTable, TableFitsHost, QgemmInitKeeps \/ QgemmInitSelects
  PROVE  /\ DispatchTypeOK' /\ CachedTable' /\ TableFitsHost'
         /\ ops' # NoTier /\ ops' = SelectOps(forced)'
  <1>1. CASE QgemmInitKeeps
    BY <1>1 DEF QgemmInitKeeps, dispatchVars, DispatchTypeOK, CachedTable,
       TableFitsHost, KeepsTable, SelectOps, Reach
  <1>2. CASE QgemmInitSelects
    <2>1. ops' = SelectOps(forced)' /\ ops' # NoTier
      BY <1>2 DEF QgemmInitSelects, SelectOps, Reach
    <2>2. ops' \in Tiers /\ ops' \in host'
      BY <1>2, SelectOpsType DEF QgemmInitSelects, DispatchTypeOK
    <2>3. QED
      BY <1>2, <2>1, <2>2 DEF QgemmInitSelects, DispatchTypeOK, CachedTable,
         TableFitsHost, KeepsTable
  <1>3. QED
    BY <1>1, <1>2

\* Without a table nothing is cached.
LEMMA QgemmFailsKeeps ==
  ASSUME DispatchTypeOK, CachedTable, TableFitsHost, QgemmInitFails
  PROVE  DispatchTypeOK' /\ CachedTable' /\ TableFitsHost'
  BY DEF QgemmInitFails, DispatchTypeOK, CachedTable, TableFitsHost, KeepsTable

\* Forcing a tier, or clearing it, makes the next fe_qgemm_init choose again.
LEMMA ForceKeepsTable ==
  ASSUME DispatchTypeOK, CachedTable, TableFitsHost,
         ClearForcedTier \/ \E t \in TierNames : ForceTier(t)
  PROVE  DispatchTypeOK' /\ CachedTable' /\ TableFitsHost' /\ UNCHANGED ops
  <1>1. CASE ClearForcedTier
    BY <1>1 DEF ClearForcedTier, DispatchTypeOK, CachedTable, TableFitsHost, KeepsTable
  <1>2. ASSUME NEW t \in TierNames, ForceTier(t)
        PROVE  DispatchTypeOK' /\ CachedTable' /\ TableFitsHost' /\ UNCHANGED ops
    <2>1. t \in Tiers
      BY <1>2, SelectOpsType, ReservedAssumption DEF ForceTier, DispatchTypeOK
    <2>2. QED
      BY <1>2, <2>1 DEF ForceTier, DispatchTypeOK, CachedTable, TableFitsHost, KeepsTable
  <1>3. QED
    BY <1>1, <1>2

\* A step that leaves the dispatcher alone leaves its invariants alone.
LEMMA DispatchUntouched ==
  ASSUME UNCHANGED dispatchVars
  PROVE  /\ DispatchTypeOK' <=> DispatchTypeOK
         /\ CachedTable' <=> CachedTable
         /\ TableFitsHost' <=> TableFitsHost
         /\ SelectOps(forced)' = SelectOps(forced)
  BY DEF dispatchVars, DispatchTypeOK, CachedTable, TableFitsHost, KeepsTable,
     SelectOps, Reach

\* The steps of fe_init before there is a state, none of which touches the
\* dispatcher or the stream.
LoadingStep ==
  \/ InitAlready \/ InitBadArgs \/ (\E b \in Blobs : InitEnter(b))
  \/ LoadHeaderBad \/ (\E got \in SUBSET Buffers : LoadAllocate(got))
  \/ LoadPayload \/ LoadDerive \/ InitFinalize \/ InitCreateFails \/ InitUnload

\* The layouts the two in-place transformations produce.
LEMMA LayoutTypes ==
  ASSUME NEW l \in [q : Layouts, wino : Layouts], NEW tier
  PROVE  /\ FinalizeForTier(l, tier) \in [q : Layouts, wino : Layouts]
         /\ DeriveWinograd(l) \in [q : Layouts, wino : Layouts]
         /\ DeriveWinograd(l).q = l.q
         /\ l.q = "dotprod" => DeriveWinograd(l).wino = "dotprod"
         /\ l.q = "dotprod" /\ l.wino = "dotprod" =>
              FinalizeForTier(l, tier) = [q |-> LayoutFor(tier), wino |-> LayoutFor(tier)]
  BY DEF FinalizeForTier, DeriveWinograd, Repack, LayoutFor, Layouts

\* fe_init's steps from the header to the end of the loading, and its clean-up.
LEMMA LoadingKeepsInvariant == IInv /\ LoadingStep => IInv'
  <1> SUFFICES ASSUME IInv, LoadingStep PROVE IInv'
    OBVIOUS
  <1> USE DEF IInv
  <1>1. /\ UNCHANGED dispatchVars /\ UNCHANGED stateVars /\ warm' = warm
        /\ pc' = "idle" => (live => pc = "idle")
    BY DEF LoadingStep, InitAlready, InitBadArgs, InitEnter, LoadHeaderBad, LoadAllocate,
       LoadPayload, LoadDerive, InitFinalize, InitCreateFails, InitUnload,
       Return, Continue, InitProgress, Phases
  <1>2. DispatchTypeOK' /\ CachedTable' /\ TableFitsHost'
    BY <1>1, DispatchUntouched DEF TypeOK
  <1>3. CallersStream' /\ OutputStream'
    BY <1>1 DEF stateVars, CallersStream, OutputStream
  <1>4. TypeOK'
    <2>1. /\ live' \in BOOLEAN /\ state' \in Histories /\ scratch' \in {"null", "state", "freed"}
          /\ out' \in [blob : Blobs \cup {NoBlob}, tier : Tiers \cup {NoTier}, state : Histories]
          /\ warm' \in 0 .. WarmFrames
      BY <1>1 DEF stateVars, TypeOK
    <2>2. /\ pc' \in Phases /\ arg' \in Blobs \cup {NoBlob} /\ rc' \in {0, -1, Void}
          /\ owned' \subseteq Buffers /\ wref' \in Blobs \cup {NoBlob}
      BY DEF LoadingStep, InitAlready, InitBadArgs, InitEnter, LoadHeaderBad, LoadAllocate,
         LoadPayload, LoadDerive, InitFinalize, InitCreateFails, InitUnload,
         Return, Continue, weightVars, TypeOK, Phases
    <2>3. layout' \in [q : Layouts, wino : Layouts]
      BY LayoutTypes DEF LoadingStep, InitAlready, InitBadArgs, InitEnter, LoadHeaderBad,
         LoadAllocate, LoadPayload, LoadDerive, InitFinalize, InitCreateFails, InitUnload,
         weightVars, TypeOK, Layouts
    <2>4. QED
      BY <1>2, <2>1, <2>2, <2>3 DEF TypeOK
  <1>5. InitProgress' /\ LiveEngine'
    <2> USE <1>1 DEF InitProgress, LiveEngine, stateVars, dispatchVars, weightVars,
            Return, Continue, Phases
    <2>1. CASE InitAlready \/ InitBadArgs
      BY <2>1 DEF InitAlready, InitBadArgs
    <2>2. CASE \E b \in Blobs : InitEnter(b)
      BY <2>2 DEF InitEnter
    <2>3. CASE LoadHeaderBad
      BY <2>3 DEF LoadHeaderBad
    <2>4. CASE \E got \in SUBSET Buffers : LoadAllocate(got)
      BY <2>4 DEF LoadAllocate
    <2>5. CASE LoadPayload
      BY <2>5 DEF LoadPayload, TypeOK
    <2>6. CASE LoadDerive
      BY <2>6, LayoutTypes DEF LoadDerive, TypeOK
    <2>7. CASE InitFinalize
      BY <2>7, LayoutTypes DEF InitFinalize, TypeOK
    <2>8. CASE InitCreateFails \/ InitUnload
      BY <2>8 DEF InitCreateFails, InitUnload
    <2>9. QED
      BY <2>1, <2>2, <2>3, <2>4, <2>5, <2>6, <2>7, <2>8 DEF LoadingStep
  <1>6. KernelsAsForced'
    <2>1. ops' = ops /\ SelectOps(forced)' = SelectOps(forced)
      BY <1>1, DispatchUntouched DEF dispatchVars
    <2>2. pc' \in Phases \ {"idle", "qgemm", "unload"} => pc \in Phases \ {"idle", "qgemm", "unload"}
      BY DEF LoadingStep, InitAlready, InitBadArgs, InitEnter, LoadHeaderBad, LoadAllocate,
         LoadPayload, LoadDerive, InitFinalize, InitCreateFails, InitUnload,
         Return, Continue, Phases
    <2>3. QED
      BY <2>1, <2>2 DEF KernelsAsForced
  <1>7. QED
    BY <1>2, <1>3, <1>4, <1>5, <1>6

\* The two steps that change the dispatcher.
LEMMA DispatchStepKeepsInvariant == IInv /\ (InitQgemm \/ FeForceTier) => IInv'
  <1> USE DEF IInv
  <1>1. ASSUME IInv, InitQgemm PROVE IInv'
    <2> USE <1>1
    <2>1. UNCHANGED <<weightVars, stateVars, arg, warm>> /\ pc = "qgemm" /\ ~live
      BY DEF InitQgemm, Return, Continue, InitProgress, Phases
    <2>2. /\ DispatchTypeOK' /\ CachedTable' /\ TableFitsHost'
          /\ \/ pc' = "load" /\ ops' # NoTier /\ ops' = SelectOps(forced)'
             \/ pc' = "idle"
          /\ rc' \in {0, -1, Void}
      BY QgemmKeepsTable, QgemmFailsKeeps DEF InitQgemm, Return, Continue, TypeOK
    <2>3. TypeOK'
      BY <2>1, <2>2 DEF TypeOK, weightVars, stateVars, Phases
    <2>4. InitProgress' /\ LiveEngine' /\ CallersStream' /\ OutputStream'
      BY <2>1, <2>2 DEF InitProgress, LiveEngine, CallersStream, OutputStream,
         weightVars, stateVars, Phases
    <2>5. KernelsAsForced'
      BY <2>2 DEF KernelsAsForced
    <2>6. QED
      BY <2>2, <2>3, <2>4, <2>5
  <1>2. ASSUME IInv, FeForceTier PROVE IInv'
    <2> USE <1>2
    <2>1. UNCHANGED <<callVars, weightVars, stateVars>> /\ pc = "idle"
      BY DEF FeForceTier
    <2>2. DispatchTypeOK' /\ CachedTable' /\ TableFitsHost' /\ ops' = ops
      BY ForceKeepsTable DEF FeForceTier, TypeOK
    <2>3. TypeOK'
      BY <2>1, <2>2 DEF TypeOK, weightVars, stateVars, callVars
    <2>4. InitProgress' /\ LiveEngine' /\ CallersStream' /\ OutputStream' /\ KernelsAsForced'
      BY <2>1, <2>2 DEF InitProgress, LiveEngine, CallersStream, OutputStream,
         KernelsAsForced, weightVars, stateVars, callVars
    <2>5. QED
      BY <2>2, <2>3, <2>4
  <1>3. QED
    BY <1>1, <1>2

\* The steps that write the streaming state, or release it.
StateStep ==
  \/ InitCreateState \/ InitWarmUp \/ InitReset
  \/ (\E x \in Frames : FeRun(x)) \/ FeReset \/ FeFree

\* A caller's frame keeps the fields equal and the stream the caller's.
LEMMA ProcessFrameStream ==
  ASSUME NEW s \in Histories, NEW x \in Frames,
         \A f, g \in Fields : s[f] = s[g],
         \A f \in Fields : s[f] \in Seq(Frames)
  PROVE  /\ \A f, g \in Fields : ProcessFrame(s, x)[f] = ProcessFrame(s, x)[g]
         /\ \A f \in Fields : ProcessFrame(s, x)[f] \in Seq(Frames)
  BY DEF ProcessFrame, Histories

\* The steps on g_s: its creation, frames, resets and its end.
LEMMA StateStepKeepsInvariant == IInv /\ StateStep => IInv'
  <1> SUFFICES ASSUME IInv, StateStep PROVE IInv'
    OBVIOUS
  <1> USE DEF IInv
  <1>1. UNCHANGED dispatchVars
    BY DEF StateStep, InitCreateState, InitWarmUp, InitReset, FeRun, FeReset, FeFree
  <1>2. DispatchTypeOK' /\ CachedTable' /\ TableFitsHost'
    BY <1>1, DispatchUntouched DEF TypeOK
  <1>3. KernelsAsForced'
    <2>1. ops' = ops /\ SelectOps(forced)' = SelectOps(forced)
      BY <1>1, DispatchUntouched DEF dispatchVars
    <2>2. pc' \in Phases \ {"idle", "qgemm", "unload"} => pc \in Phases \ {"idle", "qgemm", "unload"}
      BY DEF StateStep, InitCreateState, InitWarmUp, InitReset, FeRun, FeReset, FeFree,
         Return, callVars, Phases
    <2>3. QED
      BY <2>1, <2>2 DEF KernelsAsForced
  <1>4. \A x \in Frames \cup {Silence} : ProcessFrame(state, x) \in Histories
    BY ProcessFrameType DEF Histories, TypeOK
  <1>5. /\ Zeroed \in Histories
        /\ ResetState(state) = Zeroed
        /\ \A f \in Fields : Zeroed[f] = <<>>
    BY ZeroedType DEF Histories, ResetState, Zeroed
  <1> USE DEF TypeOK, callVars, weightVars, stateVars, Return
  <1>6. CASE InitCreateState
    <2>1. TypeOK'
      BY <1>2, <1>5, <1>6, WarmAssumption DEF InitCreateState, Phases
    <2>2. InitProgress' /\ LiveEngine'
      BY <1>1, <1>3, <1>6 DEF InitCreateState, InitProgress, LiveEngine, dispatchVars, Phases,
         KernelsAsForced
    <2>3. CallersStream' /\ OutputStream'
      BY <1>6 DEF InitCreateState, CallersStream, OutputStream
    <2>4. QED
      BY <1>2, <1>3, <2>1, <2>2, <2>3
  <1>7. CASE InitWarmUp
    <2>1. TypeOK'
      BY <1>2, <1>4, <1>7, WarmAssumption DEF InitWarmUp
    <2>2. InitProgress' /\ LiveEngine'
      BY <1>1, <1>7 DEF InitWarmUp, InitProgress, LiveEngine, dispatchVars
    <2>3. CallersStream' /\ OutputStream'
      BY <1>7 DEF InitWarmUp, CallersStream, OutputStream
    <2>4. QED
      BY <1>2, <1>3, <2>1, <2>2, <2>3
  <1>8. CASE InitReset
    <2>1. TypeOK'
      BY <1>2, <1>5, <1>8 DEF InitReset, Phases
    <2>2. InitProgress' /\ LiveEngine'
      BY <1>1, <1>8 DEF InitReset, InitProgress, LiveEngine, dispatchVars, Phases
    <2>3. CallersStream' /\ OutputStream'
      <3>1. state' = Zeroed /\ out' = out
        BY <1>5, <1>8 DEF InitReset
      <3>2. QED
        BY <3>1, ZeroedStream DEF CallersStream, OutputStream
    <2>4. QED
      BY <1>2, <1>3, <2>1, <2>2, <2>3
  <1>9. ASSUME NEW x \in Frames, FeRun(x) PROVE IInv'
    <2>1. TypeOK'
      BY <1>2, <1>4, <1>9 DEF FeRun, DispatchTypeOK
    <2>2. InitProgress' /\ LiveEngine'
      BY <1>1, <1>9 DEF FeRun, InitProgress, LiveEngine, dispatchVars
    <2>3. /\ \A f, g \in Fields : ProcessFrame(state, x)[f] = ProcessFrame(state, x)[g]
          /\ \A f \in Fields : ProcessFrame(state, x)[f] \in Seq(Frames)
      BY <1>9, ProcessFrameStream DEF FeRun, CallersStream
    <2>4. CallersStream' /\ OutputStream'
      BY <1>9, <2>3 DEF FeRun, CallersStream, OutputStream
    <2>5. QED
      BY <1>2, <1>3, <2>1, <2>2, <2>4
  <1>10. CASE FeReset
    <2>1. TypeOK'
      BY <1>2, <1>5, <1>10 DEF FeReset
    <2>2. InitProgress' /\ LiveEngine'
      BY <1>1, <1>10 DEF FeReset, InitProgress, LiveEngine, dispatchVars
    <2>3. CallersStream' /\ OutputStream'
      <3>1. state' = Zeroed /\ out' = out
        BY <1>5, <1>10 DEF FeReset
      <3>2. QED
        BY <3>1, ZeroedStream DEF CallersStream, OutputStream
    <2>4. QED
      BY <1>2, <1>3, <2>1, <2>2, <2>3
  <1>11. CASE FeFree
    <2>1. TypeOK'
      BY <1>2, <1>5, <1>11 DEF FeFree
    <2>2. InitProgress' /\ LiveEngine'
      BY <1>1, <1>11 DEF FeFree, InitProgress, LiveEngine, dispatchVars, Phases
    <2>3. CallersStream' /\ OutputStream'
      BY <1>11 DEF FeFree, CallersStream, OutputStream
    <2>4. QED
      BY <1>2, <1>3, <2>1, <2>2, <2>3
  <1>12. QED
    BY <1>6, <1>7, <1>8, <1>9, <1>10, <1>11 DEF StateStep

\* A step that changes nothing.
LEMMA StutterKeepsInvariant == IInv /\ UNCHANGED vars => IInv'
  BY DispatchUntouched DEF vars, callVars, weightVars, stateVars, dispatchVars, IInv, TypeOK,
     InitProgress, LiveEngine, KernelsAsForced, CallersStream, OutputStream

\* Every state of every behaviour of the engine satisfies the inductive invariant.
THEOREM EngineInvariant == Spec => []IInv
  <1>1. IInv /\ [Next]_vars => IInv'
    BY LoadingKeepsInvariant, DispatchStepKeepsInvariant, StateStepKeepsInvariant,
       StutterKeepsInvariant DEF Next, InitStep, LoadingStep, StateStep
  <1>2. QED
    BY InitInvariant, <1>1, PTL DEF Spec

-----------------------------------------------------------------------------
(* What follows from it *)

\* Every variable of the engine keeps its type.
THEOREM EngineTypeOK == Spec => []TypeOK
  <1>1. IInv => TypeOK  BY DEF IInv
  <1> QED  BY <1>1, EngineInvariant, PTL

\* fe_init goes on with the table that the tier forced last asks for.
THEOREM EngineKernelsAsForced == Spec => []KernelsAsForced
  <1>1. IInv => KernelsAsForced  BY DEF IInv
  <1> QED  BY <1>1, EngineInvariant, PTL

\* Between calls the engine is whole or absent.
THEOREM EngineWholeOrAbsent == Spec => []WholeOrAbsent
  <1>1. IInv => WholeOrAbsent
    BY DEF IInv, WholeOrAbsent, InitProgress, LiveEngine, TypeOK
  <1>2. QED
    BY EngineInvariant, <1>1, PTL

\* fe_load_weights never overwrites a pointer that owns memory.
THEOREM EngineOverwritesNothing == Spec => []NothingOverwritten
  <1>1. IInv => NothingOverwritten
    BY DEF IInv, NothingOverwritten, InitProgress, Phases
  <1>2. QED
    BY EngineInvariant, <1>1, PTL

\* A live engine's weights are in the layout its kernels read.
THEOREM EngineWeightsFit == Spec => []WeightsFitKernels
  <1>1. IInv => WeightsFitKernels
    BY DEF IInv, WeightsFitKernels, LiveEngine
  <1>2. QED
    BY EngineInvariant, <1>1, PTL

\* The quantizer's wide path is taken only with the kernels, and on the CPU, it
\* needs.
THEOREM EngineZmmFits == Spec => []ZmmFitsKernels
  <1>1. IInv => ZmmFitsKernels
    BY DEF IInv, ZmmFitsKernels, LiveEngine, TableFitsHost, TypeOK, DispatchTypeOK
  <1>2. QED
    BY EngineInvariant, <1>1, PTL

\* What fe_run returned depends on the frames of one stream and on no silence of
\* the warm-up.
THEOREM EngineOneStream == Spec => []OneStream
  <1>1. IInv => OneStream
    <2> SUFFICES ASSUME IInv, NEW f \in Fields, NEW i \in DOMAIN out.state[f]
                 PROVE  out.state[f][i] # Silence
      BY DEF IInv, OneStream, CallersStream, OutputStream
    <2>1. out.state[f] \in Seq(Frames)
      BY DEF IInv, OutputStream
    <2>2. out.state[f][i] \in Frames
      BY <2>1
    <2>3. QED
      BY <2>2, SilenceAssumption
  <1>2. QED
    BY EngineInvariant, <1>1, PTL

\* No step changes the kernels, the weights or the blob of an engine that is
\* live before and after it.
THEOREM EngineKernelsFrozen == Spec => KernelsFrozen
  <1>1. IInv /\ [Next]_vars => [live /\ live' => UNCHANGED <<ops, layout, wref>>]_vars
    <2> SUFFICES ASSUME IInv, Next, live PROVE UNCHANGED <<ops, layout, wref>>
      BY DEF vars
    <2>1. CASE (\E b \in Blobs : InitEnter(b)) \/ InitAlready \/ InitBadArgs
      BY <2>1 DEF InitEnter, InitAlready, InitBadArgs, weightVars, dispatchVars
    <2>2. CASE InitStep
      BY <2>2 DEF IInv, InitProgress, Phases, InitStep, InitQgemm, LoadHeaderBad, LoadAllocate,
         LoadPayload, LoadDerive, InitFinalize, InitCreateState, InitCreateFails, InitUnload,
         InitWarmUp, InitReset, weightVars, dispatchVars
    <2>3. CASE (\E x \in Frames : FeRun(x)) \/ FeReset \/ FeFree
      BY <2>3 DEF FeRun, FeReset, FeFree, weightVars, dispatchVars
    <2>4. CASE FeForceTier
      BY <2>4 DEF FeForceTier, ClearForcedTier, ForceTier, weightVars
    <2>5. QED
      BY <2>1, <2>2, <2>3, <2>4 DEF Next
  <1>2. QED
    BY EngineInvariant, <1>1, PTL DEF Spec, KernelsFrozen


-----------------------------------------------------------------------------
(* The engine implements the contract of fe.h *)

\* The initial state of the engine is one of the contract.
LEMMA ContractInitRefined == Init => Contract!ContractInit
  BY DEF Init, Contract!ContractInit, ApiState, ApiOutput, Ready, NoOutput, Zeroed, Fields,
     Contract!Uninitialised, Contract!NoOutput

\* What does not show through the ABI is a stutter.
LEMMA Hidden ==
  ASSUME ~Ready, ~Ready', UNCHANGED <<out, rc>>
  PROVE  UNCHANGED Contract!contractVars
  BY DEF Contract!contractVars, ApiState, ApiOutput

\* Every step of the engine is a step of the contract, or a stutter.
LEMMA ContractStepRefined ==
  IInv /\ [Next]_vars => [Contract!ContractNext]_Contract!contractVars
  <1> SUFFICES ASSUME IInv, [Next]_vars
               PROVE  [Contract!ContractNext]_Contract!contractVars
    OBVIOUS
  <1>a. pc # "idle" => arg \in Blobs
    BY DEF IInv, InitProgress
  <1>b. live => wref \in Blobs
    BY DEF IInv, LiveEngine
  <1>c. pc \notin {"idle", "warm"} => ~live
    BY DEF IInv, InitProgress, TypeOK
  <1> USE DEF ApiState, ApiOutput, Ready
  <1> USE DEF callVars, weightVars, stateVars, Return, Continue
  <1>1. CASE InitAlready
    <2>1. UNCHANGED <<ApiState, ApiOutput>> /\ rc' = 0
      BY <1>1 DEF InitAlready
    <2>2. Contract!AfterInit(ApiState, wref) = ApiState
      BY <1>1, <1>b, NoBlobAssumption DEF InitAlready, Contract!AfterInit, Contract!IsInitialised
    <2>3. Contract!InitOk(wref)
      BY <2>1, <2>2 DEF Contract!InitOk
    <2>4. QED
      BY <1>1, <1>b, <2>3 DEF InitAlready, Contract!ContractNext
  <1>2. ASSUME ~Ready, ~Ready', UNCHANGED out, rc' = -1
        PROVE  Contract!ContractNext
    BY <1>2 DEF Contract!ContractNext, Contract!InitFails, Contract!IsInitialised
  <1>3. CASE InitBadArgs
    BY <1>2, <1>3 DEF InitBadArgs
  <1>4. CASE \E b \in Blobs : InitEnter(b)
    BY <1>4, Hidden DEF InitEnter
  <1>5. CASE InitQgemm
    <2>1. ~Ready /\ ~Ready' /\ UNCHANGED out /\ (rc' = -1 \/ UNCHANGED rc)
      BY <1>5, <1>c DEF InitQgemm
    <2>2. QED
      BY <2>1, <1>2, Hidden
  <1>6. CASE \/ LoadHeaderBad \/ (\E got \in SUBSET Buffers : LoadAllocate(got))
             \/ LoadPayload \/ LoadDerive \/ InitFinalize \/ InitCreateFails
    <2>1. ~Ready /\ ~Ready' /\ UNCHANGED <<out, rc>>
      BY <1>6, <1>c DEF LoadHeaderBad, LoadAllocate, LoadPayload, LoadDerive, InitFinalize,
         InitCreateFails
    <2>2. QED
      BY <2>1, Hidden
  <1>7. CASE InitCreateState \/ InitWarmUp
    <2>1. ~Ready /\ ~Ready' /\ UNCHANGED <<out, rc>>
      BY <1>7 DEF InitCreateState, InitWarmUp
    <2>2. QED
      BY <2>1, Hidden
  <1>8. CASE InitUnload
    BY <1>2, <1>8, <1>c DEF InitUnload
  <1>9. CASE InitReset
    <2>1. /\ ApiState = [blob |-> NoBlob, stream |-> <<>>]
          /\ ApiState' = [blob |-> wref, stream |-> <<>>]
          /\ UNCHANGED ApiOutput /\ rc' = 0 /\ wref \in Blobs
      BY <1>9, <1>b DEF InitReset, IInv, InitProgress, ResetState, Fields
    <2>2. Contract!InitOk(wref)
      BY <2>1 DEF Contract!InitOk, Contract!AfterInit, Contract!IsInitialised
    <2>3. QED
      BY <2>1, <2>2 DEF Contract!ContractNext
  <1>10. ASSUME NEW x \in Frames, FeRun(x) PROVE Contract!ContractNext
    <2>1. ProcessFrame(state, x)["gru"] = Append(state["gru"], x)
      BY DEF ProcessFrame, Fields
    <2>2. /\ ApiState = [blob |-> wref, stream |-> state["gru"]]
          /\ ApiState' = [blob |-> wref, stream |-> Append(state["gru"], x)]
          /\ ApiOutput' = [blob |-> wref, heard |-> Append(state["gru"], x)]
          /\ Len(state["gru"]) < MaxStream /\ rc' = Contract!Void
      BY <1>10, <2>1 DEF FeRun, Void, Contract!Void
    <2>3. wref # NoBlob
      BY <1>10, <1>b, NoBlobAssumption DEF FeRun
    <2>4. Contract!Run(x)
      BY <2>2, <2>3 DEF Contract!Run, Contract!AfterRun, Contract!OutputOf,
         Contract!IsInitialised
    <2>5. QED
      BY <2>4 DEF Contract!ContractNext
  <1>11. CASE FeReset
    <2>1. ResetState(state)["gru"] = <<>>
      BY DEF ResetState, Fields
    <2>2. Contract!Reset
      BY <1>11, <2>1 DEF FeReset, Void, Contract!Void, Contract!Reset, Contract!AfterReset
    <2>3. QED
      BY <2>2 DEF Contract!ContractNext
  <1>12. CASE FeFree
    <2>1. Contract!Free
      BY <1>12 DEF FeFree, Void, Contract!Void, Contract!Free, Contract!AfterFree,
         Contract!Uninitialised
    <2>2. QED
      BY <2>1 DEF Contract!ContractNext
  <1>13. CASE FeForceTier \/ UNCHANGED vars
    BY <1>13 DEF FeForceTier, vars, Contract!contractVars
  <1>14. QED
    BY <1>1, <1>3, <1>4, <1>5, <1>6, <1>7, <1>8, <1>9, <1>10, <1>11, <1>12, <1>13
       DEF Next, InitStep

\* The engine keeps the promises of fe.h.
THEOREM EngineKeepsContract == Spec => KeepsContract
  BY EngineInvariant, ContractInitRefined, ContractStepRefined, PTL
     DEF Spec, KeepsContract, Contract!ContractSpec
=============================================================================
