---------------------------- MODULE QgemmDispatch ----------------------------
(***************************************************************************)
(* Runtime choice of the int8 GEMM kernel set (qgemm_dispatch.c): the      *)
(* kernel ladder of the build's architecture, what the host CPU offers,    *)
(* and the test hook that forces a tier.                                   *)
(***************************************************************************)
EXTENDS Integers, Sequences

CONSTANTS
  Ladder,    \* tiers compiled in for this architecture, worst first
  Hosts,     \* the CPUs considered, each as the tiers it has (not always a prefix)
  OtherTiers \* tier names of the other architecture, which the hook also knows

NoTier == "none"
AutoTier == "auto"
Tiers == {Ladder[i] : i \in 1 .. Len(Ladder)}
TierNames == Tiers \cup OtherTiers

ASSUME LadderAssumption == Ladder \in Seq(STRING)
ASSUME HostsAssumption == Hosts \subseteq SUBSET Tiers
ASSUME OtherTiersAssumption == OtherTiers \subseteq STRING /\ OtherTiers \cap Tiers = {}
ASSUME ReservedAssumption == {NoTier, AutoTier} \cap TierNames = {}

VARIABLES
  host,      \* the CPU this process runs on
  ops,       \* tier of the kernel table fe_qgemm_ops
  zmm,       \* fe_qg_x86_avx512: the quantizer takes the 512-bit path
  qinit,     \* g_qgemm_initialized
  forced     \* g_qgemm_force_tier

dispatchVars == <<host, ops, zmm, qinit, forced>>

\* select_ops walks up the ladder, installs every tier the host has, and stops
\* at the forced tier.  A forced tier of another architecture never stops it.
Reach(f) == {i \in 1 .. Len(Ladder) : \A j \in 1 .. i - 1 : Ladder[j] # f}

SelectOps(f) ==
  LET usable == {i \in Reach(f) : Ladder[i] \in host}
      best   == {i \in usable : \A j \in usable : j <= i}
  IN  IF best = {} THEN NoTier ELSE Ladder[CHOOSE i \in best : TRUE]

DispatchTypeOK ==
  /\ host \in Hosts
  /\ ops \in Tiers \cup {NoTier}
  /\ zmm \in BOOLEAN
  /\ qinit \in BOOLEAN
  /\ forced \in Tiers \cup {AutoTier}

DispatchInit == host \in Hosts /\ ops = NoTier /\ zmm = FALSE /\ qinit = FALSE /\ forced = AutoTier

\* fe_qgemm_init keeps the table it has unless a tier is forced.
KeepsTable == qinit /\ forced = AutoTier

QgemmInitKeeps == KeepsTable /\ UNCHANGED dispatchVars

\* Mutant: leaving the AVX-512 tier does not switch the quantizer back.
QgemmInitSelects_stickyZmm ==
  /\ ~KeepsTable
  /\ SelectOps(forced) # NoTier
  /\ ops' = SelectOps(forced)
  /\ zmm' = (zmm \/ ops' = "avx512vnni")
  /\ qinit' = TRUE
  /\ UNCHANGED <<host, forced>>

QgemmInitSelects ==
  /\ ~KeepsTable
  /\ SelectOps(forced) # NoTier
  /\ ops' = SelectOps(forced)
  /\ zmm' = (ops' = "avx512vnni")
  /\ qinit' = TRUE
  /\ UNCHANGED <<host, forced>>

\* No tier matches: the table has been cleared and the call returns -1.
QgemmInitFails ==
  /\ ~KeepsTable
  /\ SelectOps(forced) = NoTier
  /\ ops' = NoTier
  /\ UNCHANGED <<host, zmm, qinit, forced>>

\* Mutant: the forced tier is installed at once, under a live engine.
ForceTier_installs(t) ==
  /\ t \in TierNames
  /\ SelectOps(t) = t
  /\ forced' = t /\ ops' = t
  /\ qinit' = FALSE
  /\ UNCHANGED <<host, zmm>>

\* fe_qgemm_force_tier accepts a tier only if it is what would be selected.
ForceTier(t) ==
  /\ t \in TierNames
  /\ SelectOps(t) = t
  /\ forced' = t
  /\ qinit' = FALSE
  /\ UNCHANGED <<host, ops, zmm>>

\* Mutant: the table chosen under the forced tier stays cached.
ClearForcedTier_keepsCache ==
  /\ forced' = AutoTier
  /\ UNCHANGED <<host, ops, zmm, qinit>>

ClearForcedTier ==
  /\ forced' = AutoTier
  /\ qinit' = FALSE
  /\ UNCHANGED <<host, ops, zmm>>
=============================================================================
