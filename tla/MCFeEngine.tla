----------------------------- MODULE MCFeEngine -----------------------------
(* Instances of FeEngine for TLC.  ARM hosts with every tier and with NEON   *)
(* alone.  x86 hosts as detected: too old for AVX2; AVX2 alone; with         *)
(* AVX-512 VNNI but not AVX-VNNI; with AVX-VNNI alone; with both; and three  *)
(* of these under systems that hide F16C, save no ZMM, or save no AVX state. *)
EXTENDS FeEngine, CpuDetect

ArmLadder == <<"neon", "dotprod", "i8mm">>
ArmHosts == {ArmUsable({"dotprod", "i8mm"}), ArmUsable({})}

Host(bits, saves) == [bits |-> bits \cup {"avx", "osxsave"}, saves |-> saves]
AllRegisters == {"xmm", "ymm", "zmm"}
X86Ladder == <<"avx2", "avxvnni", "avx512vnni">>
X86Hosts ==
  {X86Usable(h) : h \in
    {Host({}, AllRegisters), Host(Floor, AllRegisters), Host(Floor \cup Zmm, AllRegisters),
     Host(Floor \cup {"avxvnni"}, {"xmm", "ymm"}), Host(Floor \cup Zmm \cup {"avxvnni"}, AllRegisters),
     Host((Floor \cup Zmm) \ {"f16c"}, AllRegisters), Host(Floor \cup Zmm, {"xmm", "ymm"}),
     Host(Floor \cup Zmm \cup {"avxvnni"}, {"xmm"})}}
ArmTiers == {"neon", "dotprod", "i8mm"}
X86Tiers == {"avx2", "avxvnni", "avx512vnni"}
=============================================================================
