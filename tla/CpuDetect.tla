------------------------------- MODULE CpuDetect -------------------------------
(***************************************************************************)
(* What the runtime detectors report of a CPU and its operating system     *)
(* (x86/cpu_x86.c, arm/cpu_arm.c), and the tiers the dispatcher may        *)
(* install for it.  An x86 host is its set of CPUID feature bits and the   *)
(* registers that the operating system saves.                              *)
(***************************************************************************)
EXTENDS FiniteSets

\* The floor of every x86 tier: AVX2 kernels also use FMA3 and F16C.
Floor == {"avx2", "fma", "f16c"}
Zmm == {"avx512f", "avx512bw", "avx512vl", "vnni"}

\* XCR0 is read only when the OSXSAVE bit says that it can be.
SavesYmm(h) == "osxsave" \in h.bits /\ {"xmm", "ymm"} \subseteq h.saves
SavesZmm(h) == SavesYmm(h) /\ "zmm" \in h.saves
OsAvx(h) == "avx" \in h.bits /\ SavesYmm(h)

\* fe_cpu_x86_caps: bits of instructions, cleared when their registers are
\* not saved.
X86Caps(h) ==
  {c \in {"avx2", "avxvnni"} : Floor \subseteq h.bits /\ OsAvx(h) /\ (c = "avxvnni" => "avxvnni" \in h.bits)}
  \cup {c \in {"avx512vnni"} : (Floor \cup Zmm) \subseteq h.bits /\ SavesZmm(h)}
  \cup {c \in {"os_avx"} : OsAvx(h)} \cup {c \in {"os_avx512"} : SavesZmm(h)}

\* select_ops: a tier needs its capability and that of its registers.
X86Usable(h) ==
  LET caps == X86Caps(h) IN
  {t \in {"avx2", "avxvnni"} : {t, "os_avx"} \subseteq caps}
  \cup {t \in {"avx512vnni"} : {t, "os_avx512"} \subseteq caps}

\* fe_cpu_arm_caps: arm64 always has NEON; the kernel reports the other two.
ArmUsable(hwcap) == {"neon"} \cup (hwcap \cap {"dotprod", "i8mm"})

\* fe_fft_dispatch_select: the FFT asks the host again and is deaf to a forced
\* tier; fe_init has refused a host with no tier before it runs.
FftTier(usable) ==
  CASE "neon" \in usable -> "neon"
    [] "avx512vnni" \in usable -> "avx512"
    [] "avx2" \in usable /\ "avx512vnni" \notin usable -> "avx2"
================================================================================
