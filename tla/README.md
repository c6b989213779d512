# A TLA+ model of faster-enhancer

faster-enhancer is a streaming speech enhancer: a C engine with one global
instance behind four functions (`csrc/include/fe.h`), a Python class over it
(`faster_enhancer/_binding.py`) and an optional voice-activity gate
(`faster_enhancer/vad_gate.py`). Audio comes in frames of 320 samples at 48 kHz
and each call returns 320 samples; everything of interest is in what a call
leaves for the next one.

This directory holds the specifications, the TLC configurations that check
them, and TLAPS proofs. `PROJECT.json` lists the runs, a mutant of the code for
every property (the run must find it), which source lines each definition
stands for, and the hazards the properties are for.

## The system

| Component | State | Operations | What makes it correct |
|---|---|---|---|
| Engine lifecycle: `fe_pipeline.c`, `fe_engine.c` | `g_s`, `g_w`, Winograd scratch pointer | `fe_init`, `fe_run`, `fe_reset`, `fe_free` | a failed or repeated init changes nothing a caller sees; no leak; output depends on one stream |
| Kernel dispatch: `qgemm/qgemm_dispatch.c`, `cpu_arm.c`, `cpu_x86.c` | `fe_qgemm_ops`, `g_qgemm_initialized`, `g_qgemm_force_tier`, `fe_qg_x86_avx512` | `fe_qgemm_init`, `fe_qgemm_force_tier` | the table is what was forced last; quantiser and kernels agree; a live engine's kernels never change |
| Weight loader: `fe_weights.c` | six buffers of `g_w`, zero-copy pointers into the blob | load, derive Winograd, finalize for tier, free | owned buffers are never overwritten; the blob is used up exactly; each layer is repacked once, after the derivation |
| Packing and quantiser: `qgemm_pack.c`, `qgemm_quant.c` | none | pack, repack, row sums, quantise | a product over packed bytes is the layer's product; a code decodes to its value |
| GEMM kernels: `qgemm/arm/*.c`, `qgemm/x86/*.c` | operand scratch within a call | six entries on six tiers | the same result whatever lanes, tiles and repacks; no call of a real layer aborts |
| Frame pipeline: `fe_engine.c`, `fe_state.h` | working buffers, several of them unions | `fe_process_frame` | nothing reads a buffer that another name of its memory or an earlier frame left |
| Layers: `nn/*.c`, `winograd/fe_winograd.c` | shared int8 and int32 scratch | conv, GRU, attention | as above; each computes its definition |
| Streaming STFT: `fe_stft.c` | `cache_stft`, `cache_istft`, two windows | `fe_stft`, `fe_istft` | constant delay of 704 samples; perfect reconstruction though 320 does not divide 1024 |
| Binding: `_binding.py` | `_LIB`, `_LIVE_INSTANCES`, the object's `_lib`, `_blob`, `_closed` | construct, `run`, `reset`, `close`, `__del__` | one engine at a time; the blob outlives the engine; the engine comes back |
| VAD gate: `vad_gate.py` | `_enh_buffer`, `_out_buffer`, `_current_gain`, the model's state | `run`, `reset` | order, bounded delay, nothing lost |
| FFT: `fe_fft.c`, `fft/` | plan of twiddles, chosen kernel | `fe_rfft`, `fe_irfft` | the discrete Fourier transform and its inverse on every tier |
| Activations, fp16, profiler | none between calls | | numeric |
| ONNX script: `onnx_streaming.py` | an ONNX session | enhance a file in chunks of 2 s | each chunk lands at its own place in the output |

How they interact: the gate calls the binding, the binding calls the C ABI
through ctypes (which releases the interpreter lock), `fe_init` calls the
dispatch, the loader, `finalize_for_tier` and `fe_state_create` in this order,
and `fe_run` calls `fe_process_frame`, which calls every layer through the kernel
table. There are no threads of the engine's own. The hard behaviours are
therefore:

* failure half-way through `fe_init`, and any order of calls afterwards;
* state kept in several globals that have to agree (table, quantiser switch,
  weight layout, scratch pointer);
* a Python finaliser that runs at arbitrary points and interleaves with the
  program while `fe_free` has released the interpreter lock, and
  `KeyboardInterrupt` between two statements of the constructor or of `close`;
* buffers that share memory;
* weights, activations and twiddles that are laid out by one function and read
  by another, in a layout of each tier's own, with tiles that do not divide the shapes;
* frame, hop, window and chunk lengths that do not divide one another.

## Modules

Data is provenance throughout: a buffer holds the names of the frames or
samples its contents depend on, a weight buffer the name of the layout it is in.

* `FeApi` - the four calls as operators on what a caller can know of an engine:
  the blob it was initialised from and the frames of its stream.
  `FeContract` is the state machine of `fe.h` built from them: what the comments
  there promise, and no more.
* `QgemmDispatch` - the kernel table. `Ladder` is the tiers of one architecture
  from worst to best, a host any set of them; `SelectOps` walks the ladder as
  `select_ops` does.
* `FeEngine` (extends `QgemmDispatch`) - the engine. `pc` is `"idle"` between calls
  and otherwise names the next call `fe_init` makes; one action is one such
  call, with its failure outcome, so that each failure leaves a state of its
  own. `owned` is the set of non-NULL buffers of `g_w`, `layout` what
  `q_buf` and `q_wino_buf` are packed as, `state` the three kinds of streaming
  fields. `Contract` instantiates `FeContract` under the mapping "initialised
  from the successful return of `fe_init` until `fe_free`"; `KeepsContract` says
  that `FeEngine` implements it. `MCFeEngine` has the ladders for TLC
  and takes the hosts from `CpuDetect`.
* `CpuDetect` - from CPUID bits and the registers that the system saves (x86), or
  from HWCAP bits (ARM), to the tiers the dispatcher may install and to the FFT kernel.
* `FeEngineProofs` - its theorems.
* `FramePipeline`, `FramePipelineProofs` - `fe_process_frame` as the sequence of its
  calls, each with the buffers it reads and writes; a write leaves `Clobbered` in
  whatever shares its memory. `Calls` is the list of calls of a stage and `NextStage`
  the order of the stages, with the loops over encoder, RNNFormer and decoder blocks and over
  heads, so that their numbers are constants. This justifies the abstraction `ProcessFrame` and `ResetState` of
  `FeEngine`: the fields that `fe_reset` zeroes are all that carries a stream.
* `StreamStft`, `StreamStftProofs` - the pair `fe_stft` / `fe_istft` sample by sample,
  around a network that leaves the spectrum as it is. An output sample is the
  set of (input sample, window position) pairs summed for it. The Nyquist bin
  that `fe_istft` drops and the power compression, which is undone except at
  silence, are outside the model.
* `EnhancerBinding` (extends `FeApi`) - the class `Enhancer`, one action per
  statement that touches shared state, for two processes: the program and a
  finaliser. It uses the engine by its contract, one engine per loaded library.
  `MCEnhancerBinding` instantiates it, `EnhancerBindingProofs` has its theorems.
* The kernels, one call at a time. `KernelCall` is the frame of a call (`call`,
  `stage`, `pos`, `mem`: which call, how far, which iteration of its outer loop,
  which buffers); each module below adds the calls of one part, an action per
  function called or per iteration of its outer loop.
  * `KernelArith` - rounding, saturation, lane widths, loops that sum.
  * `QgemmPack` - where the packers put each byte, as functions from offsets.
  * `Qgemm` - what the tiers share: load, row sums and repack, bias corrected by the
    zero point, epilogues, loop shapes. `QgemmGru` - the fused GRU kernel.
  * `QgemmArm`, `QgemmX86` - three tiers each: what they do to A and B on entry,
    what one cell accumulates in which lanes, which tiles the loop takes.
  * `ActQuant` - activation quantiser; `Winograd` - F(2,3) convolution; `FeFft` - real
    FFT; `FeConv` - fp32 convolutions and GEMM; `FeAttention` - packing of heads, two
    products and a softmax; `WeightBlob` - the loader's walk over the blob.
  * `Kernels` joins them and states what each result must be; `MCKernels` has the calls.
  * `QgemmPackProofs` - arithmetic, sums, the packed index and the loader's lists of layers;
    `FftProofs` - the field, the turns, and what each pass of a transform does to its buffer;
    `KernelsProofs` - every theorem about `Kernels`.

  `QgemmX86` is shorter by far than its three source files, which are unrolled
  variants of one loop per entry; the lines of a definition cover all the unrolled
  bodies it stands for. Floats are integers and scales exact, so that "equal" means
  equal; FFT values are pairs in the field of 8191 elements, where a 1024-th
  root of unity takes the place of the complex one, so that every
  twiddle, shuffle and sign counts exactly and only rounding is abstracted.
* `VadGate`, `VadGateProofs` - the gate by sample positions; the VAD's verdict is
  arbitrary and it may raise. The gain is an integer out of `Unit`.

## What the runs show

| Run | Bounds | What it shows |
|---|---|---|
| `FeEngine_arm` | 4 blobs (two good, one without the magic, one of wrong size), 2 frames, streams of 2, 2 warm-up frames, a host with all tiers and one with NEON alone | the type invariant, no leak and no overwritten owner after any failure, weights in the layout of the kernels, one stream per output, the contract of `fe.h`, and every `fe_init` returns |
| `FeEngine_x86` | the same blobs; 8 CPUs under their systems, detected as `{}`, `{avx2}`, `{avx2, avx512vnni}` (with a hole in the ladder), `{avx2, avxvnni}` and all three; without F16C, or without saved YMM or ZMM registers, tiers that the CPU has are not used | the table follows the last forced tier; the 512-bit quantiser exactly with the AVX-512 kernels |
| `Binding_safe` | 3 objects, 2 libraries, 2 frames, streams of 1, no interrupts | blob lifetime, exclusiveness over both libraries, no object takes another's engine, output from own frames, an honest counter, the engine comes back |
| `Binding_interrupts` | as above with 1 frame, with interrupts | still never two open Enhancers |
| `Binding_blob`, `Binding_counter` | with interrupts | violations, see below |
| `VadGate` | 30 calls, FRAME 5, CHUNK 24, verdicts arbitrary, the VAD may raise | order, whole chunks lost at most, padding at the end, backlog below a chunk, delay grows by gaps only |
| `VadGate_silent`, `VadGate_delay` | 30 calls, the VAD does not raise | violations, see below |
| `StreamStft` | N 16, H 5, 14 frames, resets anywhere | alignment and reconstruction, the caches' contents |
| `FramePipeline` | 3 encoder blocks, 4 RNNFormer blocks, 4 heads - the real numbers - and 3 frames | no clobbered read, nothing of an earlier frame read, the carried fields hold exactly the stream |
| `Kernels` | about 500 calls: GEMM and GRU on six tiers with 8 to 32 rows, 8 to 24 columns, K 4 to 24; the quantiser on six ranges and sizes with tails; Winograd with 2 and 4 blocks of rows; FFT of the real size on three tiers; convolutions of two strides; blobs of the real and of a small configuration, cut at every item; attention with heads of 8, 18 and 22 | each result against the definition of its layer, aborts only where no layer is, the blob used up and all layers repacked |

Why the bounds are enough. The engine's states differ by what is owned and
selected; two good blobs tell a reloaded engine from the old one, two frames and
streams of two tell a missing, doubled or swapped frame; the proofs remove these
bounds altogether. Three objects give one that is half constructed, one open and
one being finalised; two libraries give every wrong pairing. 5 : 24 : 16 keep
what matters of the lengths of the code: the chunk is 4.8 frames
(24/5 = 1536/320 exactly), and the window is 3.2 hops (16/5 = 1024/320 exactly). 30 calls
are more than a whole period of frames against chunks (24 frames are 5 chunks),
with all the gaps that ever occur. Three frames in `FramePipeline` separate the frame before, the current one and
the state of a new stream.

In `Kernels` the rows 8, 12, 16, 24 and 32 give each tile loop of 12 and 8 rows no,
one and two rounds and every kind of remainder; columns 8, 16, 20 and 24 give one
block, a pair of blocks, a pair and one left over, and a cut block; K 4, 8, 12,
20 and 24 give odd and even numbers of 4-k groups and K % 8 = 0 and 4, which decides between
two ARM kernels. `top` and `bottom` are operands at 127, -127 and -128 throughout, the worst case of
16-bit lanes. `MaxMK = 192` makes the larger calls overrun the AVX2 scratch, as 256 * FE_QGEMM_MAX_K
would. A sum over K is linear in its bytes, so that a byte read from the wrong place
shows on data that differ from place to place (`mixed`). The FFT is linear too:
impulses and a comb at residues of each stage, of amplitudes that tell them apart, reach every
twiddle. A signal is given by its impulses, so that any real signal is one.

`WarmFrames` (128 in the code), `MaxStream`, `MaxCalls`, `MaxFrames` and the sizes of
the sets are the only bounds; each is a CONSTANT that appears in a guard.

Deadlock is checked except in the runs of `EnhancerBinding`: its finite set of
objects can be used up.

### Fairness

* `FeEngine`: weak fairness of the steps inside `fe_init`. A C call that was made
  runs on; nothing in it blocks. Nothing is assumed of the caller.
* `EnhancerBinding`: weak fairness of the statements of a constructor and of a
  `close` that were begun, and of the finaliser. The interpreter executes them by
  itself: an object with no reference left is finalised, by its reference count
  or by the collector. Nothing is assumed of the program, which may keep an
  object for ever.

### Disagreements between code and documents

* `Binding_blob`: "the blob must outlive the engine (kept on the Enhancer
  instance)" (`_binding.py:74`). If `KeyboardInterrupt` arrives after `fe_init`
  returned and before `_LIVE_INSTANCES += 1`, the engine is initialised, nobody
  will free it (`__del__` fails on the missing `_closed`), and the bytes die with the
  object. The next constructor gets 0 from an `fe_init` that did nothing and
  runs on the freed blob.
* `Binding_counter`: "Call .close() on the existing one first"
  (`_binding.py:131`). If the interrupt arrives one statement later the
  counter is 1 and no object exists on which `close()` works; no Enhancer can be
  constructed again in this process.
* `VadGate_silent`: "First 5 calls return zeros" (`vad_gate.py:35`). Only the first
  four do; the fifth completes the chunk and returns its first frame.
* `VadGate_delay`: "Output is delayed by ~33ms (5 frames)" (`vad_gate.py:77`).
  The delay starts at four frames (five with the current one) and grows by the
  zeros inserted at calls 9, 14 and 19, where the gated samples run short. The runs
  and the theorems bound it: the backlog never reaches a chunk, so there are
  finitely many gaps as long as the VAD does not raise (a call that raises loses
  its chunk, and the gaps can start again).
* Without a run of their own, met while modelling the kernels; the properties are
  stated for what the code does, and each exception appears in them:
  * `examples/enhance_file.py:5` gives "~0.9 ms" for the 704-sample delay, which is 14.67 ms.
  * `qgemm_quant.c:27-38` calls codes in -127..127 an invariant of all tiers; the
    fp16 quantiser `fe_fp16.h:159` has no lower clamp and writes -128. The kernels are
    exact for -128 (the runs have it). For a concatenation with zero point 0 the value 0
    is -127 in the fp32 half and -128 in the fp16 half, against "a single integer code"
    (`qgemm_quant.c:98`).
  * Zero "stays representable" (`qgemm_quant.c:97`) but for zero point 0, where its code is
    clamped from -128 to -127: one step off (`QuantiserBounds`).
  * `qgemm_quant.c:27-33` claims identical bytes on all tiers; vector bodies round halves
    to even after the zero point is added, scalar tails away from zero before it.
  * `fe_qgemm.h:23-25` gives another packed index than the code uses, and
    `fe_qgemm_packed_size` counts K where `fe_qgemm_pack_W` writes K rounded up to 4;
    every layer has K a multiple of 4.
  * `arch_kernels.h:31-37` says rows in multiples of 8 suffice: the float kernels of AVX-VNNI
    abort when M % 24 = 16 (`MultiplesOfEightRun`), and the GRU kernels of AVX2 and
    AVX-VNNI leave rows past the last multiple of 12 untouched (`GruExact`). The
    shapes of the model - 72, 96 or 128 rows, 72 in the GRU, 64 only for int32 - are not affected.
  * `fe_attention.c:203` decides on the repack of the keys by the head size, where the
    kernel's depth is the padded one: a head of 22 would be read wrongly on I8MM
    (the exception in `AttentionExact`); the model's heads have 18.
  * `qgemm_avx2.c` keeps the vpsignb path for odd K, but it drops K % 4.

## What is proved

Every theorem is about every value of the constants that satisfies the
assumptions named in the modules; none of them is a bound.

**`FeEngineProofs`** (assumptions: the ladder is a sequence of strings, hosts are
sets of its tiers, the two reserved names are not tiers, `NoBlob` is no blob,
`Silence` is no caller's frame). The properties are not inductive as they stand: that the
weights fit the kernels says nothing of the states inside `fe_init` in which they
are being loaded. `IInv` adds what `fe_init` has established before each of its calls
(`InitProgress`), what a live engine rests on (`LiveEngine`), that a table the next
`fe_qgemm_init` would keep is the automatic choice (`CachedTable`) and comes from
the host with its quantiser setting (`TableFitsHost`), and that the streams hold the
caller's frames only (`CallersStream`, `OutputStream`). The step proof has three
lemmas, for steps of the loader, of the dispatch and of the streaming state.
From `IInv` follow the type invariant, `WholeOrAbsent`, `NothingOverwritten`, `WeightsFitKernels`,
`KernelsAsForced`, `ZmmFitsKernels`, `OneStream` and the action property `KernelsFrozen`.
`EngineKeepsContract` is the refinement: each step of `FeEngine` is a step of
`FeContract` or leaves what the caller sees as it was. It needs `IInv`
for `fe_run` (all fields hold the same stream) and for the end of `fe_init` (the
blob in use is the argument, the state is zero again).

**`StreamStftProofs`** (assumption: `1 <= H <= N`). The invariant gives both caches in
closed form: `cache_stft` the last N - H samples, zeros where they lie before the
stream, `cache_istft` at n the terms of the one sample this place stands for at the
window positions n + H, n + 2H, ... From it follow `Aligned` and, with the lemma that
the normaliser of `fe_stft_init` collects exactly the positions congruent to n,
`Reconstructs`. `FoldFits` shows that `4 * FE_N_FFT` entries are enough for every
hop ("all supported hop sizes"), which no run could. `StftTypeOK` needs that a term
of a cached sum is a pair of a position already read and a window position.

**`VadGateProofs`** (assumption: `1 <= FRAME <= CHUNK`). `GateInv` bounds the
two queues together and fixes the shape of a returned frame; from it
`BacklogBounded` and `PaddedAtEnd`. `StreamInv` adds that the last frame returned, what is queued for
output and what waits for a chunk are one run of the input: within each of them and
from one to the next, a sample follows its predecessor or skips whole chunks that
the VAD lost (`OrderInv`, with `Follows` and `Linked`), and no value is from beyond the
input (`ValuesInv`). From it `InOrder`, `TypeOK` and the action property `GapsDelay`.

**`EnhancerBindingProofs`** (assumptions: blobs are named by the objects that carry them, there is
a default library, the two reserved names are taken by nothing). Two invariants:

* `HandoverInv` holds wherever interrupts strike. Whoever is between two
  statements of the constructor, `close` or `__del__` has an object that is alive, that
  nobody else works on and whose flag says how far it is (`Turns`), and `_LIVE_INSTANCES` is not
  0 while an object is open, and at most one is (`OneCounted`). It gives `OneOpen`.
* `OwnershipInv` adds that the counter is at most 1 and counts somebody (`CountsOne`), and
  that every initialised engine is held by the object whose blob it reads, in that
  object's library, with the stream that object was fed (`EngineHeld`). It holds
  without interrupts, and the theorems say so: `Binding_blob` and `Binding_counter`
  show that an interrupt breaks it. It gives `BlobOutlivesEngine`, `ExclusiveEngine`, `OwnsItsEngine`,
  `HeardOwnStream`, `CounterHonest` and `TypeOK`, for any number of objects and libraries.

**`FramePipelineProofs`** (assumption: at least one block of each kind and one head). For each call of each
stage the module lists the buffers that hold something of the current frame when the call
begins (`FoundStft`, `FoundEnc(i)`, `FoundHead(b, h)`, ...). A call flows from one such set to the
next if what it reads is in the first or is carried over from the last frame, and
what it overwrites or clobbers is not in the second (`Flow`). One lemma per stage shows that its calls
flow (`Flows`), one that the last set of a stage is enough for the first call of the stage
that follows, round each loop and out of it (`StageHandsOver`). `PipelineInv` says where a
frame is (`Place`), which values buffers hold (`HoldsType`), and that the set of the
current call is of the current frame and everything carried is of the stream
(`Contents`). From it follow `TypeOK`, `ReadsIntact`, `ReadsThisFrame` and `StreamOnly` for all
numbers of blocks, heads and frames.

**The kernels.** Assumptions on a call, all of them true of every layer of the model: K is a
multiple of 4, zero points are in 0 .. 255, codes are in -128 .. 127, weights and samples are
integers, the GRU's N is 3 K (`LayersAssumption`); a tensor is not empty (`TensorsAssumption`); an
attention has at least one head of at least one value and rows in multiples of 8, as its
static assertion demands (`ProjectionAssumption`); a convolution or an fp32 product is not
empty, the encoder's kernel is two strides long (which is what its reshape to a
stride-1 layer needs), and the transposed layer has the 8 taps that its interior loop
stores and no fewer frames than keep its two edge loops apart, so that one loop takes each
frame (`ConvAssumption`; the layer of the model has stride 4 and 128 frames);
a Winograd layer has an even number of rows (`FE_F1` is a multiple of 8,
`fe_config_medium.h:95`) and at least one channel (`WinoAssumption`); a configuration's
GRU is as wide as its channels (`fe_config_medium.h:70`: the plan sizes its matrices by `FE_C2`, the
file by `FE_GRU_DIM`) and its k = 8 kernel two strides long (`BlobAssumption`); a signal is real: whole
amplitudes at places below 1024, any number of them (`SignalsAssumption`). Nothing is
assumed of the M and N of an int8 GEMM, of the head size, nor that trained weights are small.

* `QgemmPackProofs`: loops that sum or take a maximum satisfy their recurrence (the
  recursive functions are unique and exist, by induction on sets of naturals); a weight of a whole
  block of columns is read back from the packed bytes at its index (`PackedWeights`); the
  repacks of rows in fours and pairs, the I8MM repack of the weights and the 16-bit pairs
  of AVX2 put each byte where the kernels compute it to be (`RowQuadsExact`, `RowPairsExact`,
  `RepackExact`, `KPairsExact`); `Clamp`, `RoundAway` and `RoundEven` stay in range and within half a step;
  a sum may be split, taken by pairs, by fours or in two interleaved halves. Of the loader it
  has the three lists of layers as sums over sequences: what the flattened lists of blocks
  hold and add up to (`Flattened`, about the recursive function of the community module), what
  the file moves each cursor by, whatever the number of blocks and encoder layers (`FileWalks`),
  that just this is planned (`PlanSizes`), and that the repack gathers each name (`RepackedList`).
  For Winograd: a linear relation between terms holds of their sums (`SumToRelation`), and
  the product of two values coded in 127 steps to their peaks is within
  what both roundings allow of the exact one (`ProductClose`), also summed over the channels (`RowsCoded`).
* `FftProofs` (cited by `KernelsFftExact` below). Four layers, each about the one below.
  - The field: `CMul`, `CAdd` and `CConj` obey the laws of complex numbers on residues. The plan's table
    is a homomorphism: `Turn(e)`, entry e modulo 1024, turns a product of two into one of the sum
    (`TurnsAdd`), with -i at 256 (`TurnsTable`, from ten squarings of `Root`) and the conjugate at -e. A
    `Ray(c, e)` is c times a turn; a sum of complex numbers (`CSum`) goes through
    every operation of the kernels.
  - One impulse: what it has become in a buffer of width L is one ray or nothing - in a forward
    transform in the block its half-index falls in (`Spike`), in an inverse one at one offset of
    each block (`Comb`). A radix-4 butterfly takes width L to 4L: its four inputs hold at most
    one spike (`ButterflyOne`), or four rays that meet in one output and cancel in the others
    (`ButterflyFour`). Hence the buffer of a whole signal, the sum of its impulses (`Column`), too
    (`RadixFourSum`, `RadixTwoSum`), and the passes over the packed halves (`BeforeSum`, `AfterSum`).
  - The registers: de-interleaving, interleaving and the 4 by 4 transposition of stage 0, for 4, 8 and 16
    lanes, are the index maps they stand for (`DeinterleavedIs`, `InterleavedIs`, `TransposedIs`); each
    entry of the plan's radix-4 table is the twiddle of the stage, row and column that the kernels
    take it for (`PlanMade`).
  - The steps: each of the eight actions of `FeFft` keeps `FftAt`, which says that before pass p
    the tables are right and `buf` has the width of p (`FftPlans` to `FftSpreads`). Element 0 and the
    last bin, which the code writes apart, come out of the general formula: in the post pass by
    `AfterEnds`, in the pre pass because bins 0 and 512 of a real signal are real (`RealBins`).
* `KernelsProofs`: `MultiplesOfEightRun`, by an invariant on the loop counter of each
  kind of tile loop (`TilesInv`); and `QuantiserBounds`, by `QuantInv`: after the scan the range covers
  every element and zero, so the code of an element is within half a step of its
  value, the zero point within another half, and clamping costs a half more at most. Also
  `ConvExact`: the GEMM driver leaves whole bands of rows final whatever the tails of M and N
  are (`Banded`), because a packed weight is read back at its index (`PackBRead`); the
  strided layer sums over pairs of places that the reshape has moved, which is the
  definition's sum in another order (`SumToInterleaved`, `StridedProduct`); in the
  transposed one a stamp away from the edges stays in its row, so that the missing guard
  decides nothing (`StampInRow`), one loop takes each frame (`EachFrameOnce`), and the output is the sum over the channels added so far (`Channels`).
  `FftExact`, by `FftInv` (the call is one of `Calls`, and `FftAt`): after the last pass the
  buffer holds the 513 bins, or the signal 1024 times over, on each of the three tiers and for any signal.
  And `BlobConsumed`, by `BlobInv`: each cursor is the partial sum over the items taken so far
  (`Loading`), hence at most what is planned; only a blob read to its last byte goes on to
  the Winograd buffers and the repack (`BlobFilled`), which by then has as many names as there are layers.
  Last, `WinogradClose`, by `WinoInv`, which says what each stage of the layer has: derived weights, then
  the frame's transformed components, each coded within half a step of its peak
  (`CodedWeights`, `CodedFrame`), then the products of the components multiplied so far (`Multiplied`).
  A dequantised product is within its component's slack of the exact one (`ComponentClose`), and
  the output transform of the exact ones is the 3-tap convolution, the rows
  of zeros past both ends included (`ConvolvedByChannel`, `ComponentsAddUp`).
* The quantised products, also in `KernelsProofs`: `ProductExact`, `GruExact`, `AttentionExact` and `KernelsTypeOK`. First each accumulator - NEON by 4, `vdotq`,
  `smmla`, `vpmaddwd` on pairs, `vpsignb` with `vpmaddubsw` and `vpdpbusd` with its offset of 128 - is the plain sum over K
  of code times weight, if it reads the bytes of its row and column (`Reads`); no 16-bit
  lane saturates because a packed weight is never -128. Then the layouts: what a
  kernel has done to A and B on entry (`LaidOut`) makes it read just those. Then the zero point:
  bias plus correction by the row sums is what the definition has inside its sum (`BiasFolded`). `ProductInv`
  says what each stage of a call has in its buffers: packed weights; repacked weights with
  the sums of the weights before the repack; operands ready and C as before the call
  (`GemmReady`); operands laid out, cells below the loop counter - rows or columns,
  by kind of loop - final and the others untouched, and the peak that of the
  stored cells (`GemmLoop`). `GruInv` does the same for the fused GRU, where rows below the counter
  have the new state and its copy, computed from both folded biases (`RowsBelow`).
  For attention `AttnInv` says, stage by stage, which rows of Q, K and V are packed (those
  below four times the counter; the rest still hold an older frame), that packs and repacks have
  every entry and its padding where `GemmInt32` reads it (`PacksReady`, by `RepackExact` and the packed
  index), and which heads' columns of the output are final. The padding of Q
  is zero, so that the sum over the padded depth is the sum over the head (`SumToPadded`);
  and on I8MM a head of K is repacked if and only if the kernel reads it so, but for the sizes
  that `AttentionExact` excepts.
  `KernelsTypeOK`, by `TypesInv`: a repack moves bytes and makes none up (`RowQuadsMoves`,
  `RowPairsMoves`, `RepackMoves`, `AllPairsMoves`: the byte it reads lies inside of its source), so
  the int8 range of packed weights (`PackedBytes`) and of codes reaches every loop.

Every safety invariant and action property that a run checks has a theorem, unless the run is meant to
show it violated. Only model-checked is liveness: `InitReturns` and
`EngineReturned`, because fairness is beyond the prover.

## What is not modelled

* Rounding of floats, and of fp16 where it is stored; the polynomial exp,
  sigmoid, tanh and SiLU, for which `MCKernels` has functions that tell their
  arguments apart.
* The running ranges of `fe_calib.h`, which are kept for diagnostics and decide nothing.
* The scalar tail of attention packing: row counts are multiples of 8 by a static assertion.
* `mlock` and the denormal flags: no effect on a property. (`fe_free` does not
  unlock the pages of the blob.)
* The constructor of the gate, in which loading the model may fail after the
  Enhancer exists: the half-made gate is an object the program forgets, and
  `EngineReturned` says that its Enhancer is given back.
* The profiler, which the shipped build compiles out; examples and tests.
* `onnx_streaming.py`: a script that does not use the engine and imports functions
  that are not in the repository.

## Plan

Done, in this order: `FeApi`, `FeContract`, `QgemmDispatch`, `FeEngine` and its
proofs; `EnhancerBinding`; `VadGate`, `StreamStft` and their proofs; `FramePipeline`;
the kernels (`KernelArith` to `Kernels`), `WeightBlob` and `CpuDetect`; the proofs of the
binding, the rest of the gate, the frame pipeline, the packing, the quantiser, of the
GEMM, GRU and attention kernels, of the convolutions, of the loader's lists, of the Winograd layers
and of the transforms.

Next, by importance:

1. The gate over the binding: a `run` that raises in the middle, `close`, and `reset` of both.
2. How far rounding takes a transform from its definition: `FftExact` is about an exact field.
