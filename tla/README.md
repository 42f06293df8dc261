# A TLA+ development of torch-ms-deform-attn

Multi-scale deformable attention gathers, for every query and head, a few
bilinear samples of a feature pyramid and sums them with given weights. The
package implements the operator and its gradient three times (C++ for CPU, CUDA,
Metal), puts them behind one PyTorch operator, and ships a controller that rents
a GPU to test them. This directory models the parts where a mistake would not
show in a unit test: threads that add to shared gradients, integer widths at
their limits, samples on the edges of their levels, gradients that cross threads and
builds, a contract written down four times, rented machines whose deletion must
not be lost, builds that reuse what other builds left, and evidence that is put
together from the files of several runs.

Paths below are relative to the repository root, which `PROJECT.json` calls
`src/`.

## 1. Inventory

| Component | State | Operations | What makes it correct |
|---|---|---|---|
| CUDA backward kernels (`csrc/cuda/ms_deform_im2col_cuda.cuh`) | per thread: loop index, point, gradient pointers, stride; per block: two scratch arrays; global: three gradient tensors | six kernels, chosen by channel count; `CUDA_KERNEL_LOOP`, metadata check with early return, sampling, reductions between `__syncthreads()`, plain or atomic stores | no data race on shared memory or outputs, uniform barriers, every contribution reaches its cell exactly once, pointers stay on their slots |
| CUDA forward kernel (same file) | one output element per thread | the gather | reads only rows of its levels, interpolates as documented, refuses unfit metadata when asked to |
| CUDA host side (`csrc/cuda/index_utils.h`, `ms_deform_attn_cuda.cu`) | the plan (chunk, sizes, index type), the chunk loop | `check_inputs`, `check_cuda_indexing`, one launch per chunk | no index or offset overflows its type, each batch launched once, refusal before the first launch |
| CPU kernels (`csrc/ms_deform_attn_cpu.cpp`) | gradients, shared by `at::parallel_for` workers | one task per (batch, head) backward, per (batch, query, head) forward | tasks write disjoint cells, so plain `+=` loses nothing |
| MPS kernels (`csrc/mps/`) | gradients in device memory; a cached pipeline | SIMD-group reduction, compare-and-swap addition, chunked dispatches | no lost addition under contention, every slot of `at::empty` tensors written |
| Autograd dispatcher (`csrc/dispatcher.h`, `csrc/vision.cpp`) | saved tensors of a call, autograd mode | two operators, each registered for `Autograd` and below it | a backward sees its forward's inputs, step and flag; no second-order gradient is silently wrong |
| Python layer (`src/torch_ms_deform_attn/`) | none | fake implementations, conversions under and outside autocast | the fake contract agrees with the native one, a backward pass is accepted with its forward, precisions are as documented |
| GPU runner (`scripts/runpod_ci.py`, `.github/workflows/*runpod*`, `cuda.yml`) | `state.json`, the provider's Pods, a clock, the collected artifacts | `run`, `cleanup`, `reap`, recovery of a lost creation, `read_state` and `write_state`, the remote checks and the extraction of what they leave | a reported success means the Pod is gone and all results are there; no Pod of another run is deleted; every rented Pod is deleted in the end, and deletion starts in time; the record is never torn nor behind |
| Release evidence (`run_cuda_checks.sh`, `cuda_test_report.py`, `cpu_test_report.py`, `run_support_matrix.py`, `verify_cuda_release.py`, all in `scripts/`) | reports, completions, the matrix's directory, the files of a release | the phases of the checks, a row per pair, verification against a revision | an incomplete or mixed set of files never passes; a row belongs to its own pair |
| Extension build (`setup.py`, `scripts/validate_cpu_builds.py`) | objects, the linked library, the installed module | choice of accelerator and OpenMP, compiling, linking, installing | a build that ends has installed what it reported and what its options asked for |
| Kernel Hub package (`kernel-hub/`, `scripts/*kernel_hub*`) | the Nix evidence, the prepared tree, the host's candidate and report | build, export, preparation, suite, verification; a second binding of the kernels | verified evidence is of one candidate made from exactly the released revision |
| Provisioning, packaging, benchmarks (`runpod_bootstrap.sh`, `bootstrap_uv.py`, `prepare_pypi_readme.py`, `benchmarks/`) | none that another part reads | installing tools, rewriting links, measuring | not behavioural; not modelled |

How they interact: the Python layer calls the dispatcher; the dispatcher
normalises layout and calls the device's entry point, which checks the call,
plans it and launches kernels that share the gradient tensors. The GPU runner is a
separate program, which rents a host through the provider's HTTP API and starts one
of three workloads on it; what these leave behind is read later by the release
scripts, on another machine. They talk to each other through files only.

What is hard: interleavings of thousands of threads whose only ordering is a
block barrier (CUDA) or none at all (CPU workers, MPS lanes in a
compare-and-swap loop); reductions over block sizes that are no power of two;
int32 and int64 at their limits, which need gigabytes to reach; and, in the
runner, HTTP answers that are lost or late, interruptions at any point, retries
and two independent cleanup programs working on the same Pods; two clocks under one
deadline; and, in the scripts around it, directories in which files of killed,
failed and other runs lie beside those of the run in question.

The hazards behind this, each at its line and with the properties that would
catch it, are listed in `PROJECT.json`.

## 2. Plan

The order is by what a mistake would cost and how little of it a test would see.

| # | Module | Component | State |
|---|---|---|---|
| 1 | `GradientAccumulation` | abstract specification: what every pass promises | done |
| 2 | `Col2Im` (with `Sums`, `IndexUtils`) | CUDA backward kernels | done, proved |
| 3 | `CudaIndexing` (with `IndexUtils`) | CUDA entry points and index planning | done, proved |
| 4 | `CpuKernel` | CPU kernels | done, proved |
| 5 | `MpsBackward` | MPS run loop and backward kernel | done, proved |
| 6 | `Devices` | composes 2, 4 and 5 behind the choice of device | done, proved |
| 7 | `Sampling` | one sample and one output element, forward and backward, on all three devices; the metadata checks | done, proved |
| 8 | `AutogradDispatch` | saved variables, redispatch below autograd, second-order gradients | done, proved |
| 9 | `InputContract` | conversions and fake registrations against the native checks, the Hub's explicit backward | done, proved |
| 10 | `Rental`, `PodLifecycle` | abstract specification of a rented machine; controller, workflows and provider, which implement it | done, proved |
| 11 | `Session` | one run against its clocks, and its results | done, proved |
| 12 | `StateRegister`, `StateFile` | an atomic register; `state.json` over a caching file system, which implements it | done, proved |
| 13 | `Controller` | composes 11 and 12 | done, proved |
| 14 | `GpuReport`, `ReleaseEvidence`, `SupportMatrix` | test reports, the evidence of a release, the support matrix | done, proved |
| 15 | `KernelHub` | the candidate from sources to verified evidence | done, proved |
| 16 | `Workloads` | composes 14 and 15 behind the choice of the remote command | done, proved |
| 17 | `Build` | `setup.py` over one source tree | done, proved |

Composition: `Devices` instantiates `GradientAccumulation` once, with the sums of
whichever device runs; `Col2Im` and `CudaIndexing` share `cuda_blocks` (`IndexUtils`),
which is where the host's grid and the kernels' loop must agree. `Sampling` says which
rows a sample touches and what it is worth; the three kernel models take such
footprints as constants and look at what happens when threads add to them.
`InputContract` takes from `Sampling` that the devices agree on the metadata, as one
boolean. `Controller` makes the steps of `Session` wait for those of `StateFile`;
`PodLifecycle` looks at the same run with its HTTP calls one by one and its clock
coarse. `Workloads` runs what the controller's remote command starts.

The theorems are in eight modules: `Devices_proofs` (2, 4, 5 and 6),
`InputChecks_proofs` (3 and 9), `Sampling_proofs`, `AutogradDispatch_proofs`,
`PodLifecycle_proofs`, `Controller_proofs` (11 to 13), `Workloads_proofs` (14 to 16) and
`Build_proofs`. The safety of every module of the plan is proved; section 5 says how,
and what stays with model checking.

## 3. How the code is modelled

### Sums: `Sums`, `GradientAccumulation`

Floating point sums are abstracted to the set of their addends. An addition is a
union; an addend that arrives a second time leaves a mark (`Twice`) that no cell
is owed. So an addition that is lost, repeated, made to the wrong cell or made
from stale scratch shows, and rounding and order, which the code does not
promise, do not. `GradientAccumulation` is the abstract specification: `due` says
what the operator owes each cell, `acc` what it has got; a step may only add what
is due, and in the end everything is there.

### CUDA backward: `Col2Im`

A state is a launch in progress. `launch` holds what the host chose
(`KernelFor`, `BlockDim`, the grid from `cuda_blocks`, whether the metadata are
checked and the level that is bad); the other variables are the registers of each
thread (`index`, `point`, `gradPtr`, `stride`, `prevStride`), the shared memory of
each block (`cacheLoc`, `cacheAttn`) and the three output tensors. One operator per
kernel (`shm_reduce_v2`, `gm`, ...) strings the shared actions together in that
kernel's order: `KernelLoop`, `ReturnOnBadLevel`, `SamplePoint` or
`SampleToGlobal`, `Syncthreads`, `SerialStore` or `Fold` and `LeaderStore` or
`LeaderAtomicAdd`, `NextPoint`. A thread runs alone between barriers; a barrier is one
action that fires when every thread of the block that is still in the kernel waits
at it, which is why `BarrierUniform` is a property and not an assumption. The
atomics are one step; the unsynchronised `+=` of a fold is one step too, which is
right because `SharedRaceFree` holds, and is checked as such. The device assertion
in the metadata check is compiled out, as in a release build, so that the kernel
relies on its `return`. Bilinear weights are abstracted to the pixels a sample
touches (`Footprint`).

### CUDA host side: `CudaIndexing`

One call: `Reject` or `Plan` (`check_inputs` with `check_cuda_indexing`), then
`LaunchChunk` per chunk (with the check in `GET_BLOCKS`), then `Return`. `IntMax`
and `LongMax` are constants. Values are exact integers; that none leaves its
width is what `IndicesFit` and `OffsetsFit` say, `DevicePeaks` being the largest
values the kernels' `index_t` arithmetic reaches. Agreement of shapes, dtypes and
devices is one boolean of the call. What the metadata tensors hold on the device
(`value_spatial_shapes`, `value_level_start_index`) is the caller's word here; the
kernel's own check of them is in `Col2Im`.

### CPU: `CpuKernel`

`kernel<scalar_t, backward>` as workers of one `at::parallel_for`. `Cuts` picks any
partition of the tasks into contiguous ranges, since ATen promises no particular
one. `BatchOf`, `HeadOf`, `QueryBegin` and `QueryEnd` are the index arithmetic;
`LoadValue` and `StoreValue` are the two halves of a `+=` on shared memory, so a race
would lose an addition. One channel stands for all: the channel loop is
sequential and innermost.

### MPS: `MpsBackward`

`Bind`, `Dispatch` and `Return` are `run()`: the pipeline's width is read, and slots
are dispatched in chunks. A lane goes through its channels (`Start`,
`BeginChannel`, `NextChannel`), adds to `grad_value` with `Load`, `Exchange` and
`Retry` (the compare-and-swap loop), and the group sums its lanes (`SimdSum`)
before lane 0 stores (`StoreSample`). The two tensors that start uninitialized hold
`Garbage` until stored. Dispatches run concurrently and in any order. A weak
compare-and-swap that fails for no reason is a stutter.

### The choice of a device: `Devices`

`forward` and `backward` of `vision.cpp`. `DevicesInit` makes the choice, `OnCuda`,
`OnCpu` and `OnMps` let the kernels of that device run, with the models above as they
are. Whatever device it is, its sums are those of one `GradientAccumulation`
(`Results`), so that one property states the promise of all three: they may get
there on schedules that have nothing in common, but no step of any of them may add
what is not due. Refusals by the device's own checks are in `InputContract`.

### Samples: `Sampling`

One output element (or its share of the gradients, for an output gradient of one)
of one call. `Begin` is the host's look at all levels on CPU and MPS, and the launch on
CUDA; `EnterLevel` and `RefuseLevel` are the check in the kernel, `SampleForward` and
`SampleBackward` one iteration of the loop over points, with `Gather` for the four
corner terms that every device spells out. The arithmetic is exact:
locations are multiples of `1/Grain`, coordinates integers in units of `1/Unit` of a
pixel, and a sum is the function from rows of the value tensor to their
coefficients, so that an equality of sums holds for every value. Metadata keep the
width of the code: `valid_spatial_level` wraps modulo `LongRange` and narrows to
`IntRange`, `HostAccepts` divides. The corner tests are modelled as each device writes
them (`EdgeTests`, `PixelTests`). `Tent` and `Interpolation` are not from the code: they
are the definition of bilinear sampling with zero padding that the docstring of
`ms_deform_attn` promises. `Attention` is `ms_deform_attn_core_pytorch`, the reference
that the package's own tests compare with, written in PyTorch operators; the
properties compare the kernels with both.

### Dispatch: `AutogradDispatch`

Threads with a stack of dispatcher frames, the thread-local excluded keys and grad
mode. `EnterAutograd` and `LeaveAutograd` are the boxed kernels around their inner
call, both paths of them: the guard alone, or `Function::apply`, which turns grad
mode off and records a node. `CallNative` is the implementation below autograd:
layouts, step, the choice of device in either build. `Raise` unwinds a thread's
guards. The engine's calls, on any thread, are `ApplyForwardNode` and `ApplyRaises`; a
node may be applied again if its graph was retained.

### The contract of inputs: `InputContract`

A tensor is its shape, dtype and device. A call of `ms_deform_attn` is converted
(`ConvertUnderAutocast`, `ConvertExplicitly`, `RefuseMixed`, `PassOn`), traced if it is
compiled (`Trace`: the fake registration), executed (`Execute`: `dispatcher_step`, the
choice of device and that device's checks), returned with the conversion of its
result, and possibly differentiated, with the gradient autograd derives from the
result. The same checks are modelled four times, each as its source writes them,
because their agreement is the question. The Hub's explicit `ms_deform_attn_backward`
(`HubConvert`, `HubRefuse`, `HubPassOn`) widens low-precision inputs by itself and
narrows its answer. Kernels are not part of it.

### GPU runner: `PodLifecycle`

Two processes share the provider's account. The job: `Prepare` (everything before
the intent is in `state.json`), `Post` (the only `POST /pods`: answered, rejected, or
without an answer, with the Pod existing, late or never), `Recover`
(`recover_create`), `Record` (the identifier goes into `state.json`), `Work` (SSH
and the remote checks), `Collect` (artifacts), `cleanup` in the `finally` block, and
then the workflow's `always()` step, a second `cleanup`. The recovery workflow:
`RecoverCompleted` (a `cleanup` without state, when it has seen the run end) and
`RecoverScheduled` (`reap`). `cleanup` and `reap` are one routine with their own
program counter per process, a step per HTTP call: `List`, then for each Pod
`NextPod`, `Get`, `Delete` (repeated), `Verify`. While `flaky`, any call may fail,
and a failed `DELETE` may have been carried out. `Interrupt` is the
`KeyboardInterrupt` of SIGINT and SIGTERM at any stage, with the effect the stage
gives it: inside `run`'s `try` it leads to `cleanup`, in artifact collection or in
`cleanup` it leaves the `finally` block without finishing it. `Lose` ends the job
without anything. Time moves in `Tick`, in units of forty minutes; it waits for the
job at its timeout, which is GitHub's promise. An account has one Pod of this run
(`POST` is sent once) and any number of others, some with the same name.

A listing and the `GET` of each Pod it names are one step: a Pod that vanishes
between them is skipped, one that appears is not seen, and either is a listing at
the one instant or the other.

`Rental` is what all that promises to somebody who does not know about listings: one
machine, rented at most once, returned; others untouched; a verdict and a record
that vouch for the return only when it has happened. `PodLifecycle` implements it under
`Rented`, which forgets the processes.

### One run against its clocks: `Session`

The same `run` at the grain of its timeouts. A call that takes time is one step of any
duration up to its timeout; only the remote checks run beside the controller.
`Quote` is a pass of `wait_for_capacity`, `Prepare` all that comes before `POST`,
`Create` the request with its recovery, `Look` a pass of `wait_for_ssh` with
`validate_price`, `Upload` the archive and the remaining time. Then the checks run
under `timeout --signal=TERM --kill-after=30s`: `Terminate` is SIGTERM, 30 s before the
deadline and later by what the connection took to come up; `WorkEnds` the end of the
checks, by themselves, any time after SIGTERM, or by SIGKILL. Both signals come on
time, so that `Tick` does not let the clock pass them, but checks that are deaf to the
first go on until the second, which is due at the deadline or after it. `Tick`,
`LoseLink`, `StreamEnds` and `DeadlineEnds` are `stream_command`. `Collect`, `Extract` and
`Extracted` take the results over, a member at a time. An exception before the `try`
block is `GiveUp`, one inside it `CleanUp` or `Collecting`.

### The state file: `StateFile`, `StateRegister`

`write_state` over a file system that caches: `Open`, `Flush`, `Sync`, `Replace`,
or an error (`Fail`) or a kill (`Kill`) between any two of them; the system writes
contents and names back when it likes (`WriteBack`), and a power failure
(`PowerFailure`) leaves what the disk has. `Read` is another process's
`read_state`, which takes a torn file for an error. Contents are numbers of
writes. `StateRegister` is the register it implements: the directory entry is not
synced by the code, so that a power failure may bring back an earlier record; a torn
one never, because the contents were synced before the name was.

### The run with its record: `Controller`

`Session` and `StateFile` together. `WriteRecord` starts the three writes (intent,
identifier, deletion) where `run` and `cleanup` do; `RunPrepare`, `RunCreate` and
`RunCleanup` are the session's steps that need them; every other step of the
session waits while a write is in progress. `RunDies` ends the process between any two
steps, with or without the power. `deleted` stands for `not_found` too.

### Evidence: `GpuReport`, `ReleaseEvidence`, `SupportMatrix`

`GpuReport` gathers the tests by what they need (`Classes`), says which of them a host
skips and why (the decorators), and what the two reports make of that.
`ReleaseEvidence` has runs of `run_cuda_checks.sh`, phase by phase, each failing
or killed anywhere, and a release to which files of any of them are attached before
`Verify`. `SupportMatrix` is `run_support_matrix.py`: pairs one after the other in one
output directory, `Copy` a file at a time, rows, and a summary that is rewritten
after each pair (`Copy` begins it, `Summarize` ends it).

### The Kernel Hub: `KernelHub`

A revision is a function from a few files to versions, and a hash is the content. The
Nix build's evidence, the prepared tree and the rented host are three records, made
by three programs on checkouts of possibly different revisions; each is a step
per file or per command, and each may die between two. `verify` is
`verify_kernel_hub.py`, evaluated over what they left.

### What a host is rented for: `Workloads`

`run` starts one of three commands; `Workloads` makes the choice and lets that
workload run.

### The build: `Build`

`Configure` is everything up to the compiler: options, accelerator, the OpenMP
probe and the backend that is printed. `Compile`, `Link` and `Install` are a unit or a
file each, with what distutils or Ninja reuse (`UpToDate`); `BuildFails` may come
between any two. Builds follow one another in the same tree with other options.

## 4. What is checked

| Run | Module | What it shows | Bounds |
|---|---|---|---|
| `block` | `MCCol2Im` | each reducing kernel sums every channel exactly once, and races on no scratch cell | blocks of 1 to 8 threads, two points, the second outside its level |
| `grid` | `MCCol2Im` | pointers stay on their slots, no addition is lost between blocks | blocks of at most 2 threads, two samplings that share a pixel: one block per sampling, and one and a half |
| `devices` | `MCDevices` | on every device: no race, uniform barriers, only what is due is added, uninitialized tensors are written, every call ends complete | CUDA: 1 to 4 channels on blocks of 2, metadata rejected at either of two levels or none; CPU: 2 workers, 2 batches, 2 heads, 2 queries, 2 points, both passes; MPS: 2 lanes, 3 channels, 3 slots in dispatches of 2 |
| `indexing` | `MCCudaIndexing` | indices and offsets fit, batches are launched once, nothing is refused late | 5-bit int, 8-bit long, blocks of 4; sizes on both sides of every limit |
| `sampling` | `MCSampling` | devices read only their levels' rows, compute the reference's attention and its derivatives, refuse the same metadata | 7 levels of up to 3 by 3 with every location of half a level around them; two levels with sizes and starts around 0, S and the ends of a 4-bit int and 8-bit long |
| `autograd` | `MCAutogradDispatch` | backward kernels get what forward saved, dense, guards are restored, no gradient is lost silently | 2 threads (symmetric), 3 calls by users and engine, 7 kinds of arguments |
| `contract` | `MCInputContract` | fake and native checks agree, a backward pass is accepted with its forward, precisions are as documented, in the Hub too, and mixed ones are computed only where they are converted | every single deviation in shape, device, integer dtype or size zero; all floating dtypes together; steps and contents |
| `pods` | `PodLifecycle` | the controller implements `Rental`, jobs in progress keep their Pod, every Pod is deleted | 2 attempts each, one foreign Pod, a clock of five units |
| `controller` | `Controller` | deletion starts in time, checks run on a priced Pod, those that the deadline cuts off had SIGTERM before it and fail the run, a success has its results, the record is whole and never behind | units of half a minute, a timeout of 7 minutes and 4 units of waiting for capacity, margins of the remote timeout stretched to 3 and 4 units above a connection's one, every call of any length up to its limit; 3 writes; 3 results, one of them refused |
| `build` | `MCBuild` | what is installed is what was reported and asked for | 12 hosts, any sequence of builds with 27 sets of options |
| `workloads` | `MCWorkloads` | accepted evidence is of one complete run of its revision; rows have their pair's artifacts; no suite on part of a tree | 2 release runs (symmetric) of 1 or 2 revisions; up to 2 of 4 pairs; 4 revisions of the package, one adding a file, one changing the harness |
| `matrix_healthy` | `MCSupportMatrix` | a violation: a pair in which nothing goes wrong exits with 1 | as in `workloads` |

The largest is `controller` (2.2 million distinct states); `workloads` has 0.7 million
and `devices` 0.15 million. `CHECK_DEADLOCK` is off where the system stops: an ended
call, a closed session, a matrix that is done.

Why these bounds are enough to be telling. `MaxThreads` (1024 in the code) and
`SerialBelow` (64) are parameters: at 8 and 4 every kernel is selected by some
channel count, trees have up to three levels, and 3, 5, 6 and 7 threads leave
lanes over at one level or at two. A second sampling is what makes blocks
straddle; `devices` has one, because liveness over two is `grid`'s state space again. In `indexing`, int and long are as narrow as `WidthAssumption` lets them be
while every check is decisive for some call. Two workers and two of each dimension
are the least at which a wrong quotient or remainder lets tasks meet. Three slots in
dispatches of two give a full and a partial dispatch, three channels on two lanes
an idle lane. Two attempts of a deletion are a first that may be repeated and a
last that may not; the clock passes the reaping age after a job of any length.
Levels of one, two and three pixels a side have every kind of corner, edge and
interior; locations reach half a level beyond all sides. Three calls are the least
for a forward call, its backward pass and the derivative of that, or for two calls
and a backward pass between them. The sizes of a call in `contract` are such that two
that a check compares are never equal by accident where it would matter
(queries and heads, heads and channels, levels and points). Two runs are the least
for a release of mixed files, two pairs for a file under the wrong label, three writes
are those of one run, and its clock is fine enough that every timeout is one unit or
more. Two builds with different options
already leave an object of the one for the other; the run bounds options, not
builds.

Every property of every run has a mutant in `PROJECT.json`: a definition with a
plausible bug (a barrier left out, a leftover lane ignored, a store instead of an
atomic, `VerifyTrusting` for `Verify`), under which TLC finds the property violated.

### Fairness

`KernelsComplete`: weak fairness of the whole next-state relation of `Devices`, which says
no more than that something that can run does. A share for each thread is not
needed: no kernel waits for a block, a worker or a group that is not running, threads at
a barrier wait for threads of their own block, which are resident with them, and an
exchange fails because another one has succeeded. `Terminating` stutters when all is
over. `EveryPodDeleted`: the programs run on while their job lives (no fairness
is assumed of `Post`'s outcome, of being seen by the event, or of not being
killed), time passes, GitHub starts the hourly workflow, the provider carries out
deletions it accepted, and calls do not fail for ever. The hourly workflow is only
there with `RUNPOD_CLEANUP_ENABLED` set, as `docs/gpu-runner.md` says; without it
a lost runner leaves its Pod to the console.

## 5. What is proved

For all values of the constants, under the assumptions named in the modules, with
the TLA+ proof system. TLC checks those assumptions for the instances above. Every
invariant and every action property of the passing runs is stated by a theorem, and so
are both refinements (`ImplementsRental`, `ImplementsRegister`); each theorem follows
from an inductive invariant of its component, whose parts are named for what they say.

`Devices_proofs` has the kernels of the three devices, for every size of a call, block
size, grid, number of workers, SIMD width and footprint. Sizes are positive
(`SizesAssumption`, `CpuAssumption`, `MpsAssumption`): empty tensors give the kernels
nothing to do, or are refused before them.

- CUDA, where threads are: `TypeCorrect`, `RaceFree`, `BarriersUniform`,
  `PointersSafe`, `StoresRaceFree`. The invariant `IInv` says that a block moves
  together: `SameRegion` (its threads that are still in the kernel are all sampling,
  all folding with the same stride, or all storing), `SameTarget` (they are at, or
  on the way to, the same point), `ExitPoint` and `PastCheck` (those that left did so
  after the last point, or at a level that every thread rejects), and that the loop
  body runs once: `LoopHead` and `SlotPointer`. Race freedom follows because threads in
  different regions would need a barrier between them; the pointers' safety because
  `cuda_blocks` gives each thread at most one index (`CudaBlocksBounds`), which is what
  a capped grid breaks.
- CUDA, what is summed: `SumsInductive`, `LaunchesExact`, `LaunchAccumulates`. `CudaInv`
  adds that the strides of a reduction are halves of one another (`Strides`), that the
  scratch lanes still in use (`Kept`) hold disjoint parts which together are what the
  block's threads contributed (`ScratchSums`), that a slot's gradients are what the
  leaders of its threads have stored (`SlotSums`), and that a value cell has what
  threads with that corner have sampled (`ValueSums`). A fold moves a lane's part into
  another and takes the lane out of use; at stride zero only lane 0 is left and has the
  whole. That `aware_reduce_v2` takes no leftover lane is sound because its block sizes
  are powers of two, which halve without remainder until one.
- CPU: `CpuKernelsRaceFree`. `CpuApart` says that what is left of the workers' ranges
  does not overlap, and with the lemmas that a task determines its batch, head and
  query, cells of different tasks are different. `CpuSums` says of every cell that it
  has what it is owed but for what some worker still has ahead of it or is at
  (`Ahead`, `Adding`); `CpuLoads`, that what a `+=` has read is still there.
- MPS: `MpsPassExact`. `MpsLane` says that a lane goes through the channels that are
  its own modulo the SIMD width and has summed those behind it; `MpsSums`, that a
  value cell has exactly what was scattered to it, and that a slot is stored whole or
  still uninitialized. The compare-and-swap loses nothing because it adds to the
  cell as it is, or fails.
- All: `KernelsInductive`, that the three invariants hold together, and
  `KernelsOnlyAccumulate`, that no step on any device adds what is not due. This is
  the safety half of the refinement of `GradientAccumulation`.

`InputChecks_proofs`, first on sizes: `TypeCorrect`, `KernelIndicesSafe`,
`HostOffsetsSafe`, `BatchesCovered`, `NoLateRefusal`. The invariant is that from the
check on the plan is that of an accepted call (`Planned`) and that the batches before
`n` are covered once (`CoveredOnce`). The bounds rest on `WidthAssumption`, that
`IntMax * MaxThreads` is at most half of `LongMax` (2^31 * 2^10 against 2^62 in the
code), and on lemmas that the grid is monotone in the work and pads it by less than a
block. Then on the contract: `Traced`, `Foreseen`, `Documented`. `ContractInv` says
at every stage which operator call was made of the program's (`Passed`, in `StageInv`, with `Matches`
wherever inputs were widened outside autocast),
which checks it has met (`TracedInv`, `ResultInv`), why a call was raised
(`RaisedInv`), and that a backward pass of a forward call that ran is accepted
(`BackpropInv`): its gradient has the shape and precision of an answer that passed the
same checks. The comparison of the fake with the native checks is two lemmas,
`WhatRunsTraces` and `RefusedFor`, on one call each, of any shapes.

`Sampling_proofs`: `DeviceCheckExact` and `HostCheckExact` say that the wrapping test of
CUDA and the dividing test of the hosts accept exactly the levels within the value
tensor, for every width of the integers with `S` below half of `IntRange`; the lemma
behind the first is that a size less one, wrapped, is below `S` only for sizes from
1 to `S`, which then are their own low halves. `RefusalExact` follows with the
invariant that a call goes on only past levels that fit. `ReadsSafe` rests on
`CornerInLevel`: a corner that passes the device's tests is a pixel of its level, for
every location in the support. `SamplesInterpolate` says that a corner's weight is the
product of the tents, and that a corner left out has none: the forward pass is the
documented one for one sample, of any size. `AttentionComputed` and `SlopesComputed` say
so of whole calls: `ExactInv` adds that `col` and `gradValue` are the sums over the
samples behind the loops (`Visited`), that each of these has its interpolated value as
the gradient of its weight, and the slopes of the interpolation along each axis as
those of its location. The reference sums over a set of samples and the code over
loops: that such a sum does not depend on the order is proved for every finite set,
from the existence of a least counterexample among cardinalities (`SumsExist`,
`SumWith`).

`AutogradDispatch_proofs`: `Balanced`, `Matching`, `Attached`, for any number of
threads and calls. `History` says what a call leaves for later ones: it ran the kernel
of its own arguments, its node saves them, and what the engine calls for a node
has what that node saved. `Running` lists the frames a call in progress can have,
with the thread's mode and excluded keys in each, which is why returning and raising
restore the same. A call in progress is of one thread only.

`PodLifecycle_proofs`: `TypeCorrect`, `SuccessVerified`, `DeletedVerified`,
`ForeignSafe`, `ActiveJobSafe`, `RentalImplemented`. `JobInv` says what a stage of the
job knows (a recorded identifier is of a Pod that has existed; a job that has not
failed by its cleanup has recorded it), `StageInv` when calls may be in progress, and
`Sound` that a call has nothing but the run's own Pod in hand, that this Pod has
existed, and that if it was dealt with without an error it is gone. The last is why a
404 is proof of deletion: the Pod is only looked up after it has appeared, so that it
cannot be one still to come. `AgeAssumption`, a job timeout below the reaping age
(70 minutes against two hours), is what `ActiveJobSafe` rests on.
`RentalImplemented` maps every step under the invariant to a step of `Rental`: an
`Appear` that makes the Pod exist to `Rent`, a `Vanish` to `Return`, the ends of the job
and the writes of `deleted` to `Report`, everything else to a stutter.

`Controller_proofs`: `RecordCovers`, `RunCleansUpInTime`, `RunChecksPriced`,
`RunForewarnsChecks`, `RunSuccessHasEvidence`, `RunKeepsRegister`. A step of the composed run is one of the
session, one of the files, a new write, or the death of the process, so that the
invariants of the two parts carry over with one more case:

- `SessionInv` bounds the clock in each stage by the waits that led there (`ClockInv`),
  says that the price was confirmed from the upload on, when SIGTERM is due, and that a
  run that cut its checks off has failed (`WorkInv`), and which results can be where
  (`ResultInv`).
  `RunCleansUpInTime` holds for all timeouts; with those of the code (an hour, 30 s for
  a call, 20 s for a probe, 60 s for the upload and about 141 s for the collection)
  `Latest` is about 64 minutes, below the 70 of the job; that is arithmetic on the
  constants, and no theorem. `RunForewarnsChecks` says what the margin of the remote
  timeout is worth. It does not keep the deadline from cutting checks off:
  `--kill-after=30s` lets a process that is deaf to SIGTERM live until the very
  deadline, and a slow start of the connection (`ConnectTimeout=10`) comes on top. But
  such a process has been told `Early` less `StartDelay` before, and its run, with the
  results it may still be writing, does not succeed.
- `FileInv`: a file that is `state.json`, in the cache or on the disk, or that the
  reader has open, has its whole contents on the disk (`WholeInv`); it needs that only
  a synced write is ever renamed. The register's numbers grow because the writes' do
  (`OrderInv`). It is implemented because every step is a step of the files or
  invisible to them.
- `RecordInv` adds what neither part knows: the first write is the intent, later ones
  are of a Pod, and no entry is taken back while the run lives; only a power failure
  does that, and it ends the run.

`Workloads_proofs`: `ReleaseBacked`, `MatrixBacked`, `PackageBacked`, `WholeTreeTested`,
for any numbers of runs, pairs and revisions. `ReleaseInv`: a run has a completion only
when it is done, and a report of a pass only past its suite. `MatrixInv`: rows are the
first of the request's pairs, in its order, and what lies under a label was copied from
that pair's own directory; `CopyInv` counts a pair's files in the middle of its copying,
where it may be killed. `HubInv`: a tree's manifest names all the sources of its
revision or is missing, and a tree names a Nix build only if it holds all of its files
and their archive was built from the same sources. `WholeTreeTested` then needs that a
host checks the candidate it was given against that manifest before its suite.

`Build_proofs`: `Reported`, `Honours`, for any hosts, options and sequence of builds.
Objects and libraries outlive the build that made them, so that neither property is
inductive. What makes reuse sound is `LibraryInv`: an object that is no newer than the
library has the flags the library was linked from. A linker that finds nothing newer
among the objects of this build, all of which have this build's flags, leaves a
library of these flags, whoever linked it.

Only model-checked: `EveryPodDeleted` and `KernelsComplete`, which are liveness under
fairness and outside what the proof system can do, and the run that expects a
violation. The proof system has no induction over data here: what needed it, the sums
over finite sets, is proved from the least element of a set of numbers, which is a
statement without operator parameters.

## 6. What the code does otherwise than its documents say

`docs/validation/python-matrix/README.md:75` says that each successful remote pair of the
support matrix has four files, `cuda-completion.json` among them. No pair can be
successful: `run_support_matrix.py:84` runs the CPU suite through
`cpu_test_report.py`, whose allowed skips (line 27) are of CUDA tests only, while
`tests/test_mps.py:14` skips its class on every Linux host. The report of the CUDA wheel
does except that class (`cuda_test_report.py:24`). Every pair therefore exits with 1
before its completion is written. Run `matrix_healthy` shows it; the property is
`HealthyPairSucceeds`.

An observation without a run: `prepare_kernel_hub_nix.py:51` compares the files that the
old manifest of the Nix build names. A source added since is not among them, although
the comment above (line 49) says that implementation and build inputs must stay
identical, and `docs/gpu-runner.md:190` that source hashes are checked before a GPU is
rented. A GPU is then rented for nothing, but nothing wrong is released:
`verify_kernel_hub.py:66` compares whole manifests. `VerifiedAtRevision` covers
the latter, and its run has a revision that adds a file.

## 7. What is not modelled

- Rounding and half precision: `Sampling` computes exactly. A coordinate that rounds
  onto an edge of the support, or to a value that is no number, is not considered.
- Empty calls in the kernel models, where positive sizes are an assumption. CUDA and
  MPS refuse them (`InputContract`); on the CPU they run no tasks or no points.
- Streams and devices: each CUDA call is one stream's work, in order. MPS threads
  start after `run()` has encoded its dispatches; threadgroups are taken to be whole
  numbers of SIMD groups.
- The pybind entry points, which skip the dispatcher, and the Kernel Hub's direct
  operators: they call the same native checks without the normalization of layouts,
  and refuse what is not contiguous.
- Layouts in `InputContract` (they are in `AutogradDispatch`), sizes beyond the index
  limits there (they are in `CudaIndexing`), and symbolic shapes of a dynamic compile.
- In the runner: the contents of keys, payloads and logs; clock skew between GitHub and
  the provider (which `owned_pod` allows five minutes for); the read-only `check` command.
  `PodLifecycle` takes capacity, SSH and artifacts as steps that may fail, `Session` and
  `Controller` have them in detail.
- How long a call to the provider may take: `ApiTime` stands for the 30 s of `urlopen`,
  which limit each wait for the socket and not the whole answer; a server that sends
  its answer in small pieces could take longer than `CleanupInTime` allows for.
- Which names the `find` of `collect_artifacts` selects: results are those that match.
- A linker killed in the middle of writing the library: a build that does not end is
  taken to leave the library it found.
- The zero in a row of the matrix: `RowsBacked` asks for a completion beside it, but no
  pair exits with zero (section 6), so that only the artifacts of failed pairs are
  put to the test. It will count when pairs succeed.
- Whether evidence is authentic: files are what a run of the repository's scripts
  wrote, on clean checkouts, and equal hashes are equal contents.
- What Ninja compares is external, as its rule is not in the repository; header
  dependencies are left to it. The tag of a wheel's platform is a name.
- `build_matrix` of `cuda_matrix.py`, which prints CI jobs, and the provisioning,
  packaging and benchmark scripts: straight lines without a state that another part
  reads.

## 8. Running

    tlc -workers 4 -config MCCol2ImBlock.cfg MCCol2Im
    tlc -workers 4 -config PodLifecycle.cfg PodLifecycle
    tlapm Devices_proofs.tla

    tlc -workers 4 -config MCDevices.cfg MCDevices

Runs take from a few seconds to two minutes. `Devices_proofs` takes about six minutes
from nothing, the other proofs about a minute each.
