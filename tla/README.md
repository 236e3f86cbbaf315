# A TLA+ model of the Rocket NPU stack

This directory specifies `iree-rocket`, an IREE HAL driver and compiler for the Rocket NPU
of the RK3588, from the compiler's last decisions to the words the hardware reads. The
compiler admits shapes, declares layouts and writes executables; the driver turns IREE's
asynchronous `queue_*` calls into work for threads, threads into ioctls, and ioctls into jobs
on NPU cores whose kernel driver reports a killed job as a success; a planner both sides share
cuts convolutions into tiles. IREE, the kernel and the hardware are environment.

Paths below are relative to the repository root (`src/` here); `driver/` stands for
`rocket-hal-driver/src/`, `hal/` for `iree-rocket-hal/src/rocket/`, `core/` for
`rocket-core/src/`, `plugin/` for `rocket-compiler-plugin/target/Rocket/`.

## 1. The system

| Component | State | Operations | Interacts with |
|---|---|---|---|
| Worker pool (`driver/pool.rs`) | per context a channel, its sender, a thread | `enqueue_on`, `worker_main`, `shutdown` | device queue (calls), semaphores |
| Device queue (`driver/device.rs`) | none of its own beyond the pool; detached threads | `queue_execute`, `queue_host_call`, `queue_alloca/dealloca/fill/update/copy` through `run_after_wait`, `destroy` | pool, semaphores, command buffer |
| Semaphore (`driver/semaphore.rs`) | payload, sticky failure | query, signal, fail | everything that waits |
| Dispatch loop (the work of `queue_execute`) | `cmd_bufs`, `started`, the shared `dpu_hazard` clock | dwell, allocate, write, submit, wait, judge, compact | scratch pool, kernel |
| Scratch pool (`driver/scratch_pool.rs`) | free lists by (file, class), byte count | `ScratchBuffer::new`, `drop`, `clear` | all contexts, under one mutex |
| Command buffer (`driver/command_buffer.rs`) | recorded ops, scratch, chained outputs, dense readers | recording, `apply_ops_until_dispatch`, `destroy` | weight cache, planner, builders |
| Packed-weight cache (`driver/weight_cache.rs`) | entries by key and generation | `lookup`, `publish`, `forget`, `clear` | command buffer, buffer writes |
| Buffer, allocator (`driver/buffer.rs`, `allocator.rs`) | BO, mapping, write generation, references | allocate, map, `note_write`, destroy | weight cache, queue |
| NPU context (`driver/pool.rs`, `hal/device.rs`) | a DRM file, its GEM handles | open, CREATE_BO, SUBMIT, PREP_BO, close | kernel |
| Executables (`driver/executable*.rs`, `hal/executable_format.rs`) | template of a kernel | prepare, `validate_template`, `resolve_shape` | compiler's file, command buffer |
| Planner (`core/conv.rs`, `admission.rs`, `fc.rs`) | none | admission, CBUF partition, tiling, staging | compiler through the C ABI, command buffer |
| Layouts (`core/layout.rs`, `weights.rs`, `hal/tensor_layout.rs`) | none | cube geometry, pack, compact, chain rule | both sides |
| Register builders (`hal/conv.rs`, `pooling.rs`, `elementwise.rs`, `activation.rs`, `builders/`) | none | emit register programs | command buffer |
| Planner FFI (`rocket-plan-ffi`) | none | descriptor checks, error codes | compiler plugin |
| Compiler plugin (`plugin/RocketTarget.cpp`, `RocketAssignLayoutPass.cpp`) | none at run time | configuration to table; packed operands and reader counts | FFI, executables |
| Compiler driver (`rocket-compiler`) | none | run, audit, report | plugin's records |

What makes them correct:

* **Queue.** Work runs after everything its wait list stands for, in order on its
  context; its outcome reaches its signal list; nothing hangs; shutdown loses nothing.
* **Dispatch.** The hardware reads the program written for it; a result is used only
  after all its fences, and never if the watchdog killed a part of it; the DPU gets its
  quiet time between a depthwise and a dense task.
* **Caches, pools, lifetimes.** No buffer is in two hands; no packing is used after the
  weights it was made from have changed; every reference and every byte is given back.
* **Chaining.** A dispatch that reads another's cube in place reads what the program says,
  and a dense write is skipped only when nobody will miss it.
* **Planner and layouts.** Tiles compute every output once from pixels they hold, within
  the on-chip buffer; packing loses no coefficient; what is claimed can be planned and what
  is planned can be programmed.
* **Executables.** What was configured in the compiler is what the dispatch resolves to, and
  the program built from it stays inside the cubes the driver packed.

What is hard: three kinds of thread meet on the same semaphores; a worker blocks on the
oldest unit of its channel; failures travel along semaphores; a panic takes a whole
channel with it; `destroy` joins workers but not detached threads; tiles of one dispatch
run on several files; a value read under a lock (the hazard clock, a cache generation)
is used after it; the compiler's declarations are checked against an order of recording it
does not see; the same rule is written twice, in C++ and Rust or in planner and builder, and
the two must agree. `PROJECT.json` lists each of these under `hazards`, with its line.

## 2. Modules

| Module | Models | Role |
|---|---|---|
| `DeviceQueue` | `pool.rs`, queue side of `device.rs`, `semaphore.rs` | specification, properties, inductive invariant |
| `QueueContract` | what the HAL promises of a queue | abstract specification |
| `QueueRefinement` | | `DeviceQueue` implements `QueueContract` |
| `MCDeviceQueue` | | wait and signal lists, symmetry for TLC |
| `DeviceQueueProofs` | | theorems about `DeviceQueue`, and of the refinement |
| `Dispatch`, `MCDispatch` | loop body of `queue_execute`, `scratch_pool.rs`, tile fan-out of `command_buffer.rs` | specification, properties |
| `DispatchProofs` | | theorems about `Dispatch`, with its inductive invariant |
| `WeightCache` | `weight_cache.rs`, the weights of a dispatch in `command_buffer.rs`, write generations of `buffer.rs` | specification, properties, inductive invariant; TLC runs it directly |
| `WeightCacheProofs` | | theorems about `WeightCache`: where packings are, and what they hold |
| `Lifetimes`, `MCLifetimes` | references, descriptors, GEM handles and the pool across `device.rs`, `command_buffer.rs`, `buffer.rs`, `scratch_pool.rs`, `pool.rs` | specification, properties |
| `LifetimesProofs`, `HandleProofs` | | theorems about `Lifetimes`: references and accounts, and whose handles are |
| `CommandBuffer`, `MCCommandBuffer` | `RocketAssignLayoutPass.cpp`, chaining and elision in `command_buffer.rs` | specification, properties |
| `CommandBufferProofs` | | theorems about `CommandBuffer`, with its inductive invariant |
| `ConvShape` | `Precision`, `Shape` of `core/conv.rs` | operators |
| `ConvTiling` | tiles, partitions and captured tilings of `core/conv.rs` | operators |
| `Admission` | `core/admission.rs`, `fc.rs` | operators |
| `TensorLayout` | `core/layout.rs`, `weights.rs`, `hal/tensor_layout.rs` | operators |
| `Registers` | `hal/builders.rs`, `builders/` | registers and fields |
| `ConvProgram` | `hal/conv.rs` | operators |
| `ConvPlanner`, `MCConvPlanner` | `rocket-plan-ffi`, `ConvPlan`, the programs of a plan | specification, properties |
| `PlannerProofs` | | theorems about `ConvPlanner`, with its inductive invariant |
| `Pooling` | `hal/pooling.rs` | operators |
| `Elementwise` | `hal/elementwise.rs`, `activation.rs` | operators |
| `Executable`, `MCExecutable` | `RocketTarget.cpp`, `executable_cache.rs`, `executable.rs`, pooling and element-wise arms of `dispatch_impl` | specification, properties |
| `ExecutableProofs` | | theorems about `Executable`, with its inductive invariant |

Extension goes upwards: `ConvShape` under `ConvTiling`, `Admission` and `TensorLayout`;
`ConvTiling` and `Registers` under `ConvProgram`; these under `ConvPlanner`. `TensorLayout` is
also under `CommandBuffer` and `Pooling`, and `Pooling` with `Elementwise` under `Executable`.

Operators whose comment begins "Broken variant" or "Mutant" are plausible faults of the
definition they stand next to. No specification uses them; each one, put in the place of that
definition, makes TLC report the property it is paired with in `PROJECT.json`. They show
that the properties can fail.

### DeviceQueue

A submission is a *unit*: kind, context, wait list, signal list, and who runs it. The
variable `stage[u]` says where it is, `pos[u]` which entry of the current list comes next:

    queued -> wait -> work -> signal -> signalled
                |       |-----> fail -> failed       (also straight from wait)
                |       `-----> returned             (run_after_wait's synchronous error)
    rejected (enqueue_on: UNAVAILABLE)     lost (the worker panicked)

| Code | Model |
|---|---|
| `enqueue_on` | `Enqueue`: append to the channel, or reject when sender or receiver is gone |
| `run_after_wait`, both modes of `queue_host_call` | `RunAfterWait`: on the caller if `list_poll` says so, else on a detached thread |
| `receiver.recv()` | `Receive`, `WorkerExit` |
| `wait_all` | `WaitNext`, one entry per step |
| the closure's result | `WorkOk`, `WorkError`, `Panic` |
| `signal_all`, `fail_all` | `SignalNext`, `FailNext`, one semaphore per step, then `SignalDone`, `FailDone` |
| `destroy`, `shutdown` | `Destroy`, `TakeSender`, `Joined` |

A non-blocking host call (`notify`) signals first and calls afterwards. A barrier is a
`queue_execute` without a command buffer and goes to worker 0. List operations are not
atomic: another thread may act between two entries. When a signal is refused, IREE may or
may not go on with the list, so the model does either.

The environment is IREE. Its semaphore has a payload that grows and a failure that
sticks. `ClientRules` is what a client of a timeline owes: it waits only for values that
the host will signal or an earlier submission has promised, every value has one signaller,
and the signaller of value *n* waits for *n-1*. All submissions come from one host thread;
the pool accepts several, but nothing of what a unit does depends on who submitted it.

### Dispatch

Each worker takes one dispatch at a time through the phases `dwell`, `allocate`, `write`,
`submit`, `wait`, `judge`, `drop`; `next` is the index of the loop over tasks. Every early
exit `break 'result` is the action fragment `Break`, after which `cmd_bufs` is dropped.
`Allocate` and `Drop` take and give back one scratch buffer per step, because the pool's
mutex is held for one buffer only.

The kernel is external: one queue per file, one task of a file on a core at a time,
`Complete`, and a watchdog `Kill` that resets the core and signals the fence exactly as
completion does. Time is a `Tick`; clocks saturate where the code stops distinguishing
their values (`hazard` at the quiescence, `elapsed` at the floor). The assumption
`Floor <= Watchdog` is what the comment on `HUNG_JOB_DISPATCH_FLOOR` (`driver/device.rs`)
relies on. `hazard = Quiescence` stands for both "never" and "long ago".

Abstracted: register programs are `<<dispatch, task>>`; all their buffers are of one size
class; output bytes and compaction are left out, except that compaction may report that
the output does not fit. Not modelled: the diagnostic switches (`quiesce_off`,
`quiesce_all`, `leak_regcmd`, `ROCKET_SCRATCH_POOL=0`, fan-out disabled). `NumBuffers` is
large enough in every run that no allocation has to wait; a failing CREATE_BO panics, which
is `DeviceQueue`'s `Panic`.

### WeightCache

The cache of packed weights is used at two times by two kinds of thread. When a dispatch is
recorded, `stage_weights` looks its packing up and, on a fan-out, `build_replicas` those of the
sibling contexts. When the command buffer runs, the worker packs or copies what was not a hit and
publishes it. In between and meanwhile, the weights may be written.

| Code | Model |
|---|---|
| `stage_weights`: key, generation, recorded writers | `Key` |
| `stage_weights`: `lookup`, `lookup_other_context`, new scratch | `StageWeights` |
| `build_replicas`, one sibling per step | `Replicate` |
| the command buffer's own fill, update or copy of the weights | `Start`, `Unmap` |
| staged copies and `weight_packing`: generation, copy or pack, flush | `ReadGeneration`, `StartFill`, `FinishFill` |
| the loop over `replicas` | `StartFill`, `FinishFill`, `Publish` again, by `GoTo` |
| `weight_cache::publish` | `Publish` |
| a write mapping, or an output compaction with `note_write` | `ClientWrite`, `ClientUnmap` |
| `buffer::destroy`, and an allocation at the same address | `Recreate` |

Weights are the number of the write they come from, a packing is the number of the weights it was
made from, or `Torn`. One binding at one geometry is modelled, since entries with different keys share
nothing but the budget, which counts packings here. `Writes` says how careful the client is: it
writes only while no recorded command buffer uses the binding (`settled`), only while none runs, as
semaphores can see to (`barrier`), or at any time (`racing`). Left out: weights the hardware reads
straight from the binding (nothing is cached), `ROCKET_WEIGHT_CACHE=verify` and `=0`, statistics, and
`clear` in `device::destroy`.

### QueueContract and QueueRefinement

`QueueContract` is the promise of a HAL queue with no worker, channel, thread or list position
in it: a task starts once all it waits for is reached, signals once it has finished well, poisons
a semaphore only if it failed or something it waits for did, and a dying worker only drops tasks
that had not finished. `QueueRefinement` reads a task off a unit's `stage` and `result` and
instantiates the contract. `KeepsContract` is the contract's specification as a property of
`DeviceQueue`. A non-blocking host call is an *eager* task: it may signal from its start on.

### Lifetimes

One record, `heap`, holds descriptors, GEM handles of each file, the free lists, contexts, buffers
and command buffers; the functions of the code that release something are operators from heap to
heap (`ReleaseBuffer`, `DropScratch`, `DropContexts`, `clear`), so that `command_buffer::destroy` is
their composition in the order Rust drops fields. Releases that follow each other without anything in between
(the contexts of a command buffer, the idle buffers of the pool) are one operator on a set, whose order does
not matter to the result. `units` are the `queue_*` calls.

| Code | Model |
|---|---|
| `device::create`, `destroy` | `CreateDevice`, `StartDestroy`, `FinishDestroy` |
| `allocate_buffer`, `queue_alloca` | `AllocateBuffer` |
| `create_command_buffer`, `dispatch` | `CreateCommandBuffer`, `RecordDispatch` |
| `queue_execute`, the transfers, `queue_dealloca` | `queue_execute`, `queue_transfer` |
| their work, its absence | `BeginExecute`, `EndExecute`, `RunTransfer`, `WaitFails`, `Panic` |
| `ScratchBuffer::new`, `drop`, `clear` | `NewScratch`, `DropScratch`, `clear` |

The kernel gives out the lowest free descriptor and the lowest free handle of a file, so numbers are
reused as soon as they can be, and a device is created after another has gone. The variable `late` says that
a device was destroyed with objects of it in use. `HandlesAreOwn` and `Reclaimed` are stated for the other
histories: `driver/weight_cache.rs:333` says that nothing in the HAL contract promises that order,
but IREE's own modules keep it, and without it the code does reuse a stale descriptor (section 5).

### CommandBuffer

From the layout pass to memory. `Compile` is IREE: it writes any program over a menu of sites and
places results in cells nobody needs any more. `Assign` is `runOnOperation`: the packed operands of
every dispatch and how many readers take its cube. `Record` is `dispatch` and its siblings as far as
operands go: `chainable_cube` looks for the last writer of the same bytes on the same command
buffer, compares the declaration with the runtime's own geometry (INTERNAL if they differ), counts the
reader with its producer, or notes a dense read. `Execute` performs an instruction: it reads its operands
from cubes or cells and, unless `compaction_elidable`, writes its cells. A cell holds the number of its
writer; `stray` collects operands that did not hold what the program says. Recording runs ahead
of execution as the client likes, up to whole command buffers.

An instruction carries the cells of its value (`extent`: its own, or those of the value it updates in
place) and the instruction each of them holds the result of (`holds`), which `Emit` works out from the
program so far. A fill, update or copy may write a part of a value; a dispatch writes all of its result.
`MenuAssumption` says what every site is: at most two operands, each of at least one cell, and a host
read has no result.

Left out: the bytes (the identity of cube and dense form is `ChainIsIdentity` below), and reasons to
give up a chain that no property tells apart from the ones modelled.

### ConvShape, ConvTiling, Admission, TensorLayout, Registers, ConvProgram, ConvPlanner

`ConvPlanner` serves one call of the planner's C ABI at a time. A convolution or a matmul goes through
`Call` (the compiler's question, `rocket_admit_*`), `Describe` (`rocket-plan-ffi`), `Check`
(`Shape::validate`), `Partition` (who gets the banks), `FullWidth` and one `TryColumns` per attempt (tiling),
`Stage` (the layout of accumulator output) and one `EmitTile` per tile (register program and
relocation); a filter goes through `Pack`, a chain query through `Chain`. Every refusal keeps its
error code, every assertion of the builders is the status `panic`.

The operators are those of the source under its names. A buffer in `TensorLayout` is a function from
places to the places the bytes came from, so that packing and compaction can be composed and
compared. In `Registers` a field has its width and shift, and a word is a set of bits: that fields do
not clobber each other is checked rather than assumed. u32 products that reach 2^32 for accepted
descriptors are computed in parts with the wrap of the source (`ConvShape`).

### Pooling, Elementwise, Executable

`Executable` follows one kernel: `Serialize` (the configuration checks and the encoding of
`RocketTarget.cpp`), `Load` for files other producers wrote, `PrepareTable`, `PrepareTagged`,
`PrepareUnknown` (`prepare_executable`), `Dispatch` (push constants through `resolve_shape`), `Bind`,
and the emission of programs: `Plan` and one `EmitPoolingTile` per tile, or `EmitUnary`,
`EmitBinary`, `EmitLut`. Names become codes and positions in lists, and are read back from them, as in
the code. Convolutions and matmuls end at the planner's verdict, where `ConvPlanner` begins.
Scales are powers of two, named by exponents: whether a shift fits its field depends on nothing else.

`Measured` is the class of dispatches for which the builders are meant: what lies outside is where they assert
(section 5), and `MeasuredNeverPanics` says that this is the only place.

Three assumptions say what the constants may be. `TargetsAssumption`: a target has the attributes of its kernel, and a
call for it pushes one word for every name it lists, dimensions first, layout last. `ForeignAssumption`: a file has the
fields of the schema, with any codes in them. `DispatchesOf` also takes what a foreign file decodes to, for the
unsigned words of its calls. `BuffersAssumption`: scratch cubes start on an atom.

## 3. Runs

Passing runs (`tlc -config X.cfg M`):

| Run | Instance | Shows |
|---|---|---|
| `order` | 2 contexts, 3 units, `execute` and `transfer`, lists of one entry, host and queue semaphores, panics (2.5 M states) | dependency order, channel order, no regressing signal, shutdown drains, a panic stays on its context |
| `live` | 2 contexts, 2 units, all kinds, lists of two entries in both orders, fairness (167 k) | the queue keeps its contract; outcomes are reported; every unit settles; `destroy` returns |
| `dispatch_order` | 2 workers, 2 cores, 3 one-task dispatches, no ioctl failure (2.3 M) | programs intact, quiescence for ordered dispatches |
| `dispatch_tiles` | 2 workers, 2 cores, fanned-out and epilogue dispatches, ioctls fail, watchdog (2.4 M) | OK means done: all fences, nothing killed; epilogue last; pool exclusive |
| `dispatch_live` | 2 workers on 1 core, 2 fanned-out dispatches, fairness (45 k) | every dispatch ends |
| `weights_settled` | 2 contexts, 3 command buffers, 2 writes or reallocations, room for 1 packing, fan-out 1 or 2 (2.1 M) | coefficients are fresh, packings complete once found, every part on its own file |
| `weights_racing` | 1 context, 3 command buffers, 2 writes at any time (0.3 M) | entries stay coherent |
| `lifecycle` | 2 devices of 2 contexts, 1 buffer, 2 command buffers, 2 calls, scratch of 300 KiB under a budget of 1 MiB less a byte (1.2 M) | references balance, the pool's bytes add up, handles are nobody else's, a device leaves nothing behind |
| `chain` | programs of up to 4 instructions over 16 cells and an argument (1.0 M) | every operand holds its value, no declaration is contradicted, writes all readers can do without are skipped |
| `planning` | 4,233 calls, 1,520 of them plans: kernels 1 to 11, 8 precisions, strides 1 to 4, dense, shallow, deep and depthwise maps, explicit splits, matmuls, malformed descriptors, filters, 2,304 pairs of cubes (24 k) | tiles compute every output, banks suffice, nothing contradicts itself, claims are kept, programs land where compaction reads, filters are packed whole, a chain is the identity |
| `kernels` | 7 kernels, static and dynamic, foreign files, dispatches at the edges (25 k) | dispatches run what was configured, both sides check alike, pooling windows and cubes are the image's, no panic inside the measured class |

Three units are what a chain "A signals B, B fails C" and "two on one worker, one on the
other" need; two contexts are needed for cross-waiting, and a third adds only a copy of the
same worker. Two values per semaphore make a timeline move twice. Two tiles fan out over two
files; one tile and an epilogue make the two tasks of one queue. Quiescence 2 (in
`dispatch_order`) makes a dwell that is partly over distinct from a full one. `Floor < Watchdog`
leaves a tick in which a slow task is refused without being killed. In `WeightCache` the third command
buffer is the one that hits what the second left after the first was evicted or refused, and two
contents after the first make a packing that is old twice over. In `Lifetimes` a second device is what
reuses descriptors, and two buffers of the 512 KiB class are one byte too many for the budget. In
`CommandBuffer` four instructions are a producer, a writer over or beside it, a reader of two operands and a
reader after it, on up to four command buffers; odd widths tell PPU surfaces from the others. The
descriptors of `MCConvPlanner` and `MCExecutable` are chosen from the branches of the code: both sides of
every threshold the planner compares with, every captured table, every precision, and extents that are no
multiple of an atom, a surface or a group.

`order` turns deadlock checking off: the units that wait for a lost one wait for ever,
and so does `destroy` if one of them is on a worker. `live`, without panics, checks for deadlocks. In
`Dispatch` time can always pass, so deadlock checking says nothing there; `EveryDispatchEnds` takes its
place. `lifecycle` and `kernels` end: with everything released, with a file refused or with an
aborted process.

One run expects a violation:

| Run | The comment | What the run finds |
|---|---|---|
| `pool_split` | `plugin/rocket_conv2d_transform_spec.mlir:5151`: "Wider images are not excluded: `PoolingPlan` splits them into tiles the hardware is measured to run" | tiles are cut by output width alone; kernel height 5, stride 2, width 24 gives one tile whose input is wider than the 20 `overlapping_window_width_limits` allows, and `PoolingPlan::new` asserts inside a call from C |

Properties stated more weakly than the comments they come from, because the stronger form fails:

* `OutcomeReported` allows a signal list to be left at its first failed entry. `worker_main` drops the
  status of `signal_all`, so entries after a semaphore that another unit has failed may stay untouched,
  although `driver/pool.rs:213` says the outcome reaches IREE through `signal_list`.
* `OrderedDenseQuiesced` speaks of dispatches that begin after the depthwise one reported OK. For
  unordered ones, another context's depthwise task may complete after the dwell was computed; the
  comment at `driver/device.rs:413` calls several contexts "conservative".
* `ProgramIntact` is checked, and proved, without failing ioctls (with them,
  `ProgramIsIntactUnlessFailed` says of which tasks it still holds), `CacheCoherent` with racing writes on one context,
  `FreshCoefficients` and `ReadOnlyOncePublished` for settled writes and command buffers that run once;
  `RefsBalance` counts the references of calls that never ran as theirs for ever; `NeverPanics` excepts the
  descriptors of `Unprogrammable` and `ForcedCapture`, `BanksSuffice` the one class of `OverStreamed`. Section 5
  says what happens otherwise.
* With `Writes = "barrier"` TLC finds a dispatch that hit the cache when recorded and misses a write which
  semaphores order before it; `driver/weight_cache.rs:44` excludes only writes "with no HAL barrier
  between them".
* `AdmittedIsPlanned` excepts dense feature maps that would need columns, and `TemplatesAgree` the
  targets of `RuntimeOnly`, which the compiler does not check.

### Fairness

`DeviceQueue`: the operating system runs every started thread (`UnitStep`, `WorkerStep`,
`Shutdown`), and the host eventually signals or fails its own semaphores. Nothing obliges the
host to submit or to destroy. `Dispatch`: worker threads run, time passes, an idle core takes
a waiting task, the watchdog fires at its limit. No task is assumed to complete by itself, so
`EveryDispatchEnds` covers hardware that hangs on everything. The other modules state no liveness:
their calls are sequential and have no loop that waits.

## 4. Proofs

`DeviceQueueProofs` proves, for every number of contexts (1 to 8, as `requested_contexts`
enforces), units, semaphores, values and for all lists:

| Theorem | Statement |
|---|---|
| `Invariance` | `Spec => []IInv` |
| `TypeCorrect` | `Spec => []TypeOK` |
| `DependenciesHold` | `Spec => []DependencyOrder` |
| `NoSignalRegresses` | `Spec => []SignalsNeverRegress` |
| `ContextsInOrder` | `Spec => []InOrder` |
| `ShutdownIsComplete` | `Spec => []ShutdownDrains` |
| `PanicsAreContained` | `Spec => []PanicContained` |

The only assumption is `ConstantsAssumption` of `DeviceQueue`.

`DependencyOrder` is not inductive: that a unit got past its wait list says something about
earlier units only if every value on a timeline was put there by a unit whose work is done.
`IInv` says so in parts:

* `FreshInv`, `ListInv`: units exist in order; signal lists have distinct semaphores, and the
  signaller of a value waits for the one before it (`ClientRules`, remembered).
* `ValueInv`, `DistinctInv`, `OwnerInv`, `WaitOwnerInv`: a value is promised once, in order, and
  has exactly one accepted owner, which comes before all its waiters.
* `PendingInv`: a timeline is below every value still to be signalled on it. This is
  `SignalsNeverRegress`, and what keeps it is `WaitedInv`: the owner of *n+1* is past its wait
  for *n* only when the timeline is at *n*.
* `VouchInv`: every value up to the timeline belongs to a unit that vouches for it. With
  `WaitedInv` and `DistinctInv` this gives `DependencyOrder`.
* `ChannelInv`, `PlaceInv`, `InOrder`: a channel holds its context's queued units in order behind
  the running one, and every unfinished unit is where its runner finds it. These give the three
  pool theorems.

Each action has a lemma that it preserves `IInv`; actions that only move a unit from stage to
stage share `MovesInv`, `FrameInv` and `PlaceFrameInv`, and `NextInv` puts them together.

`WeightCacheProofs` proves `TypeCorrect` (`Spec => []TypeOK`) and `PackingsOnOwnFile`
(`Spec => []OnOwnFile`) from `CacheAssumption`, for any number of contexts up to 8, command buffers and
writes, every discipline of the client and command buffers that run again. `OnOwnFile` speaks of parts
only; a part may come from the cache, so the invariant adds that the cache files a packing under its
own context (`CacheFile`), that this holds of the parts chosen so far while recording (`PartFile`),
and that the loops stay within the fan-out and at parts with a source (`LoopInv`). `WriteInv` keeps
the generation at or below the number of writes: the command buffer that unmaps is the one that has
the mapping. `FirstOther` needs that a set of contexts has a least element (`WFMin` of the library).

### The outcome of a unit, and the refinement

The second half of `DeviceQueueProofs` builds on `IInv` of `DeviceQueue`. `OutcomesAreReported`
(`Spec => []OutcomeReported`) needs to know how far `signal_all` and `fail_all` have come (`ReportAt`), and
that timelines and failures only grow (`Grows`). `ContractIsKept` (`Spec => KeepsContract`) shows
`DeviceQueue` to implement `QueueContract`: the initial states correspond, and every action is one of the
contract's or a stutter under the mapping of `QueueRefinement`. That a task starts only when all it waits
for is reached is `WaitedInv`; that it poisons only with a cause is `CauseInv`: a unit that signals has
not failed, and one that fails has an error of its own or a failed wait list. The contract's specification
has no fairness, so this is its whole meaning.

### The dispatch loop

`DispatchProofs` holds for any number of workers, cores, buffers, dispatches and tiles, from
`DispatchAssumption`:

| Theorem | Statement |
|---|---|
| `TypeCorrect` | `Spec => [](TypeOK /\ LoopInv)` |
| `PoolIsExclusive` | `Spec => []PoolExclusive` |
| `OkIsDone` | `Spec => []OkMeansDone` |
| `EpilogueIsLast` | `Spec => []EpilogueLast` |
| `DenseIsQuiesced` | `Spec => []OrderedDenseQuiesced` |
| `ProgramIsIntact` | `MayFail = FALSE` gives `Spec => []ProgramIntact` |
| `ProgramIsIntactUnlessFailed` | `Spec => []ProgramIntactUnlessFailed`, with failing ioctls |

The parts of its invariant follow a task: `JobInv` (a dispatch has one worker), `TaskInv` and `SentInv` (what
is in flight or done was submitted, in order, by a worker that is past it), `OrderInv` (a file runs one
task at a time, in order), `DoneInv` (a worker is past a wait only if the fence has signalled). `OkMeansDone` needs more:
a reset signals the fence as completion does, so the only evidence of it is time. `KillInv` says that a task has
not been on a core for longer than its worker's clock shows, up to the floor; a killed task has been there for
`Watchdog`, and `Floor <= Watchdog` puts its dispatch beyond the floor, where `judge` refuses it. `QuietInv` is
the argument for the dwell: the hazard clock is never behind the quiet time of a core whose depthwise
dispatch has reported OK, so a dwell computed from it once covers what is left. `ProgramInv` keeps the
programs of tasks in flight in buffers their worker still has; a worker that gives up after a failed ioctl
drops them, so with `MayFail` the claim is only about dispatches that have not reported UNAVAILABLE.

### What packings hold

The second half of `WeightCacheProofs` assumes `Reusable = FALSE` (every command
buffer runs once): one that runs again packs into the buffer it has published (section 5).

| Theorem | Further hypothesis | Statement |
|---|---|---|
| `SharedIsWrittenOnce` | none | `Spec => [][SharedKept]_vars`: no step changes a packing that is in the cache |
| `PublishedIsReadOnly` | `Writes # "racing"` | `Spec => []ReadOnlyOncePublished` |
| `CoefficientsAreFresh` | `Writes = "settled"` | `Spec => []FreshCoefficients` |
| `CacheIsCoherent` | one context, or `Writes = "settled"` | `Spec => []CacheCoherent` |

The core is `SealInv`: a packing that is in the cache, or was taken from it, is *sealed*, that is, the
command buffer that made it is past filling it. It needs `PartInv`, which says that a part that is not a hit
is the command buffer's own and that replicas are copied from the home part, and `GenInv`, that generations grow.
On top of it three invariants say what sealed packings hold. `CompleteInv`: something complete, if nobody
writes while a command buffer runs. `FreshInv`: the current weights, if the client writes only while no other
command buffer is recorded. `CoherentInv`: on one context a packing about to be published under the current
generation holds the current weights whatever the client does, because the generation is read before the
weights are. The hypotheses are needed: with two contexts and racing writes a replica copied from a stale
home packing is published as new (section 5), and with `barrier` a hit chosen when recording is stale when run.

### Chaining

`CommandBufferProofs` holds for every menu of sites, allocation, placement, program length and cutting into
command buffers, from `PlacesAssumption` and `MenuAssumption`:

| Theorem | Statement |
|---|---|
| `OperandsHoldTheirValues` | `Spec => []ReadsItsValue` |
| `DeclarationsAreKept` | `Spec => []DeclarationsHold` |
| `ChainedResultsAreElided` | `Spec => []ElidedWhenAllChained` |

`ProgInv` is what a compiled program is: `HoldsInv` (`holds` names the last writer of a cell up to the value,
which is the value's own instruction unless somebody updated the writer), `ReadInv` (nobody writes a value
between its instruction and its reader) and `BatchInv` (command buffers follow each other). From it,
`SourceIsLast`: the cube `chainable_cube` finds is the last write to the operand's cells, since whatever came
later would be on the same command buffer and overlap. `SourceIsArgument`: it is the very value the program
names, since the pass declares packed edges only to dispatches and a dispatch writes all of its result; so
the recorder compares the geometries the pass compared. `OpsInv` counts: a producer's tally is the
number of operands that read its cube, and a mark of a dense read has a reader. `MemInv`: a cell
holds the last write to it that was not skipped, and what an instruction writes is settled once its command
buffer is submitted (`WritesSettled`). If the last writer of a dense operand had been skipped, nobody would
have updated it, so it would be the operand's value, and its tally would equal the number of its uses; every
use would chain, this one included. The argument does not use `dense_read_seen`: the compiler's count alone
makes skipping safe, and the mark is a second line of defence, which only `ElidedWhenAllChained` is about.

### Who owns what

`LifetimesProofs` and `HandleProofs` hold for 1 to 8 contexts, every budget, set of requests and size of a
register program, and all bounds on devices, buffers, command buffers and calls, from `LifetimesAssumption`
(which asks for enough descriptor numbers for all devices; a refused `open` is not modelled):

| Theorem | Statement |
|---|---|
| `CoreHolds` | `Spec => []Core` |
| `ReferencesBalance` | `Spec => []RefsBalance` |
| `PoolIsAccounted` | `Spec => []PoolAccounts` |
| `HandlesAreTheirOwn` | `Spec => []HandlesAreOwn` |
| `NothingOutlivesTheDevice` | `Spec => []Reclaimed` |

`Core` holds on every history, those that destroy a device too early included. To `RefsBalance` and
`PoolAccounts` it adds `Types`, `Links` (an object is named only if it exists) and `Descriptors`: an open descriptor
is the device's, its allocator's or that of a context with references, and such a context's descriptor is open
on its own file. `Descriptors` bounds the descriptors in use, so that `device::create` finds free ones, and it
says which close is the last of a file. `RefsBalance` counts sets, and each step moves at most one element of each
(`CallsMove`, `BindingMoves`, `PlaceMoves`); the two that move many at once, `Panic` and the destruction of a
device, do so without changing who holds a reference, or for all contexts alike. `PoolAccounts` is a sum over the
free lists; appending to them adds a class and removing from any position takes it away, by induction on
positions, which is stated for a set because an induction theorem over predicates cannot be instantiated.

`HandlesAreOwn` is not inductive: a buffer in use stays on its file only if that file stays open, and a
handle that is given back frees nobody else's only if the pool was right about it. `Owning` adds, as long as no
device went before its objects: without a device nothing is in use and the free lists are empty; a command
buffer that may still run is placed on contexts of the device that is up; and every buffer in use or idle
is at a home, the descriptor of the allocator or of one of these contexts, and in one pair of hands (`Sound`). Its hard
steps are the last release of a command buffer, which closes no descriptor because the device still has its
share of every context; `Panic`, which gives back the register program while its command buffer's reference
leaks; and `FinishDestroy`, which empties the lists before the files go. `Reclaimed` follows from both parts: an
open descriptor would be that of a context with references, and those could only be of a command buffer
that has none.

### The planner

`PlannerProofs` holds for every descriptor the C ABI can be handed, from `CallsAssumption` (a descriptor is what the
structs of `rocket-plan-ffi` can hold) and `BuffersAssumption`:

| Theorem | Statement |
|---|---|
| `PlannerInvariant` | `Spec => []PlannerInv` |
| `TilesComputeAlways` | `Spec => []TilesCompute` |
| `BanksSufficeAlways` | `Spec => []BanksSuffice` |
| `ChainIsIdentityAlways` | `Spec => []ChainIsIdentity` |

What the loops of `core/conv.rs` compute is written as functions on an interval that are defined by their own
predecessor (`greedy_starts`, `moved_boundaries`, `PartialSums`); `Iterates` says that such a function exists and
obeys its recurrence, and `Induction`, from the least element of a set of naturals, is what all inductions use.

Every strategy of splitting rows yields *cuts*: boundaries from 0 to the output's height that strictly grow. This is
shown once for each of `Tile::split` (`BalancedCut`), `split_greedy_to_capacity` (`GreedyCut`) and
`realign_dense_row_tiles` (`MovedCut`, `RealignedCut`); what comes later knows only that it has a cut. Columns are
*widths* that sum to the output's width. `GridCovers` then says that the grid of a cut per column writes every
pixel once. That a tile has what its kernel reads is a matter of one dimension: `Window` says that the input range
of an output range lies inside the image, and `Resident` that a tap outside the range is in the padding. `CapacityFits`
goes from the row count of `max_tile_input_rows_for_width_and_data_banks`, a quotient, back to bytes in banks.

`BanksSuffice` needs `Policy`: each policy either grants the weights all they demand, or the working set one pass
streams. `LargeKernelStream` puts a number to it for the kernels of 7, 9 and 11, whose channels
`check_large_kernel_plan_case` bounds: eleven banks hold the stream, but for int4 with 224 channels at 7x7.

`PlannerInv` says of each stage what the ones before it established: a validated shape (`Served`), a split with that
grant (`Granted`), tiles that pass (`GoodTiles`); whatever count of columns the search stops at, `PlanGridGood` makes its
grid pass. `ChainFacts` is the argument for chains: two cubes of equal surfaces whose pixels are whole atoms address
every byte alike (`PackCompact`), so packing after compaction is the identity.

### From configuration to program

`ExecutableProofs` holds for every set of targets, foreign files, calls and scratch addresses within the
three assumptions of `Executable`:

| Theorem | Statement |
|---|---|
| `ExecutableInvariant` | `Spec => []IInv` |
| `TemplatesAgreeAlways` | `Spec => []TemplatesAgree` |
| `ResolvedAsMeantAlways` | `Spec => []ResolvedAsMeant` |
| `PoolWindowsAlways` | `Spec => []PoolWindows` |
| `KernelReadsWrittenAlways` | `Spec => []KernelReadsWritten` |

`IInv` says of each stage where its object came from: the file is `Encode` of a target that parsed or a foreign one
(`FileInv`), the executable is what a table decodes to and validates, or a tagged convolution (`ExecInv`), the shape is
`ResolvedOf` the words of the call (`CallInv`), the tiles are the plan of the shape (`PlanInv`), and the program is the one
the builder of the kernel makes of them (`ProgramInv`). `PanicInv` names the assertion behind every panic.

`TemplatesAgree` rests on `ParsedFaithful` (each field of a parsed target decodes to itself: `CodeOf` and `NamedIs` take a
name to its position and back) and on `Agreement`, which goes through the kernels one by one: what `Parses` requires in
C++ is what `Decodes` and `validate_template` require in Rust, but for `RuntimeOnly`.

For `ResolvedAsMeant`, `WordAt` finds the word of a name in the two lists laid end to end, and `MeantWords` says that it is
the one the caller pushed under that name; `DimsResolved` that it is not zero. The bias of a curve is a matter
of its program: `Sole` says that a register is written by one command only, `SoleFirst` and `SoleSecond` carry this
through the concatenation of program parts, and `SoleIs` gives the value a field ends up with.

`PoolWindows` and `KernelReadsWritten` read the same values for a tile's program (`PoolValues`) and for the element-wise
ones (`WholeValues`, of a program that has written its output cube and its input cube, `Whole`). That a tile starts where
the tiles before it end is a sum over the tiles: `FirstIs` shows `TileFirst` equal to a closed form, `StartOf`, by an
induction over sets of numbers (`Induction`, from the well-foundedness of the naturals), and `StartsFollow` that the closed
form goes from zero to the output's width. Then `RowTapped` and `ColumnTapped` compare a tap of a window with its pixel of
the image, and `Corner` an address the unit steps through with `SourceByte`: a tile lies inside the image and the output
(`TileInside`) because a program whose fields fit has no empty one (`TileNotEmpty`), and a pixel's channels fill the
surfaces (`PoolCube`, `LaneCube`).

That no field clobbers another (`ReadsBack`) is `ChainReadsBack`: the fields of a register lie apart (`Laid`, shown of each
of the registers these programs write), so a chain leaves in every field the bits of the last value it set, by induction along
the chain; the builders' command lists are all such chains (`ProgramReadsBack`).

### What is only model-checked

The inductive invariants were checked with TLC before they were proved: `IInv` of `Dispatch` on
the instances of `dispatch_order` and `dispatch_tiles`, those of `WeightCacheProofs` on the instances of
`weights_settled` and on one context with each discipline, `Core` and `Owning` on that of `lifecycle`, and
that of `ExecutableProofs` on that of `kernels`, and
that of `CommandBufferProofs` on a smaller menu of two or three sites per position (174 k states) and on the
first 685 k states of `chain`.

Liveness (`EveryUnitSettles`, `DestroyReturns`, `EveryDispatchEnds`) is out of the prover's reach, as
all reasoning about fairness is. 
Of the planner, `AdmittedIsPlanned`, `ProgramPlaced`, `FilterPacked` and `NeverPanics` are checked on the descriptors of
`planning` only: the first needs the policies' exact splits, the second and the last every field of every register, and the
third counts slots of nested groups of channels. Of `Executable`, `MeasuredNeverPanics`
is checked on the instance of `kernels` only: it needs a bound for every field of every program, the two halves of the
reciprocals and of the fixed-point scales among them.

## 5. Observations

Places where the code, or a comment and the code, disagree, met while modelling. Only the one of `pool_split`
has a run of its own; the properties above are stated so that each of these is outside them.

* A failing CREATE_BO panics (`hal/device.rs:78`) on the worker thread; the units of its channel are
  released unreported, although `driver/device.rs:1708` says an error reaches IREE as a failed
  semaphore. `PanicContained` says how far it goes.
* `queue_host_call` keeps the device pointer on a detached thread without retaining it
  (`driver/device.rs:1310`); the comment at `driver/device.rs:470` relies on every value being retained.
* When SUBMIT or PREP_BO fails, the register programs of tasks in flight go back to the pool
  (`driver/device.rs:2001`), although `driver/device.rs:1814` keeps them until the dispatch is complete.
* A packing chosen when recording is copied and published under the generation read when running
  (`driver/command_buffer.rs:1792`; the comment above it says a write since would have missed), and a
  command buffer that runs again packs into the buffer it has published (`driver/command_buffer.rs:1626`,
  against "written exactly once" at `driver/weight_cache.rs:73`).
* A failed wait, a rejected enqueue and a panic leave the references of the call behind
  (`driver/device.rs:1704`). Objects released after `device::destroy` put scratch on the free lists under
  a descriptor number that the next device may be given (`driver/weight_cache.rs:335` warns of the order).
* The planner does not bound all that the registers do, and the builder then panics in `Bits::new` inside a call
  from C: `max_tile_input_width` (`core/conv.rs:2849`) leaves rows of dense maps and of one slab unbounded, where
  `datain_width` (`hal/conv.rs:1564`) has 11 bits, although `core/admission.rs:394` says a wider `M` is split;
  strides above 7, images whose notch or surface stride exceeds its field, and explicit splits with 2^19 bytes
  of coefficients per kernel are the other classes of `Unprogrammable`. An explicit split of a shape whose columns were
  captured ends with `ROCKET_PLAN_INTERNAL` when a single row exceeds the data banks it leaves.
* int4 at 7x7 with 224 channels streams twelve banks of weights and gets eleven, which
  `unstarved_large_kernel_partition` (`core/conv.rs:3788`) says starves; `core/conv.rs:3811` measured it exact. The demand for data banks can wrap a u32, although
  `core/conv.rs:1490` says the check there lets the planner use plain arithmetic.
* Builders assert about shapes their callers accept: fp16 averages with a kernel of one, a pooling tile that
  lies wholly in padding, element-wise extents beyond 8192, table scales whose shift is negative.
  `driver/executable.rs:594` converts only the panic of `validate` into an error.
* The compiler writes, and the runtime refuses: an infinite scale of a table, int8 scales that are not
  positive, a static pool or matmul with a trailing word (a static convolution with one is accepted). A file that
  declares both trailing words is accepted.
* Comments that the code has outgrown: `core/weights.rs:579` (int8 groups are of 64 channels),
  `driver/command_buffer.rs:3833` and its two copies (element-wise dispatches do record and take cubes).

## 6. Not modelled

* The environment overrides of `core/policy.rs`, the characterisation switches of the builders and the
  diagnostic switches of the driver: the compiled path sets none of them.
* The 1026 entries of look-up tables, and the quantisation constants that only fill a field of their own
  width.
* The fused convolution-then-add and -then-table builders and the int8 element-wise add, which the driver
  does not call.
* The MLIR matchers and rewrites of the plugin (the shapes they admit are the inputs of `Admission`), and
  the generated FlatBuffers accessors: whether a table is well formed is one Boolean of a file.
* `rocket-compiler`: a sequential pipeline over files and processes with no state of its own.
* Profiler, CPU affinity, events and file I/O: no effect on what is computed or in which order.

## 7. Plan

The components the plan began with are modelled, and the theorems it named for the queue, the dispatch loop,
the weight cache, the command buffers, the lifetimes of objects, the planner and the executables are proved. What is left:

1. `NeverPanics` and `ProgramPlaced` for every descriptor: each command of a program fits its fields, from the bounds
   `PlannerInv` and `check_extents_against` give its operands.
2. `MeasuredNeverPanics` for every kernel, from `PanicInv` and a bound for each field of each chain.
