# TLA+ models of the wasm-benchmark harness

This directory keeps models of the parts of this repository that decide
whether a published number can be trusted: the driver that times a femtovg
frame across guest, host and GPU, the guest it drives and its imports in
seven runtimes, the app run and the scripts that collect its results from a
device, the M4 passes, the measurement loop, the native-object discipline of
the runtime adapters, the C interface with WAMR's one-time set-up, and the
workloads with the references they are compared with. The models are written
from the source; TLC checks them on small instances and TLAPS proves the
most important invariants for every instance.

    tlc -config MCMeasure.cfg Measure        # one of the runs below
    tlapm FemtovgE2e_proofs.tla              # one of the proof modules

`PROJECT.json` maps every definition to the source lines it stands for and
lists the runs, the mutants (a definition, and a plausible mistake in it
that makes a property fail), the hazards, findings and theorems.

## 1. Inventory

Seven runtimes (Pulley, WAMR, wasm3, WasmEdge, zwasm, wasmz, tinywasm) run
the same cases. Paths are relative to the repository's root;
`benchmark-core` stands for `crates/benchmark-core/src`.

| component | state it keeps | operations | interacts with | what is hard | correct when |
|---|---|---|---|---|---|
| femtovg E2E driver (`femtovg_e2e.rs`) | thread-local `HOST` (buffers, hash, rendered flag), pass and frame counters, GPU queue, frame records | `run_e2e_on_this_thread`, the import callbacks, encode, poll, read-back | the guest (calls both ways), the GPU (asynchronous) | a buffer or a submission of one frame seen in another; ways out in the middle of a run | each recorded frame is the one the guest drew, timed alone |
| app run (`BenchmarkContentView.swift`) | results, status label, running flag, idle timer; console | Run buttons, worker, blocks posted to the main queue | worker ⇄ main queue; console read by the launcher | order of posts; a second run | console and screen agree, the marker is last |
| device pass (`run-device-pass.sh`) | logs, attempt counter, the device's console process | `launch_once`, `run_launch`, the main loop | the app over a tunnel that may drop; the summary | retries and time-outs; jetsam kills | results are never lost, kills are results, every case has one row |
| pass summary (`summarize-pass.py`) | rows, seen and killed launches; tables | `load_device_logs`, `load_matrix_jsonl`, `load_pmu`, aggregates | reads logs and JSON lines | telling missing from killed; pairing two files | every row blamed on the right launch |
| C-API adapters (`wamr.rs`, `wasm3.rs`, `wasmz.rs`, `zwasm.rs`, `wasmedge.rs`) | native engines, modules, instances, guards | load, instantiate, call, drop; nineteen runners | C libraries with ownership rules | every fallible call in between | no use after free, no leak, no teardown in the measurement |
| Pulley and tinywasm adapters | Rust values | the same, and the fvg imports | the harness, the guest | little: the compiler drops them | as the other adapters |
| measurement harness (`lib.rs`) | a window's counters, samples | `pick_iters`, `measure_calls`, `measure_samples`, `Window`, `run_on_thread` | every adapter; kernel counters | other threads run and end between two readings | the report describes the timed calls and nothing else |
| case table and `run_matrix` (`cases.rs`, `bin/run_matrix.rs`) | a file of JSON lines | `run_case`, filters, the loop | the scripts, the adapters | crashes of the process | a wrong answer or a crash is never a number |
| M4 passes (`run-m4-*.sh`, `pmu_summarize.py`) | append-only files | a process, or capture, per launch | `run_matrix`, xctrace, the summary | reruns, attribution by thread name | a case's peak, instructions and counts are its own |
| C interface (`benchmark_core.h`, `lib.rs`) | a report's C string | a function per runtime and workload, `bench_run_case`, `bench_femtovg_e2e`, `bench_init_wamr` | the app, on two threads | the table repeated by hand; a string that changes owner | a call answers as the table says; every string is freed once |
| WAMR initialization (`wamr.rs`) | `INIT_OK`, three `Once`s, a fourth in the tests | `init`, symbol registration | every WAMR run, the tests' threads | first use from two threads; a failed set-up | a module is loaded into a runtime that is up and knows its imports |
| process accounting (`residency.rs`) | none | reads of kernel counters | the harness | — | — |
| sqlite3, graphql hosts | a few shims | one guest call each | Pulley and others | — | — |
| graphql-validation guest (`visitor.ts`) | traversal stack | enter, leave, break | — | mutation of the path while walking | visits each node as the reference does |
| femtovg guest (`femtovg-guest/src/lib.rs`) | display list, canvas, `LAST_COMMANDS`, linear memory | `fvg_init`, `fvg_frame`, the image and render imports | the driver, through one of seven bindings | one canvas replays a list for ever; memory moves; each binding reads arguments its own way | a frame is its scene; the host has what was flushed |
| component-model async guest (`cm-async-bench`) | a byte stream's two ends | waits, write, stall limit | the host | partial answers, a host that stops reading | no byte lost or repeated; ends, stalled or complete |
| patch series (`apply_patch_series.sh`) | a checkout | apply, detect, skip | git | interrupted series | idempotent |
| workload sources (`workloads-rs/*.rs`, the `*_reference` functions of `lib.rs`) | statics of an instance that is called again and again | one exported function or a few per module | the harness, which compares each result | results that depend on the calls before; relaxed instructions | every call gives the expected result |
| build, profiling scripts; docs, patches | — | — | — | — | inputs and tools, not logic |

The hazards list of `PROJECT.json` gives, per source line, what can go wrong
that a test would hardly reach, and the properties that would catch it.

## 2. Modules

Definitions named `Name_Fault` are `Name` with one plausible mistake; no
behaviour uses them. They are the mutants `PROJECT.json` lists.

### FemtovgE2e — one E2E run

`pc` is the position of the driver in `run_e2e_on_this_thread`, one action per
call that can fail or take time: `AcquireGpu`, `InstallHost`,
`InstantiateGuest`, `InitGuest`, `FirstMemPages`, then per pass and frame
`StartFrame`, the guest's own actions, `Encode`, `WaitSubmission`,
`RecordFrame`, and after the last pass `SampleUsage`, `SubmitCopy`,
`PollCopy`, `ReadBack`, `FinishReport`; every failure goes through `DropGuest` and
`UninstallHost`, the order of the drops. `host` is `HostState`: what
`fvg.render` copied, its hash and the rendered flag. The guest grows memory,
flushes any number of times up to a bound with any buffers, returns or traps.
`queue` is the GPU's: `GpuExecute` runs at any moment once something is
submitted, until `DeviceLost`, an external event of any moment. The two polls
have no time-out, so `WaitSubmission` and `PollCopy` go on only when the queue
has been executed, or fail when the device is lost; the `recv` after the second
is for a callback that only a poll runs (`AfterPoll`). `drawn` is a ghost: what the guest flushed last in each frame.
CPU time is a clock with two ticks per frame, one for the guest and one for
the encoding.

### DisplayList, FvgGuest — the guest of such a run, call by call

`FemtovgE2e` lets its guest flush any buffers; these two modules say which.
`DisplayList` is `load_scene`: `walk` flattens the parsed tree into draws,
clips and restores, with the opacities multiplied on the way down, a node per
step (`WalkGroup`, `WalkPath`, `WalkText`, `WalkReturn`); `walks` is its call
stack. A tree is the sequence of its nodes in document order. Next to it
stands what a frame should be, `PictureOf`, which knows nothing of clips,
restores or a stack: each visible path with the opacities and the clips of the
groups around it.

In `FvgGuest` a run has one of the seven runtimes. `fvg_init` builds the list
(`LoadScene`, the walk, `SetState`), `fvg_frame` starts a replay, `DrawItem`, `ClipItem` and `RestoreItem` do one
item each on the canvas (`stack` is its stack of states, `ops` what it has
recorded), `Flush` hands the vectors to `fvg.render`, `Return` is the driver's
test of the result. The canvas may allocate, update and delete images between
any two items, and linear memory may grow, and so move, at any moment. `arg`,
`memory` and `guest_span` are the bindings: where each finds its arguments,
where it takes memory to lie and which addresses it refuses.

### AppConsole, AppRun — a run of the app

`AppConsole` is the abstract specification: the console shows, per run, a
header, at most one line per row in order, a verdict computed over all of
them and then the marker. `AppRun` is the app: a worker (`Work(r)`) that
posts blocks to the main queue (`MainBlock` runs the oldest), prints its
lines, and the buttons. It implements `AppConsole` under
`Promise == INSTANCE AppConsole WITH ...`, checked as property
`KeepsPromise`.

### WamrInit, CaseTable, EntryPoints — the C interface and its callers

`WamrInit` is WAMR's process-wide state: `INIT_OK`, the runtime, the natives
registered, and four `Once`s, one of them the tests' own around
`wamr::init`. A thread is at one place of the code (`pc`), came for something
(`need`) and is at one `Once` (`of`): the first caller runs the closure, the
others wait, a closure that panics poisons. `wasm_runtime_init` may fail.

`CaseTable` has the catalogue of `cases.rs`, which cases have a reference,
the known crashes and `run_case`'s dispatch, and, row by row, the C functions
of `lib.rs` that do without it.

`EntryPoints` extends both. In the program `app` the main thread calls
`bench_init_wamr` at every start of a run, then the worker makes calls: any C
function, any argument pair of `bench_run_case`, any femtovg call. A call is
declined, goes through WAMR or another runtime, ends right, wrong or failed,
becomes a report (`ReportFrom`, `LineFrom`, where a C string may leave Rust),
and `Format` frees the string and stores the report without it. In the
program `tests` every thread comes to WAMR on its own.

### DevicePass, PassSummary — collecting results from a device

`DevicePass` is `run-device-pass.sh` in its workload-list mode: for each rep
and runtime a launch with the heavy rows excluded and one launch for each
group of them, or a single launch; for each, `launch_once` (truncate the log,
start, poll for the marker, time out, terminate) and `run_launch`'s retries.
The app prints its rows through a pipe the log receives; the device
may suspend it, kill it or drop the tunnel at any moment. `PassSummary` is
`load_device_logs`, a function of the logs: the rows of a (rep, runtime), and
for each missing one the launch it is put down to.

### AdapterRecipes, AdapterLifecycle, AdapterDiscipline — native objects

`AdapterRecipes` gives each of the nineteen runners of the five adapters as
the sequence of steps the Rust code takes: create, guard, hand over, use,
free, start and stop of a meter, repetition. `AdapterLifecycle` executes one:
each fallible step succeeds or returns, and a return releases the guards
in the reverse of the order they were taken. `Needs` are the ownership
rules of the C APIs (a module reads its bytes, an instance its module, ...), an
external assumption.

`AdapterDiscipline` looks at a recipe without executing it. `Context(r, i)` is
what is known before step i of runner r, whatever was repeated or failed: the
states each object may be in, who owns it, which guards are in scope, what is
being measured. `Allowed` is what a step may rely on there: it creates only
what is not there, uses only what is there for certain, frees nothing twice and,
where it may fail, leaves with a `Releasable` plan, which for a careful runner is
also `Complete` and `Ordered`.

### Measure — one measurement

The four loops (`measure_calls`, `measure_samples`, Pulley's graphql loop with
one warm-up, sqlite3's single call) differ in their warm-ups and in how `n`
is chosen. `Size` is `pick_iters`. `Window::start` and `finish` read two
kernel counters in two calls each, in an order the code chooses;
`OpenWindow` and `CloseWindow` are one reading per step, and `OthersRun` and
`ThreadEnds` may come in between: `thread_times` sums the live threads only.
A call has CPU time and time off the CPU; a sample also the time of dropping
its instance, which is outside its clock but inside the window. `Finish` is
the report: ranks in the sorted samples and saturating differences.

### MatrixPlans, Matrix — the passes on the M4

`MatrixPlans` has the launches the three scripts make. `Matrix` is
`run_matrix` under one of them: which cases a launch selects (`Hits`,
`Selection`), the known crashes, the thread a case runs on, the expected
result, the counters around it, and the JSON lines. Work is a unit per case
that ran, with the thread it is counted for. In the PMU pass a capture
becomes one line per thread name. The script may be started again on the same
directory (`Again`), since every file is appended to. `Counts` and
`Instructions` are how `load_pmu` pairs the two files.

Both `PassSummary` and `Matrix` filter sequences with `Among` of `Lists`, and
not with `SelectSeq`, whose recursive operator nothing can be proved about.

### Words, Kernels, DispatchKernels, SimdKernels, AudioKernel, References, Workloads — what is measured

The thirteen Rust workloads as functions of their statics and their argument,
on machine words of `WORD` bits, bytes of `BYTE` bits and floats of
`MANTISSA` significant bits (`Words`; `Xor`, `And` and `Or` are operations on
the sets of a word's one bits). `Kernels` has fib to bulk_memory,
`DispatchKernels` the indirect calls and the digests behind vtables,
`SimdKernels` the matrix products and the relaxed kernels, parameterised by
what a runtime chooses for the relaxed instructions, `AudioKernel` the synth.
`References` are the host's `*_reference` functions, which `runwasm` and
`runwasm-compare` compare with. The app and `run_matrix` compare with the
`EXPECTED_*` constants, recorded once by agreement of the runtimes at one
argument per case; their values are not modelled. `Workloads` is one
instance of one module, called again and again (`Call`) with any of its
arguments, as the measurement loops call it: the statics stay (`InstanceSpec`).

### CmAsync — the component-model async guest

One action per await: `WaitReturns`, the host's answers to a write
(`AnswerComplete(n)` for any part of it, `AnswerCancelled`, `AnswerDropped`),
`Handle` for the guest's loop body, `DropWriter`, and `Join`, which also waits
for `write-via-stream`. The reader may go away at any moment.

### How they fit

`EntryPoints` composes `WamrInit` and `CaseTable` with the app's two threads;
`FvgGuest` extends `DisplayList`; `AppRun` refines `AppConsole`; `EntryPoints`
refines `WamrInit` (every step is one of its steps or leaves it alone, which
is proved). `FemtovgE2e` and `FvgGuest` are the two sides of one
run: the first has every driver step and a guest that flushes anything, the
second every guest step and a driver that only calls in order.

## 3. Runs

| run | shows |
|---|---|
| `e2e_frames` | frames, counts, texture and report are those the guest drew in the measured pass; the GPU never overlaps the guest; HOST outlives it; the run ends |
| `fvg_calls` | every frame is its scene, whatever was clipped before it; the host takes a flush whole or not at all; canvas and replayer hold the same images, on all seven bindings with memory moving |
| `app_runs` | the app refines `AppConsole`; the screen agrees with the console; one worker, with the device awake; every run ends |
| `entry_points` | modules are loaded into a runtime that is up; in the app main sets WAMR up; every C function answers as the case table does; strings have one owner; calls return |
| `pass_logs` | no retry loses a result or a kill; a marker means a complete log; one row per case; kills are reported and explained; the pass ends |
| `adapters` | no use of a dead object, no double free; for the fifteen careful runners no leak on any failing path and nothing but calls in the measurement |
| `measure_window` | iteration counts, statistics and CPU accounting; it also evaluates that every runner that measures keeps to `AdapterDiscipline` |
| `m4_passes` | no wrong answer published; known crashes cost no row; peaks, instructions and PMU counts are the case's own |
| `workloads` | results do not depend on earlier calls and equal the host's references, those `runwasm` and `runwasm-compare` use; the references are the functions they are named for; relaxed kernels have one result |
| `cm_stream` | no byte is skipped or repeated; every rep ends |
| `pass_retry`, `wasm3_bytes` | findings 1 and 2 |

Bounds, and why they are enough:

- **E2E**: two passes of two frames (a warm-up frame, a first and a later
  measured frame), two vertex arrays and two command streams of different
  lengths (any mix-up of two buffers shows), two flushes per frame, two pages. No
  pass asked for, or one, where warm-up and measured pass are the same, is left to
  the theorems, which hold for every `Passes`.
- **Guest**: two scenes with clips nested, side by side and empty, hidden,
  patterned and text nodes among the paths; four frames of a pass of three (the
  schedule wraps); one image; three pages with the third above 2 GiB (`HighPage`),
  where the bindings differ. Embedded scenes stay far below it.
- **App**: three rows (first, middle, last), two runs, list and E2E modes.
- **Entry points**: two threads of the app and a third for the tests; two
  addresses for strings (a second owner shows as a second string).
- **Device pass**: one rep, two runtimes, one split with one heavy group and
  one not, two cases, three attempts (the code's number), two polls. Launches of
  different reps share nothing but the summary, which keys on the rep.
- **Adapters**: all runners; two repetitions (first and later sample). That no
  more are needed is proved.
- **Measure**: a cap of three iterations, so that the cap, the budget and the
  single long call all decide; calls of 0 and 2 ticks of CPU, 0 and 1 off it;
  one tick for the other threads, enough to fall between any two readings.
- **Matrix**: two reps or modes, two runtimes (one that moves to a thread of
  its own), four cases with one id contained in another, one heavy, one
  without reference; one listed crash, one unlisted, one panic.
- **Workloads**: words of eight bits, so that sums and products wrap and both
  signs occur; buffers of a few bytes with at least two rounds, rows or voices;
  six seeds, zero, the most negative word and -1 among them. A property of
  statics needs two calls; any sequence of them is explored.
- **Async**: two reps, three chunks of three bytes, a stall limit of two: every
  split of a chunk, and progress between two idle answers.

Deadlock is checked everywhere except in `entry_points`, where a test whose
thread panicked, or all of whose threads did, is left where it is.

### Fairness

- `FemtovgE2e`: weak fairness of the driver thread, which the system
  schedules; of the guest's return or trap, that is, a frame of the guest is
  finite; of the GPU, which gets through its queue unless the device is lost.
  The loss itself is not assumed, so it is not what ends a wait: `RunEnds`
  depends on every poll being for work that was submitted and does execute, and
  on `recv` finding its callback run. Without fairness of the GPU, or with a
  poll that never returns, TLC finds it violated.
- `AppRun`: the main queue and each worker are scheduled. Nothing is
  assumed of the user.
- `EntryPoints`: each thread goes on inside the code, and a runner comes
  back. When the next row or run begins is up to the caller.
- `DevicePass`: only of the launcher, a script whose polls are timed.
  Nothing is assumed of the device, the app or the tunnel: `PassEnds` holds
  although an app may be suspended for ever.
- `CmAsync`: the guest goes on, and the host answers every wait and every write
  sooner or later, if only with nothing accepted. This is more than the
  doc comment at the head of `lib.rs` grants: see the observations below.
- `Measure`, `Matrix`, `AdapterLifecycle`, `FvgGuest`, `Workloads`: safety
  only; they are sequential and stop only where a call never returns.

## 4. Proofs

`FemtovgE2e_proofs` (for any passes, frames, buffers, flushes and pages):

- `TypeCorrect`: the type invariant.
- `CoreAlways`, from which `HostAlwaysOutlivesGuest`: `CoreInv` is `TypeOK`
  with `HostSpan` (at which stages HOST is installed and the guest exists),
  `Counters` (where pass and frame counters stand) and `CopiesAgree` (the
  hash, vertices and commands in the host state are of the same flush, the
  last one taken).
- `GuestAlwaysAlone`: with `QueueIdle`, nothing is submitted outside the wait
  stages and the ways out.
- `FramesAlwaysDrawn`, `CommandCountsAlwaysMatch`, `ReportAlwaysCovers`:
  `FrameInv` adds the lengths of the records at each stage (`Lengths`), the
  relation of the frame under way to the host state (`UnderWay`), and the
  clock (`ClockRead`). The plain properties are not inductive: at the step that
  records a frame they need to know that the host state is still that of the
  flush the frame was drawn from.
- `ReportAlwaysOfTheRun`: `TextureInv` says what the texture holds while the
  last frame is encoded, waited for, copied and mapped (`OnTexture`: it is
  that frame's picture or will be when the queue is empty), that `maxPages` is
  the largest page count seen so far (`PagesSeen`), and that a finished report
  keeps both (`ReportKept`).

`Harness_proofs` is about what a case runs in, `Measure` and the adapters.
About `Measure` (for any budget, cap, durations and other threads):

- `PickItersBounds`, `IndicesInRange`: the arithmetic of `pick_iters` and of
  the percentile indices.
- `AlwaysSizedToBudget`, `WarmupNeverCharged`, `TimedCallsAlwaysCharged`,
  `CpuAlwaysTheTimedCalls` (both together) and `FastAlwaysWithinCpu`, from
  `AccountInv`: `BeforeWindow` (what was spent before the window is in the
  opening reading or has ended), `InsideWindow` (while no thread ends, the live
  sum grows by the timed calls) and `Nested` (P-core time since its opening
  reading is at most CPU time since its own, which is earlier, and the closing
  readings come in the other order).
- `StatisticsAlwaysDescribe`: a report's minimum, median and 99th percentile
  are those of its samples, in order. `Ranked` chooses a sample by counting
  those below it; that there is one to choose (`RankedIsASample`) is shown from
  the least value with more than k samples up to it, which exists because a
  non-empty set of naturals has a least member, and it is `AlwaysTyped`'s reason
  for a report's statistics to be numbers.

About `AdapterLifecycle` (for any number of repetitions and whatever fails), from
two assumptions about the recipes that `measure_window`
evaluates for all nineteen: `NeedsAssumption`, that `Needs` speaks of handles, and
`DisciplineAssumption`, that every runner keeps to `AdapterDiscipline`. It fails as
soon as one of the four runners left out of `Careful` is put into it.

- `RunnersAlwaysForeseen`: `AsForeseen` says that a runner at a step finds what its
  recipe foresees there, and that on its way out the rest of its plan is
  releasable and, for a careful one, complete and ordered. A step that goes well
  does what `After` says (`Onward`), a repetition arrives where the context
  allows for it, a failing step and the return leave with a plan that suits the
  objects as they are (`PlanSuits`, `Leaving`), and releasing the first of a plan
  leaves a plan for the rest (`ReleaseNextKept`): what it takes along is in no later
  place, and what needed an object went no later than the object.
- `UsesAlwaysLive`, `DependenciesAlwaysOutlive`, `NothingEverLeaks` and the action
  property `TeardownIsNeverMeasured` follow, each from what a step may rely on.

`EntryPoints_proofs` begins with `WamrInit` (for any set of threads):
`ModulesAreServed`, from `WInv`. What
is to be shown of a loading thread is not inductive: `WInv` says of every
place of the code what the `Once` in front of it has established, that at most
one thread is inside the first `Once`, and that `INIT_OK` is the runtime's state
once it is done.

Then come the C interface and its callers: `UsesWamrAsItIs` is the refinement `Spec => WSpec`, by which
`ProgramIsServed` carries `LoadsAreServed` over. `StringsAlwaysOwned` rests on
the worker's turns (a report exists only between `Report` and `Format`).
`MainAlwaysInitsWamr` needs that in the app the worker enters WAMR only after
main has left its first `Once` (`Settled`), which then stays done.
`RowsAlwaysFollowTable` is carried by `FunctionsAsTable`, that every one of the
C functions, each with its own runtime and workload, compares its result exactly
when the table has a reference for it and skips the known crashes; `RowsInv`
then follows a call from `PickRow` to the result on its way to the screen.

`AppRun_proofs` (for any number of rows and runs): `AppKeepsPromise` is the
refinement `Spec => KeepsPromise`, `ScreenAlwaysMatches` and `OneWorkerAlways`
the two invariants of the run. What reaches the screen has been in the main
queue, and what the queue holds was decided by a worker that is rows ahead, so
none of them is inductive. `AppInv` numbers the blocks of a run: `Lockstep` says
that the queue holds consecutive ones, the first where the screen is and the last
where the worker is; `Contents` that the run's rows on the console are those on
screen, in the queue and in the worker's hands; `Turns` and `NoRows` whose turn it
is and what a femtovg run leaves out. The finish block therefore is alone when it
is run (`TheLastBlock`), which is why the verdict is over every row. Each
`Seen...` lemma maps one action to a step of `AppConsole` or to none.

`Guests_proofs` is about the guest programs: `FvgGuest`, `CmAsync`, and below
them `Workloads`.

For any scenes that are trees, frames, images and page counts, and each of the
seven bindings:

- `ImagesAlwaysAgree`, from `ImageInv`: the canvas's images are the replayer's
  once the commands recorded since the last flush are applied.
- `HostAlwaysHasTheFrame`, from `HostInv`: an argument, a slice or a cached span
  the host holds reaches the buffers of the flush under way, wherever memory has
  moved to meanwhile (`FlushReaches`).
- `FrameIsAlwaysTheScene`: what a frame draws is `PictureOf` its scene. It has
  three parts. The walk: `WalkInv` says that the calls of `walk` under way are
  those of the groups around the next node (`WalkIsAround`), so the clips it has
  open are the ones `PictureOf` counts. The list: `ListInv` says that the list so
  far, replayed on a fresh canvas, draws the picture of the nodes so far
  (`DrawnIsThePicture`) and leaves the canvas in the states of the open clips
  (`Levels`), so when the walk has ended the clips are all restored (`WalkEnds`).
  The replay: `DrawInv` says that after k items the canvas is where k items of the
  list bring a fresh one, which holds only because the canvas starts every frame
  without what an earlier one left. Replaying is a recursion; `Replays` says
  instead that there is a sequence of canvas states, the first fresh and each the
  next item's, and `PictureSteps` and `InOrder` do the same for the picture, that a
  set of numbers can be listed in order in one way only.

For any chunk size and count, stall limit and reps of the async guest:
`NothingEverSkipped`. The invariant `Progress` says where the writer stands: at
byte `buf` of chunk `chunk` it has had `chunk * CHUNK + buf` bytes accepted; the
lemmas `Division` and `Offset` turn that into the position of the next byte.

For any word width, buffer sizes, arguments and sequence of calls of a workload
instance:

- `UsedInstancesAlwaysAgree`. The property is not inductive: it says nothing of the
  statics the next call reads. `StaticsInv` does: the sieve's flags are as many as
  at first, what no convolution and no bulk copy or fill ever writes is still
  zero, and the relaxed kernels' operands are those of the seed kept beside them
  (unless that is the seed of a fresh instance). `ResultAgrees` then has a case per
  export: the recursive fib and fib_tail are the host's iteration
  (`FibIsReference`, `TailIsReference`), crossing out reads and leaves nothing above
  n (`SieveIsReference`), an image or a bulk round covers every place it does not
  leave zero (`BlurIsClean`, `BulkIsClean`), a lane of a product is a column
  (`ProductsAgree`). For factorial, crc32, call_indirect and audio_dsp the two
  computations are the same expressions, and the case says that the statics they
  are given are not read before they are written.
- `RelaxedChoicesAlwaysAgree`, from `ResultsDrawn`: a result is that of operands drawn
  for its seed. `DotsAgree` says that the choices do not show on drawn operands of
  the dot product: a byte times seven bits, twice, fits the 16-bit sum
  (`PairsFit`), and seven bits are the same signed and unsigned. `MaddsAgree` says
  the same of the polynomials: with points up to 3 and coefficients up to 4 each
  step of Horner's rule is an integer below 2^MANTISSA (`MaddBounds`), which
  rounds to itself (`RoundExact`).

The loops are folds (`For`) over an operator, which a lemma cannot take as a
parameter. `StepOf` lists their steps by name; `LoopRuns`, `LoopContinues` and
`LoopsAgree` are proved once, of `LoopOf`, and a lemma per loop (`SieveLoop`,
`BulkLoop`, ...) shows it to be one of these. Induction is over the set of the
numbers of iterations for which a statement holds.

Assumed there: the sizes are natural numbers; `PowersOfTwo` and `PowersOfThree`, the
definition of a power, which the provers do not have; and of the
constants of relaxed_kernels.rs, 2 * 3^(DEG + 1) <= 2^MANTISSA (in the source
39366 against 2^24).

`Lists_proofs` has what the proofs about sequences need: what `Among` and
`FlattenSeq` give for every argument (`AmongMembers`, `AmongAppend`,
`FlattenMembers`, ...). The library's induction theorems take an operator as a
parameter, which the provers cannot instantiate; the lemmas here do induction over
sets instead (`Induction`: a set that has 0 and with i also i + 1 has every
number up to N), from the fact that < is well-founded on the naturals, and
`RecursionExists` shows that a function defined by recursion up to N exists.

`DevicePass_proofs` (for any reps, runtimes, needles, catalogue, number of polls):

- `LogsAlwaysAgree`: `Inv` is `Typed` with `Places` (where launcher, attempt and
  console stand), `LogsAgree` (a log has the filter line first, then a prefix of
  the rows its launch was to run, and the marker only after all of them) and
  `Stream` (what the app wrote and the console has not delivered yet continues
  the log). `MarkerMeansComplete` alone is not inductive: the marker is on its
  way through the console long before it is in a log.
- `MarkerAlwaysComplete`, `KillsAlwaysExplained` and the action property
  `RetriesNeverLose` follow. `Launch` truncates a log only when the attempt before
  left it without rows and without a kill, which `Places` keeps from `Judge` on.
- `EveryCaseAlwaysOnce` assumes `NeedlesApart`: no case is named by two needles of
  `HEAVY_ROWS`. It rests on `LaunchesMembers`, that the launches of a pass are
  those of its reps and runtimes, each once, and on `CoveredOnce`, that no
  two launches of a (rep, runtime) run the same case.

`Matrix_proofs` (for any runtimes and cases, whatever the cases come to, any
number of starts) assumes `M4Plans`: the plan is the timing, the memory or the
PMU pass of `MatrixPlans`.

- `TimingIsWell`, `MemoryIsWell`, `PmuIsWell`: what the three plans have in common
  (`WellPlanned`). `PmuMembers` says that every capture is made exactly once; with
  disjoint groups a case then runs in one capture of a mode and a runtime.
- `FilesAlwaysAgree`: `Inv` says which cases the process has worked for and on which
  threads (`Process`), that the case under way has all its work behind the
  counters' first reading (`AtCase`), what a line says for good and, while its
  process lives, that it has all the work of its case (`LinesOk`), that a
  captured thread has what the line of its case has (`CapturedOk`), and that the
  lines of the process and the cases still to run are its selection, in order
  (`InOrder`).
- `CrashesAlwaysNew`, `LinesAlwaysTheCases`, `RatioAlwaysOfOneCapture` are the three
  properties of the run. The last is about two files joined afterwards by
  runtime, case and mode; it needs that the two lines that count are of one launch.

Each proof has one step per action; the record updates are lemmas of their
own. The assumptions are the named `ASSUME`s of the modules, which TLC evaluates on
every run: sizes are natural numbers, `Nobody` is no thread, main and worker are
two threads, `NULL` is no address; runtimes are listed once (each has files, or a
capture, of its own name), the ids of `CASES` differ, and the PMU pass's first
group has a case (an empty `WORKLOADS` would select all); the scenes are
trees (`ScenesAssumption`); and the recipes keep to the discipline. Of the two hypotheses
that are not `ASSUME`s, `M4Plans` holds in `m4_passes` by the choice of `Plans`,
and `NeedlesApart` of the default `HEAVY_ROWS`, no label having two of its needles.

Only model-checked: liveness and `ENABLED`, which the provers do not do;
`ReferencesAreRight` of `Workloads`, that the references compute Fibonacci numbers,
primes, a CRC and the last writes, which is number theory and polynomial
division over loops whose mathematical sides are recursions of another shape; and
that the recipes, which are fixed data, keep to their discipline.

## 5. Findings and observations

Each finding is a run that TLC refutes, a disagreement between the code and
what the repository says of it.

1. `pass_retry`: a launch that timed out without output and was terminated by
   the launcher itself leaves a SIGTERM line, which `run_launch` takes for
   an OS kill and does not retry.
2. `wasm3_bytes`: in the generic wasm3 runner the bytes drop before the
   runtime that holds the module pointing into them.

Observations, made while modelling, that qualify what the properties say:

- A heavy row whose own launch merely dropped is put down to a killed main
  launch, although that launch had excluded it (`summarize-pass.py:145`): its
  premise in `KillsAreExplained` is that every launch that was not killed
  completed and every killed one got as far as its filter line.
- The generic WAMR runner frees its execution environment, instance and module
  inside the window (`wamr.rs:199-205`), so their CPU time is charged to the
  case; a trap returns past that clean-up. It is one of four runners left out of
  `Careful`. The others: `wasm3_generic` (finding 2), `zwasm_guest` (`MEMORY` is
  left pointing into freed exports when a later lookup fails; the next
  `guest()` overwrites it before it is read), `wasmedge_generic` (objects leak
  on failures before their ownership passes).
- The number of timed calls is fixed in advance from one warm-up, so the timed
  work can end before `BENCH_TARGET_MS`.
- A process that dies leaves the M4 CSV without its remaining rows, which no
  table shows as missing.
- `RatioOfOneCapture` is stated for a PMU pass started once on its directory.
  Started twice, a case that fails the second time has the counts of the second
  capture divided by the instructions of the first.
- The window's CPU time and instructions of `InstantiateEach` and Porffor
  samples include the teardown that only the wall clock of a sample leaves out
  (`DropsOf`); a thread that ends inside the window takes its CPU time out of
  the sum (`TimedCallsAreCharged` is stated without one).
- The stall limit of `cm-async-bench` counts answers. A host that never answers
  a pending write hangs the phase (`lib.rs:88-92`); the comment at the head of
  the file speaks of a host that stops draining. `PhasesEnd` assumes answers.
- The tests call `wamr::init` from libtest's threads, although
  `wamr.rs:79-81` asks for the main thread; `MainInitsWamr` is about the app.
- Pulley's `bench_run_graphql_validation_as` has an engine of its own while
  `run_case` sends `graphql_as` through `run_workload`; the reports agree.
- `vtable_*`: a seed near -1 wraps inside the loop and does not go on with the
  rotation over six algorithms, 2^32 not being a multiple of 6.
- A seed of `i32::MIN` makes `relaxed_dot` and `relaxed_madd` take the zeroes of a
  fresh instance for filled operands; no case uses it, and the properties
  leave it out.
- `matmul_fma` equals its reference only on a runtime that fuses, and `sieve`
  its own only up to the module's buffer: `Comparable` says so.
- A pointer from 2 GiB on is refused by six bindings as negative and read by
  tinywasm's as unsigned, which then traps where the others skip a span out of
  range.

## 6. Assumptions and what is not modelled

- Texts, labels and error messages are abstract. Appending a JSON line, or
  printing a console line, is one step. Times are ticks; the truncation of
  CPU times to microseconds is left out.
- `PassSummary`: the needles of the heavy groups are disjoint (`NeedlesApart`);
  overlapping ones would report a case twice (`EveryCaseOnce`).
- `AdapterRecipes`: calls whose NULL results the code does not check and that
  fail only when memory is exhausted do not fail (wasmz linker and store, the
  guest objects of WasmEdge); `CString::new` on constant names does not fail.
- `Matrix`: a case counts its work on one thread; its launches name one
  runtime, as those of all three scripts do. In the model a process that
  is to crash on a listed case never runs it, as in the code.
- `FvgGuest`: femtovg's canvas and the replayer are crates outside the
  repository; the canvas keeps a stack of states that `reset` leaves alone and
  whose last state `restore` resets, and may call any image import whenever it
  draws. A vector or an image lies in one page.
- `WamrInit`: `Once` is the standard library's. What `wasm_runtime_init` sets up is
  up or down.
- `Workloads`: constants of the source are taken modulo 2^WORD and sizes are
  parameters; the floats are fixed-point numbers rounded to `MANTISSA` bits,
  which keeps whether a result is exact. The arguments of fib are naturals.
- Not modelled: how the replayer decodes a display list, and the replay-only
  mode; E2E launches of the device pass and a `WORKLOADS` filter given by hand;
  the E2E and component-model parts of the M4 pass; page faults and footprints as
  numbers; the tables and statistics of the summary; WASI and print shims;
  the generated feature modules and third-party players; and the components
  `PROJECT.json` lists as not modelled, each with its reason.

## 7. What would come next

In order of what it would show:

1. The rest of `summarize-pass.py`: aggregates, relative and coverage tables
   as functions of the rows, against a reference definition.
2. `DevicePass` in its E2E mode and with a filter, composed with `AppRun` as
   the program it launches.
3. `FvgGuest` as the guest of `FemtovgE2e`: the composition of the two sides of a run,
   and from the theorems about each that a run's texture is the last frame's scene.
4. The feature modules of `workloads-wat/gen.py` against `reference.py`.
5. `GraphqlVisitor`: the traversal of `visitor.ts` against a reference walk.
