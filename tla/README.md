# ParallelPix in TLA+

ParallelPix prepares batches of product images (centre crop, bilinear resize,
effects, watermark) with three interchangeable back ends - Sequential, OpenMP
and CUDA - and benchmarks them against each other. A command line program runs
a matrix of experiments and writes a CSV; a Streamlit dashboard starts that
program and reads the CSV. This directory holds TLA+ specifications of the
program, the TLC runs that check them and the TLAPS proofs about them. Paths
below are relative to the repository.

- [Inventory](#inventory): the parts of the system, their state and hazards
- [Plan](#plan): what is specified, in which order, and what is left
- [The modules](#the-modules): how states and actions correspond to the code
- [Runs](#runs): what TLC checks, with which bounds
- [Fairness](#fairness)
- [Proofs](#proofs): what holds for every value of the constants, and why
- [What is left out](#what-is-left-out)
- [Findings](#findings)

## Inventory

### The command line program (C++)

| Part | State it keeps | Operations | What makes it correct |
|---|---|---|---|
| **M2 parser** `src/cli/cli_parser.cpp` | the options seen | `parse_cli` | accepts exactly the documented requests: required options once, a thread list when OpenMP is asked for, a batch list when CUDA is, 2 warm-ups and at least 5 repetitions or a cold start with 0 and 1 |
| **M2 planning** `src/planning/benchmark_plan.cpp` | none | `build_benchmark_plan` | no experiment twice, Sequential present and first when another back end needs a baseline |
| **M2 controller** `src/controller/controller.cpp` | none | `run_cli` | the exit code says what the result file holds |
| **M2 pipeline** `src/pipeline/benchmark_pipeline.cpp` | the executors | `execute` | registers Sequential, OpenMP and, when given one, CUDA |
| **M7 runner** `src/benchmark/runner/` | catalog, frozen sources, availability, baselines, rows, summary; per experiment: batch, effective CUDA batch size, validation columns | preflight checks, `run_benchmark_plan`, `measure_experiment` | every experiment counted once; a speedup only beside a validated baseline; independent experiments survive each other's failures; outputs from one fixed choice of sources |
| **M7 validation, statistics** | none | `validate_batches`, `summarize_samples` | largest channel error against the tolerance, shapes first; median of the samples |
| **M7 reporting** `src/benchmark/reporting/reporting.cpp` | the CSV file, a temporary file | `validate_csv_destination`, `write_benchmark_records` | header and old rows survive an append, a failure leaves the old file |
| **M3 catalog, decoding** `src/io/catalog`, `src/io/decode` | none | `scan_catalog`, `load_batch`, `decode_image`, `decode_watermark` | the first decodable files in name order |
| **M3 PNG output** `src/io/encode` | files, temporary files | `prepare_output_directory`, `write_png` | a PNG is replaced whole or not at all, `FailIfExists` never replaces |
| **M4 common steps, Sequential** `src/common`, `src/sequential` | none | crop, resize, effects, `process_batch`, progress every 10 images | the crop lies inside the image; progress ends at the total |
| **M5 OpenMP** `src/openmp` | per-image results, `ProgressTracker` under a mutex | `process_batch` by images or by rows | same pixels as Sequential under every schedule; rows finished before the watermark; progress in order |
| **M6 CUDA** `src/cuda` | device and host buffers and their capacity, buffered progress | reserve, pack, copy, launch, copy back, one retry at half the batch | each chunk's results go to its own images, a retry repeats nothing, buffers never exceed the device |

### The dashboard (Python, `src/tools/parallelpix_dashboard`)

| Part | State it keeps | Operations | What makes it correct |
|---|---|---|---|
| **M1 running the CLI** `runners.py`, `results.py`, `lifecycle.py`, `trajectory.py`, `page.py` | session state, the shared CSV, sidecar CSVs | read run ids, start the process, read run ids again, keep the new ones, append trajectory and life-cycle rows | a session shows the run it started; a sidecar has one header; an exit code other than 0 and 2 is a failure |
| **M1 form** `models.py`, `validation.py`, `sidebar.py` | form values | build and check the command line | only requests the parser accepts |
| **M1 presentation** `charts.py`, `views.py`, ... | none | drawing | - |

**M8** (hybrid CPU/GPU) is a design document without code.

### How the parts interact

`run_cli` parses, builds the plan and calls the pipeline, which calls
`run_benchmark_plan` on one thread. The runner calls an executor through
`IBackendExecutor::execute` and waits for it. Its other partners are files: the
input directory, which it scans again in every repetition; the PNGs, which it
writes and decodes again, and which the validation of OpenMP and CUDA takes
from the earlier Sequential experiment; and the CSV, which it replaces once at
the end. Nothing locks any of them, so other programs - a second run, the
dashboard, a person with a file manager - may change them between any two
steps. OpenMP uses threads inside one `execute`, CUDA a device. The dashboard
runs the program as a child process and reads the CSV before and after.

### What is hard here

- Decisions made once and used much later: sources frozen in preflight,
  availability asked once, a baseline's PNGs read again in every repetition.
- One step of many failing: a dozen ways out of `measure_experiment`, each of
  which must be counted once; a CSV write that fails after everything else
  succeeded; a PNG directory half replaced.
- Configuration that changes on the way: CUDA halves its batch size when
  memory is short, which changes directory and row.
- Unlocked files shared by processes: appends to one CSV, temporary files
  after a crash, sidecar headers, run ids of two sessions.
- Threads and a device: schedules, the implicit barrier between two loops,
  buffers reused from chunk to chunk, a retry after partial progress.

`PROJECT.json` lists these hazards one by one, each at its line, with the
properties that would notice it going wrong. Two have none, with the reason
there: two CUDA rows that share a directory after a fallback, and a run of
failed validations that exits with 70 although it wrote its rows. In both the
code behaves as it is meant to.

## Plan

Written, in this order, because a run's trustworthiness depends on it most:

1. `BenchmarkPlan` - the experiment matrix.
2. `BenchmarkRunner` - the whole of the runner and its environment.
3. `Controller` - the exit code; composes with the runner by extending it.
4. `Batch` - what a back end promises the runner, abstractly. `CpuBatch`
   (Sequential and OpenMP) and `CudaBatch` are the detailed back ends; each
   implements it by a refinement mapping.
5. `CsvReport`, `PngOutput` - the two kinds of files the program replaces, with
   several writers, crashes, a failing disk and other programs.
6. `Dashboard` - sessions over one CSV; extends `CsvReport`, whose processes
   they start.
7. `CommandLine` - the form and the parser; extends `BenchmarkPlan`.
8. `Pixels` - the pure algorithms on sizes and pixels, in words that wrap.
9. Theorems: `BenchmarkProofs`, `MeasurementProofs`, `CpuProofs`, `CudaProofs`,
   `CsvProofs` (with the dashboard), `PngProofs`, `PixelProofs`, `CommandProofs`.

Left, in the order of what it would add: an abstract contract of a run (each
experiment a success, a failure or a skip; one report) that `Controller`
refines; the median of M7 as a pure algorithm; the dashboard's demo runner and
trajectory sidecar. Every safety property that a passing run checks is a theorem.

## The modules

Operators marked *Faulty* are plausible bugs; no specification uses them. They
show that each property of a passing run notices some bug.

### The benchmark: `BenchmarkPlan`, `BenchmarkRunner`, `Controller`

`BenchmarkPlan` translates `build_benchmark_plan` as pure operators. An empty
`std::optional` is 0, which the parser accepts for neither list.

`BenchmarkRunner` is `run_benchmark_plan` and `measure_experiment`. The process
is a program counter `pc`; one action is the code between two points where
another program may act:

| Action | Code | `pc` |
|---|---|---|
| `ValidateCsvDestination` ... `LoadPreflightBatch` | the preflight checks, each of which may fail the whole plan | `csv` to `load` |
| `QueryExecutors` | availability and run metadata; the random device may throw | `executors` |
| `SkipUnavailable`, `SkipWithoutBaseline`, `StartExperiment` | the top of the loop and the first `load_batch` of `measure_experiment` | `next` |
| `WarmUp` | one round of the warm-up loop | `warmup` |
| `ScanInput`, `ReadInput`, `Execute`, `WriteOutputs`, `Validate` | one repetition | `scan` to `validate` |
| `Summarize` | medians, the row, the outcome, the baseline | `summarize` |
| `WriteReport` | the CSV and the summary | `next` after the last experiment |
| `EditInput`, `EditOutput` | other programs | any |

State: `plan`, `catalog`, `expected` and `executors` are the variables of
`run_benchmark_plan` fixed before the loop; `k` is the loop's position, `cur`
the locals of `measure_experiment`, `baseline` the keys of
`sequential_compute_by_count`, `records` and `summary` what it accumulates,
`input`, `files` and `csv` the file system.

Abstractions of data, none of control:

- A decoded image is the version of its file's contents; a processed image is
  that version and the largest channel error of the back end that made it,
  with Sequential defining error 0. An `altered` PNG has other pixels, a
  `resized` one another shape; a PNG that no longer decodes is one that is gone
  (`decode_paths` fails either way).
- Files are numbered in the name order `scan_catalog` sorts them by, so a set
  of numbers stands for a list of paths. Output names carry the position and
  the name of the source, which for a frozen choice of sources is its number.
- Times are left out. Their one effect, a median that is not positive, is a
  choice in `Summarize`. A speedup is empty, `one` or a `ratio`.
- The effective CUDA batch size is the requested one or half of it; the cap
  by the device's grid is left out, as it only makes the first smaller.
  `CudaBatch` has the details.
- An exception inside `measure_experiment` is caught and counted as `Internal`;
  the model raises it where an executor returns, which also covers the check for
  missing phase timings, and at the summary.
- `load_batch` reads its files in one step; files may change before and after.

`Controller` extends the runner by the second half of `run_cli`: the checks of
the summary and the exit code.

### The back ends: `Batch`, `CpuBatch`, `CudaBatch`

`Batch` is the promise: a batch begins, images get processed, progress is
reported in rising counts of images that are processed, and the batch succeeds
with every image processed and the total reported, or fails without a report.

`CpuBatch` is one call of `process_batch` of the Sequential or the OpenMP back
end. `Call` and `Reject` are the checks, `Prepare` sets the loops up. Each
thread of the team has its own `pc`, `image` and `todo`:

| Action | Code |
|---|---|
| `Claim` | `schedule(dynamic, 1)` hands out the next image; Sequential's loop |
| `ResizeRow`, `MarkRow`, `EndLoop` | one row of the resize loop or of the watermark loop, and the end of a thread's share |
| `Barrier`, `Join` | the implicit barriers behind the two loops over rows |
| `Record` | `ProgressTracker`, when its mutex is free: count the image, and keep the mutex when a report is due |
| `Report` | the sink is called with the mutex held |
| `RecordSequential` | the same without a tracker |
| `Return` | the call returns |

`ByRows` is the choice between the two schedules: fewer images than threads.
`Share` is the contiguous split of a static loop over rows. A row of an output
is what happened to it last: `blank`, `resized`, `marked`, or `spoilt` if a
watermark was blended with a row that was not resized or was already marked. A
sink that throws inside OpenMP is caught there; the runner's sink for Sequential
and CUDA does not throw, because its vector has room for one sample per image
(`experiment.cpp:234`).

`CudaBatch` is one `cuda::Processor` over a series of calls, because its buffers
outlive a call. `Reserve` grows one of five device buffers by allocating before
freeing, and may be refused by the memory budget; `AllocationFailure` decides on
the retry at half the size, and `OtherAllocationFailure` is the same retry after any
other CUDA call that reports a lack of memory (`processor.cpp:114` looks only at the
code); `Pack`, `Upload`, `Kernel`, `Download` move one chunk
through the reused host and device buffers; `Report` hands the buffered samples
to the sink at the end. `OtherFailure` is any failure that is not retried.
`history` has the calls that the size of the buffers decided. An image is its
index, a buffer's position the image put there last, which is what tells a stale
or misplaced result from a right one. Assumed: nobody else uses the device's
memory, and a buffer that exceeds the budget cannot be allocated.

### Files: `PngOutput`, `CsvReport`

`PngOutput` is `prepare_output_directory` followed by `write_png`, for several
writers of one destination: `InspectDirectory`, `MakeDirectory`, `CreateProbe`,
`RemoveProbe`; then `InspectTarget`, `CreateTemporary`, `WriteTemporary`,
`Recheck`, `Move`. Every file system call may fail (`DiskFails`, `GiveUp`) or
find that another program put a file or a folder at the destination or removed
the file (`Meddle`), and a writer may `Crash` anywhere. `windows` chooses between
`MoveFileExW`, which can refuse to replace, and `rename`, which cannot.

`CsvReport` is `validate_csv_destination` before a run (`Validate`),
the run (`Measure`) and `write_benchmark_records` after it: `Revalidate`,
`Inspect`, `Read`, `CreateTemporary`, `WriteTemporary`, `Move`, with the same
faults. A file is its header (`ours`, `foreign` or none), the runs whose rows it
holds - `garbled` for an id that was cut in two, which no run has
(`ProcessesAssumption`) - and whether none of these rows is torn or missing. A
failing disk fails a call of the file system (`DiskFails`) except in the middle of
the old file: `read_existing` copies it through the stream's buffer
(`reporting.cpp:116`), which does not set the state of the stream that is looked at
next, so an error there ends the copy early and goes unnoticed. `Cut` says what such
a copy may be: less than the header, the header, or the first of the runs with the
last of them whole, without some of its rows, or garbled. `changed`, `swapped` and
`short` are history variables: who replaced the file since a process read it,
whether a foreign file took its place since a process checked it, and which
processes read only a part.

In both, unique temporary names do not collide and removing one's own temporary
file works; a crash is that of the process, not of the machine (the code does not
sync to the disk).

### The front: `Dashboard`, `CommandLine`

`Dashboard` is `SubprocessRunner.run` and the second half of `_execute`, one
session per process of `CsvReport`: `ReadBefore`, `Launch`, `Wait` for the exit
code, `Look` for new run ids, `InspectSidecar`, `OpenSidecar` and `FlushSidecar`
(`record_cold_start_measurements`), `Load`. `RunIds` are the outcomes of one
reading of the CSV, which may also be unreadable. Of a result only what is done next
matters, so `status` tells a failure from a completed run and not a partial one from
a successful one. Exit codes are those
`Controller` gives: a process that wrote its rows ends with 0, 2 or 70, another
one with 73. A page that is loaded again while its CLI runs is another session.
`disturbed` is a history variable.

`CommandLine` goes from a form to a plan: `Submit` is `validate_request` and
`command_args`, `Edit` a person who changes one token of the command line,
`Convert` the conversion of arguments to UTF-8 in `main`, which makes a token
that cannot be converted empty, `Command`, `TakeFlag` and `TakeValue` the loop of
`parse_cli`, and `Finish` its required options, rules on values, and
`build_benchmark_plan`. A value is the sequence of its comma-separated items,
already trimmed; `Number` says which items are numbers. The dashboard's paths are
absolute, so a value never looks like an option. `Texts` are the names and items
that occur; the run takes all strings. The numerals of a form are taken to be
written as `str` writes them, so that dropping repeated items is what the code does
when it drops repeated numbers.

### Pixels: `Pixels`

One image and one watermark from the decoder to an output: `Decode` and
`Prepare` are the checks on sizes, `ProcessOnCpu` the loops of the CPU back ends,
`Launch` the kernel with its grid, block and bounds checks. Words have `Word` and
`Size` values and wrap as `uint32_t` and `size_t` do, so that every limit is near.
The arithmetic on `double` is exact on fractions here; one of the three channels
is computed, as the code treats them alike. What the constants are assumed to be
is what the types say: the sides of a decoded picture are `int` (`Mats`), so half a
word; those of an output are words; brightness is positive and opacity at most 1,
the only values of `ProcessingConfig` the program uses; and a `size_t` has at most
twice the bits of a word.

`MCBenchmark`, `MCCudaBatch`, `MCPixels` and `MCCommandLine` define the instances
of the runs.

## Runs

| Run | Instance | Checks |
|---|---|---|
| `cold_start` | OpenMP and CUDA with image counts 1 and 2 (one of them given twice), all three back ends with one count, and Sequential alone; two input files that start present, absent or broken; one change by another program | `TypeOK`; `CountsConsistent`, each experiment counted once; `RowsMatchCounts`; `ExitCodeTruthful`; `SkipOnlyWithCause`, no step skips an experiment that had its back end and baseline; `OutputsOfFrozenSources`; `ValidatedOutputsAgree`; `ReferenceKept`; `Terminates` |
| `rounds` | 2 warm-ups and 5 repetitions, CUDA batches 2 and 1 with fallback, one change by another program | `SpeedupJustified`; `ValidationColumnsAgree`, over repetitions with different errors; `EffectiveBatchFixed` |
| `output_failure` | the smallest matrix with OpenMP | `OutputFailureExits73`, which the code violates: see [Findings](#findings) |
| `cpu_batch` | up to 5 images, 3 threads, 4 rows of which 3 and 4 carry the watermark, progress every 3 images | `TypeOK`; `PixelsAsSequential`; `SamplesAccountForImages`; `ImplementsBatch`; `EveryCallReturns` |
| `cuda_batch` | 4 calls, batch sizes 0 to 5 over 5 or 3 images of which one is larger, memory 14, grid 4 | `TypeOK`, with the budget; `OutputsOfOwnImages`; `EffectiveSizeStable`, over repetitions of a request; `ImplementsBatch`; `EveryCallReturns` |
| `pixels` | images to 7 by 7; outputs of 24 shapes; watermarks of 1 to 4 channels at margins 0 to 15; chunks of 1 to 4 images; words of 4 bits, sizes below 64, blocks of 2, grids 2 blocks high | `SizesExact`; `CropIsLargest`; `SamplesInsideCrop`; `KernelWritesOnce`; `BackEndsAgree` |
| `png_output` | 2 writers in either mode, either system, 2 changes by other programs | `TargetWhole`; `ReturnsCleanly`; `ReplacesAsAllowed` |
| `csv_report` | 2 runs in either mode, 2 changes by other programs | `FileWhole`; `RowsKept`; `RowsUnderOwnHeader` |
| `csv_short_read` | 2 runs in either mode, nobody else | `AppendKeepsRows`, which the code violates: see [Findings](#findings) |
| `dashboard` | 2 sessions, 1 change by another program | `NewRunsAreOwn`; `EverySessionReturns` |
| `sidecar` | 2 sessions, nobody else | `RecordedCanBeLoaded`, which the code violates: see [Findings](#findings) |
| `command_line` | 40 forms, and every command line one edit away from a valid form's | `ValidatedIsAccepted`; `AcceptedIsRunnable`; `NothingDropped` |

Why the bounds are enough.

- The benchmark. Every preflight check, execution, write, median and report
  fails or succeeds freely in each run, so `cold_start` covers all outcomes of
  up to four experiments that depend on each other or not. Two image counts tell
  a baseline per count from one per run; two files tell a prefix of the sources
  from all of them and a half-written directory from a whole one. `MaxError` 2
  is one above CUDA's tolerance and two above OpenMP's. `rounds` uses the
  numbers the parser demands; one CUDA batch size that can be halved and one
  that cannot exercise both sides of the fallback. One change by another program
  (`MaxEdits`) at any step suffices for every single race between a check and a
  use; with no change at all the same properties are checked in other branches
  of the same run.
- `cpu_batch` has a full progress interval and a remainder, batches with fewer
  images than threads (the row schedule) and with more. Both loops over rows are
  split statically: of 4 rows, 2 threads resize 1-2 and 3-4, 3 threads 1-2, 3 and 4,
  while the two marked rows 3 and 4 go to the first thread and to the second. So
  row 3 is marked by another thread than the one that resized it, and without the
  barrier between the loops `PixelsAsSequential` fails.
- `cuda_batch`: with 14 units of memory some requests fit at once, some after
  the retry and some never, depending on where the larger image lies and on what was
  served before (a batch of 5 fails at first, and ends with size 2 after one of 2 was
  served), and four calls are enough for a request to be repeated after two others.
- `pixels`: 4-bit words and 64 sizes put every product, difference and rounding
  at its limit; outputs that are wider, higher and equal in ratio, more than one
  block in each direction with threads left over, and more than the grid allows.
  Chunks of up to three images of 3 by 2 are launched; one more does not fit.
- `png_output`, `csv_report`, `dashboard`: two writers make every race between
  two, and the rest of the world acts through the destination alone. The
  theorems below hold for any number of them.
- `command_line`: the forms combine every selection of back ends with good and
  bad lists; the tokens put in hold every kind the parser tells apart.

TLC checks for deadlock in the benchmark, `cpu_batch` and `cuda_batch` runs, in
which stopping is an action of its own. The others say `CHECK_DEADLOCK FALSE`:
they end when every call, session or input is done.

## Fairness

- `Controller`: weak fairness of `Program`, the union of the process's own
  actions. The program is single-threaded, waits for no message or lock and has
  no retry loop, so a step that is enabled is taken. Executors are assumed to
  return, which the next two items are about. Nothing is assumed of other programs.
- `CpuBatch`: weak fairness of the caller and of each thread: the operating
  system schedules every thread of the team. A thread that waits for the mutex
  is promised nothing, as `Record` is disabled while it waits; that every thread
  gets it in the end follows from each thread taking it once per image.
- `CudaBatch`: weak fairness of the processor, whose CUDA calls return. No
  further call needs to come.
- `Dashboard`: weak fairness of each session and of each process it started: the
  CLI terminates (`Terminates`) and `Popen.wait` returns. That sessions also begin
  is not used: `EverySessionReturns` is about those that wait.

The other specifications have no fairness: their properties are safety.

## Proofs

All are theorems of `Spec` (the two of the dashboard of `DashSpec`), for every
value of the constants that meets the assumptions the modules state, which TLC
evaluates in the runs.

**The benchmark.** For every set of plans, every number of warm-ups, repetitions
and files, every error and any number of changes by other programs.
`MatrixAssumption` is what `build_benchmark_plan` makes of its lists: no
experiment twice, no thread count but for OpenMP, no batch size but for CUDA. That
every accepted command line leads to such a plan is itself a theorem,
`AcceptedPlansAreMatrices` below.

`BenchmarkProofs` - types and the ledger. `TypeOK` is not inductive: an action of a
measurement indexes the plan, so `TypeInv` adds that one exists at the current
index while measuring. The lemmas about batches, executions, written files and
`ValidateAccumulates` are used by `MeasurementProofs` too. `LedgerInv` strengthens the checked
properties by: nothing is measured before the loop (`Fresh`); baselines are
exactly the image counts of validated Sequential rows (`BaselineJustified`,
`BaselineComplete`), without which a speedup could rest on nothing and a skip
have no cause; and the file is empty or holds every row, as `csvPath` says
(`CsvInv`). `StepKinds` reduces the nineteen actions to five kinds of steps, and
each conjunct is then proved per kind.

`MeasurementProofs` - one experiment and what it is compared with. `MeasureInv`
strengthens the checked properties by what the locals of `measure_experiment` say
at each step (`CurInv`) and by the run having written nothing before the loop
(`NothingWritten`), while the frozen sources are still being chosen.
`ReferenceInv` adds who may write where. A directory is settled (`IsSettled`)
when the CPU experiment it belongs to is over; since no two experiments are the
same and CUDA's directories are CUDA's, no later step of the run writes into it
(`SettledKept`). Baselines and OpenMP rows have settled directories, and at the
end of a valid experiment the two directories agree, because the last repetition
was compared at tolerance 0 over exactly the frozen sources (`ComparedAgree`).

**Back ends.** For any number of images, rows, threads, requests, memory and
calls.

`CpuProofs`. `PixelInv` has one half per schedule. By images (`ImagesInv`): an
image from `next` on is untouched, the others are finished or held by exactly one
worker, which is as far as its `todo` says. By rows (`RowsInv`): the whole team
is in one phase - `Resizing`, `Marking`, `Recording` or `Done` - of one image;
that the shares of a loop are disjoint and cover the rows is what the step over a
barrier needs. For progress, `SampleInv` adds: the recorded images are those of
the samples and of the current interval (`TallyInv`), a tracker with an owner has
a report due and the owner is about to make it (`OwnerInv`), and Sequential's
images come in order (`InOrder`). The refinement follows from two lemmas, `Ready`
and `Reports`: what is recorded is finished, so a report never exceeds what is
done, and a call that returns has reported its total.

`CudaProofs`. Buffers only grow, and always within the budget, so what became of an
attempt is not undone by later calls: once it fits in some reachable capacities it
always does, once it was refused it always is (`Fits`, `Refused`, `Decided`).
`MemoryInv` says so of every call in the history. Whether a request fits when it
comes for the first time may well depend on the calls before it, whose buffers need
not be allocated again. For outputs and progress, `DataInv` says where the images of the chunk are at each step, in
host and device buffers whose other positions may hold anything; `ProgressInv`
that buffered samples rise and are reported in order at the end.

**Files.** For any number of writers and of changes by other programs.

`CsvProofs`. `CsvInv` says of what a process prepared: it is whole unless its reading
ended early or the file was not, holds no run twice, holds the file's rows unless the
process overwrites, its reading ended early or somebody replaced the file since it
was read, and has the schema's header unless a foreign file was put in its place or
the reading ended within the header. `RunsOfCut` says what of the runs a part of the
file may hold. That is all one can prove: an append that lost rows by itself is a
[finding](#findings). The sessions of the dashboard are proved about in the same module:
every step of theirs is one of the CLI's processes or leaves these alone
(`DashImpliesCsv`), so what holds of the result CSV holds beside the dashboard
(`SessionsRunTheCli`). `DashInv` adds, for a session that nobody disturbed, which
runs the CSV holds at each step of its process: those seen before, and its own once
the process has moved the file into place (`UndisturbedInv`); and that whoever
recorded a line in the sidecar for another's run was disturbed (`SidecarInv`).
`PngProofs`. `PngInv` says which private files exist at each
step, and that what stands in the way of `FailIfExists` at its move appeared after
the recheck.

**The front.** For any texts, numerals, forms and tokens, and lists of any length.

`CommandProofs`. Two things had to be built first. The library's induction cannot be
used with the provers at hand, so `Upwards` is induction over a set of numbers, from
the well-founded order on them; and what a recursive definition computes is shown
with a step *function* (`Recursion`): `UniqueIsItsLastStep` and
`FlattenIsItsLastStep` say that `unique_preserving_order` and the flattening of rows
end with the last of their steps. From these `PlanIsAMatrix` follows for every
request. `LoopInv` says of the loop of `parse_cli` that everything before the index
was taken and everything stored was found there, which gives `AcceptedLinesAreUsed`;
what is accepted is a `Request` with the lists its back ends need
(`AcceptedRequest`), which gives `AcceptedLinesCanRun`. For the dashboard's own
command line, `Reads` describes a list of arguments as flags and options with their
values, each once; it is closed under concatenation (`ReadsConcat`), so
`CommandArgs` reads as the form means (`CommandArgsRead`). `UneditedInv` follows the
loop over it from one option to the next: nothing is refused, at the end the values
are those meant (`StoredAsMeant`), they are acceptable (`MeantIsAcceptable`), and
since dropping repetitions twice is dropping them once (`UniqueTwice`) the plan is
the form's.

**Pixels.** For words, images, outputs, watermarks, contents and blocks of any size.

`PixelProofs`. That the crop has the output's proportions has two lemmas, one for the
side that is cut (`CutSide`) and one for the side that stays whole (`WholeSide`).
`PixelInv` keeps, for each stage of a job, what the stages before it
established: decoded images have the bytes their sides say (`Packed`), a prepared
batch has a configuration, a watermark and a crop that fit (`PreparedInv`), and each
output is that of the loops or of the kernel. Nothing wraps, because every product
is below `Size` once the checks have passed (`SizesAreExact`). `SampleFacts` says
where the two neighbours of a sample are and what they weigh, and
`AxisIsSampledEvenly` adds a sample to its mirror image; that threads cover an axis once gives
`KernelWritesEachPixelOnce` by counting (`PlacesCover`); and rounding is monotone
(`RoundingStaysBetween`), so a blended channel stays between the two it blends.

| Module | Theorem | Property |
|---|---|---|
| `BenchmarkProofs` | `TypeCorrect` | `TypeOK` |
| | `CountsAreConsistent` | `CountsConsistent` |
| | `SpeedupsAreJustified` | `SpeedupJustified` |
| | `RowsMatchTheCounts` | `RowsMatchCounts` |
| | `SkipsHaveACause` | `SkipOnlyWithCause`, an action property |
| | `ExitCodeIsTruthful` | `ExitCodeTruthful`, with `ExitInv`: the exit code is decided once, from a state that no longer changes |
| `MeasurementProofs` | `OutputsAreOfFrozenSources` | `OutputsOfFrozenSources` |
| | `ValidationColumnsAlwaysAgree` | `ValidationColumnsAgree` |
| | `EffectiveBatchIsFixed` | `EffectiveBatchFixed`, an action property |
| | `ValidatedOutputsStillAgree` | `ValidatedOutputsAgree` |
| | `ReferenceIsKept` | `ReferenceKept`, an action property |
| `CpuProofs` | `CpuTypeCorrect` | `TypeOK` |
| | `PixelsAreAsSequential` | `PixelsAsSequential` |
| | `SamplesAlwaysAccount` | `SamplesAccountForImages` |
| | `CpuImplementsBatch` | `ImplementsBatch`, a refinement |
| `CudaProofs` | `EffectiveSizeIsStable` | `EffectiveSizeStable` |
| | `CudaTypeCorrect` | `TypeOK` |
| | `OutputsAreOfOwnImages` | `OutputsOfOwnImages` |
| | `CudaImplementsBatch` | `ImplementsBatch`, a refinement |
| `CsvProofs` | `FileIsWhole` | `FileWhole` |
| | `RowsAreKept` | `RowsKept`, an action property |
| | `RowsAreUnderOwnHeader` | `RowsUnderOwnHeader`, an action property |
| | `SessionsRunTheCli` | the three above, for sessions of the dashboard |
| | `NewRunsAreTheSessionsOwn` | `NewRunsAreOwn` |
| `PngProofs` | `TargetIsWhole` | `TargetWhole` |
| | `CallsReturnCleanly` | `ReturnsCleanly` |
| | `WritersReplaceAsAllowed` | `ReplacesAsAllowed`, an action property |
| `PixelProofs` | `SizesAreExact` | `SizesExact` |
| | `CropIsTheLargest` | `CropIsLargest` |
| | `SamplesAreInsideTheCrop` | `SamplesInsideCrop` |
| | `KernelWritesEachPixelOnce` | `KernelWritesOnce` |
| | `BackEndsComputeTheSame` | `BackEndsAgree` |
| `CommandProofs` | `PlanIsAMatrix` | `IsMatrix(BuildPlan(request), request)` for every request |
| | `AcceptedLinesAreUsed` | `NothingDropped` |
| | `AcceptedLinesCanRun` | `AcceptedIsRunnable` |
| | `AcceptedPlansAreMatrices` | `AcceptedPlan`: what `PlansAssumption` and `MatrixAssumption` ask |
| | `ValidFormsAreAccepted` | `ValidatedIsAccepted` |

Only model-checked: `Terminates`, `EveryCallReturns` and `EverySessionReturns`,
because liveness under fairness is out of the prover's reach. That the models of
`Pixels` and `CommandLine` compute what the code computes is a matter of reading
them beside it; the theorems are about the models.

## What is left out

- The median of M7 and the formatting of rows and times: the model only sees
  whether a median could be formed. An empty plan cannot be built from an accepted
  request.
- No shipped executor reports the issue code that would make a processing
  failure `BackendUnavailable`, so `Executions` has no such outcome. A skipped
  CUDA experiment still records that category, after the Sequential ones.
- `BenchmarkRunner` replaces the CSV at once or not at all, and an executor is
  one step of it; `CsvReport`, `PngOutput` and the back ends have the steps.
- Other programs that create new files in the run's own output directory.
- CUDA device discovery and the move operations of the resource wrappers; memory
  that other programs take from the device during a run.
- PNG and JPEG coding (OpenCV), rounding of `double`, power loss.
- The dashboard's demo runner, its trajectory sidecar (written as the life-cycle
  one is), Streamlit's widgets and the drawing; whether paths of a form exist.
- The text of messages; download scripts and launchers; M8, which has no code.

## Findings

`AppendKeepsRows` (run `csv_short_read`): an append is meant to keep the rows that
are there ("保留旧行并追加新 `run_id`", `docs/test/M7验证与Benchmark测试.md:28`) and to
fail with "Existing result CSV could not be read completely." (`reporting.cpp:119`)
if they cannot be read. But `contents << stream.rdbuf()` leaves the state of `stream`
alone, so the check at `reporting.cpp:117` never fires: after a read error the part
that was read, with the new rows, replaces the file. In the run the second process
keeps less than the first one wrote.

`OutputFailureExits73` (run `output_failure`): the error table of
`docs/design/M7验证与Benchmark设计.md` (line 110) says that a failure to write the
CSV or the images provides no success CSV and ends with 73. For images the code
fails only the experiment concerned (`experiment.cpp:285`): if another one
succeeds, the CSV is written and the exit code is 2. The run shows the shortest
such behaviour.

`RecordedCanBeLoaded` (run `sidecar`): `record_cold_start_measurements` promises
to "Persist one external CLI lifecycle duration for each produced run id."
(`lifecycle.py:17`). It writes the header only if the sidecar does not exist
(`lifecycle.py:20`), but opening the file creates it empty and the lines reach it
when it is closed. A second session in between, or any session after one whose
lines never reached the file, appends rows without a header, and
`load_cold_start_measurements` finds no measurement in the file. In the run the
first session fails to write its lines and the second records without an error.
