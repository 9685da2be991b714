--------------------------- MODULE BenchmarkRunner ---------------------------
(***************************************************************************)
(* run_benchmark_plan and measure_experiment: one process works through    *)
(* the experiments of its plan while other programs may change the input   *)
(* directory and the PNG files the run has already written.                *)
(*                                                                         *)
(* Input files are numbered in the order of their names, so a set of file  *)
(* numbers stands for an ordered list of paths.  A decoded image is the    *)
(* version of the file's contents; a processed image is that version and   *)
(* the largest per-channel error of the back end that computed it.         *)
(***************************************************************************)
EXTENDS BenchmarkPlan, Integers, FiniteSets

CONSTANTS
  Plans,        \* the plans build_benchmark_plan may hand over
  Warmups,      \* BenchmarkPlan::warmups, 2 or 0 (cold start)
  Repetitions,  \* BenchmarkPlan::repetitions, at least 5 or exactly 1 (cold start)
  MaxFiles,     \* bound: files of the input directory
  Versions,     \* contents that decode to an image
  MaxError,     \* bound: largest error of a parallel back end
  MaxEdits      \* bound: changes other programs make during the run

ASSUME PlansAssumption == Plans \subseteq Seq(Experiment) \ {<<>>}
ASSUME MatrixAssumption ==  \* what build_benchmark_plan makes of its lists
  \A p \in Plans : \A i \in DOMAIN p :
    /\ \A j \in DOMAIN p : p[i] = p[j] => i = j
    /\ p[i].backend # OpenMP => p[i].threads = 0
    /\ p[i].backend # Cuda => p[i].batch = 0
ASSUME RoundsAssumption == Warmups \in Nat /\ Repetitions \in Nat \ {0}
ASSUME BoundsAssumption == MaxFiles \in Nat /\ MaxError \in 0 .. 255 /\ MaxEdits \in Nat
ASSUME VersionsAssumption ==
  Versions \cap {"undecodable", "absent", "altered", "resized"} = {}

Files == 1 .. MaxFiles
Images == [src : Versions \cup {"altered", "resized"}, err : 0 .. MaxError]
Categories == {"Input", "BackendUnavailable", "Processing", "Output", "Internal"}
NoCategory == "None"
Different == 255  \* error between the pixels of two different images

VARIABLES
  plan,       \* BenchmarkPlan::experiments
  input,      \* the input directory: file -> version, "undecodable" or "absent"
  files,      \* PNG files of this run: <<directory, file>> -> image
  edits,      \* changes made by other programs so far
  pc,         \* the step the process is at
  catalog,    \* the preflight catalog
  expected,   \* expected_sources
  executors,  \* back end -> "available", "unavailable" or "unregistered"
  k,          \* index of the current experiment
  cur,        \* the locals of measure_experiment
  baseline,   \* the keys of sequential_compute_by_count
  records,    \* the rows measured so far
  csv,        \* the rows this run has put in the result file
  summary     \* WorkflowSummary

setup == <<plan, catalog, expected, executors>>
ledger == <<k, baseline, records, csv>>
vars == <<input, files, edits, pc, cur, summary, setup, ledger>>

Idle == [warm |-> 0, rep |-> 0, scan |-> {}, batch |-> <<>>, result |-> <<>>,
         effective |-> 0, passed |-> TRUE, structural |-> FALSE, maxError |-> 0]

-----------------------------------------------------------------------------
(* Reading the input directory and the output directories.                 *)

Present == {p \in Files : input[p] # "absent"}
FirstOf(n, S) == {p \in S : Cardinality({q \in S : q <= p}) <= n}

(* load_batch: the first n decodable files of the catalog; a file that     *)
(* does not decode is passed over with a warning.                          *)
LoadBatch(cat, n) ==
  LET decodable == {p \in cat : input[p] \in Versions}
  IN  [p \in FirstOf(n, decodable) |-> input[p]]

(* Faulty: the number of images is checked and their paths are not.        *)
SourcesCounted(batch, n) == Cardinality(DOMAIN batch) = n

(* load_batch found enough images and sources_match accepts their paths.   *)
SourcesMatch(batch, n) ==
  /\ Cardinality(DOMAIN batch) = n
  /\ DOMAIN batch = FirstOf(n, expected)

(* Faulty: a directory per image count, shared by the back ends.           *)
SharedDirectory(e, effective) == ExperimentSpec(Sequential, e.count, 0, 0)

OutputDirectory(e, effective) ==
  IF e.backend = Cuda THEN [e EXCEPT !.batch = effective] ELSE e
SequentialDirectory(n) == ExperimentSpec(Sequential, n, 0, 0)

(* write_png in ReplaceExisting mode for the files in `done`.              *)
Written(dir, images, done) ==
  [x \in DOMAIN files \cup ({dir} \X done) |->
     IF x \in {dir} \X done THEN images[x[2]] ELSE files[x]]

Stored(dir, S) == {dir} \X S \subseteq DOMAIN files

-----------------------------------------------------------------------------
(* What IBackendExecutor::execute may return.  Sequential defines the      *)
(* pixels; a parallel back end may err.  CUDA uses the requested batch     *)
(* size or, after an allocation failure, half of it.  An exception that    *)
(* leaves the executor is caught by run_benchmark_plan as "Internal".      *)

EffectiveBatches(e) ==
  IF e.backend = Cuda THEN {e.batch, IF e.batch > 1 THEN e.batch \div 2 ELSE 1} ELSE {0}

Executions(e, batch) ==
  [category : {NoCategory},
   images : {[p \in DOMAIN batch |-> [src |-> batch[p], err |-> d]] :
               d \in IF e.backend = Sequential THEN {0} ELSE 0 .. MaxError},
   effective : EffectiveBatches(e)]
  \cup [category : {"Processing", "Internal"}, images : {<<>>}, effective : {0}]

(* Faulty: only a missing size is reported, not a changed one.             *)
BatchSizeMissing(e, x) == e.backend = Cuda /\ x.effective = 0

(* capture_effective_cuda_batch_size reports an issue.                     *)
BatchSizeChanged(e, x) ==
  e.backend = Cuda /\ (x.effective = 0 \/ cur.effective \notin {0, x.effective})

(* Faulty: the tolerance of CUDA for every back end.                       *)
CudaTolerance(b) == 1

Tolerance(b) == IF b = Cuda THEN 1 ELSE 0

-----------------------------------------------------------------------------
(* Bookkeeping of run_benchmark_plan.                                      *)

AddIssue(s, category) ==
  [s EXCEPT !.primary = IF @ = NoCategory THEN category ELSE @,
            !.issues = @ \cup {category}]

GlobalFailure(category) ==
  [summary EXCEPT !.failed = Len(plan), !.primary = category, !.issues = {category}]

NextExperiment == k' = k + 1 /\ cur' = Idle /\ pc' = "next"

(* Faulty: the failure becomes an issue and is not counted.                *)
FailUncounted(category) ==
  /\ NextExperiment
  /\ summary' = AddIssue(summary, category)
  /\ UNCHANGED <<baseline, records>>

(* measure_experiment returned a failure without a record.                 *)
FailExperiment(category) ==
  /\ NextExperiment
  /\ summary' = AddIssue([summary EXCEPT !.failed = @ + 1], category)
  /\ UNCHANGED <<baseline, records>>

(* Faulty: the skip branch advances past the experiment after it, too.     *)
SkipTwo(category) ==
  /\ k' = k + 2 /\ cur' = Idle /\ pc' = "next"
  /\ summary' = AddIssue([summary EXCEPT !.skipped = @ + 1], category)

SkipExperiment(category) ==
  /\ NextExperiment
  /\ summary' = AddIssue([summary EXCEPT !.skipped = @ + 1], category)

-----------------------------------------------------------------------------
Init ==
  /\ plan \in Plans
  /\ input \in [Files -> Versions \cup {"undecodable", "absent"}]
  /\ files = <<>> /\ edits = 0
  /\ pc = "csv"
  /\ catalog = {} /\ expected = {}
  /\ executors = [b \in Backends |-> "unregistered"]
  /\ k = 1 /\ cur = Idle
  /\ baseline = {} /\ records = <<>> /\ csv = <<>>
  /\ summary = [succeeded |-> 0, failed |-> 0, skipped |-> 0,
                primary |-> NoCategory, issues |-> {}, csvPath |-> FALSE]

(* One preflight check: on failure every planned item counts as failed.    *)
Preflight(from, to, ok, category) ==
  /\ pc = from
  /\ pc' = IF ok THEN to ELSE "returned"
  /\ summary' = IF ok THEN summary ELSE GlobalFailure(category)
  /\ UNCHANGED <<input, files, edits, cur, ledger, plan, executors>>

ValidateCsvDestination ==
  /\ \E ok \in BOOLEAN : Preflight("csv", "output", ok, "Output")
  /\ UNCHANGED <<catalog, expected>>

PrepareOutputDirectory ==
  /\ \E ok \in BOOLEAN : Preflight("output", "catalog", ok, "Output")
  /\ UNCHANGED <<catalog, expected>>

(* Reading the input directory may fail, and then finds nothing.           *)
ScanCatalog ==
  /\ \E found \in {Present, {}} :
       /\ Preflight("catalog", "watermark", found # {}, "Input")
       /\ catalog' = found
  /\ UNCHANGED expected

DecodeWatermark ==
  /\ \E ok \in BOOLEAN : Preflight("watermark", "load", ok, "Input")
  /\ UNCHANGED <<catalog, expected>>

(* load_batch for the largest image count freezes expected_sources.        *)
LoadPreflightBatch ==
  /\ \E i \in DOMAIN plan :
       LET n == plan[i].count
           sources == DOMAIN LoadBatch(catalog, n)
       IN  /\ \A j \in DOMAIN plan : plan[j].count <= n
           /\ Preflight("load", "executors", Cardinality(sources) = n, "Input")
           /\ expected' = IF Cardinality(sources) = n THEN sources ELSE {}
  /\ UNCHANGED catalog

(* The executors are asked once for their availability, and the run gets   *)
(* its identifier; std::random_device may throw out of run_benchmark_plan. *)
QueryExecutors ==
  /\ pc = "executors"
  /\ \/ \E cuda \in {"available", "unavailable", "unregistered"} :
          /\ executors' = [b \in Backends |-> IF b = Cuda THEN cuda ELSE "available"]
          /\ pc' = "next"
     \/ pc' = "thrown" /\ UNCHANGED executors
  /\ UNCHANGED <<input, files, edits, cur, summary, ledger, plan, catalog, expected>>

-----------------------------------------------------------------------------
(* The experiment loop.                                                    *)

SkipUnavailable ==
  /\ pc = "next" /\ k <= Len(plan)
  /\ executors[plan[k].backend] # "available"
  /\ SkipExperiment("BackendUnavailable")
  /\ UNCHANGED <<input, files, edits, setup, baseline, records, csv>>

SkipWithoutBaseline ==
  /\ pc = "next" /\ k <= Len(plan)
  /\ executors[plan[k].backend] = "available"
  /\ plan[k].backend # Sequential /\ plan[k].count \notin baseline
  /\ SkipExperiment("Processing")
  /\ UNCHANGED <<input, files, edits, setup, baseline, records, csv>>

(* measure_experiment starts: load_batch from the preflight catalog.       *)
StartExperiment ==
  /\ pc = "next" /\ k <= Len(plan)
  /\ LET e == plan[k]
         batch == LoadBatch(catalog, e.count)
     IN  /\ executors[e.backend] = "available"
         /\ e.backend = Sequential \/ e.count \in baseline
         /\ IF SourcesMatch(batch, e.count)
              THEN /\ cur' = [cur EXCEPT !.batch = batch]
                   /\ pc' = IF Warmups > 0 THEN "warmup" ELSE "scan"
                   /\ UNCHANGED <<summary, k, baseline, records>>
              ELSE FailExperiment("Input")
  /\ UNCHANGED <<input, files, edits, setup, csv>>

WarmUp ==
  /\ pc = "warmup"
  /\ \E x \in Executions(plan[k], cur.batch) :
       IF x.category # NoCategory
         THEN FailExperiment(x.category)
         ELSE IF BatchSizeChanged(plan[k], x)
         THEN FailExperiment("Internal")
         ELSE /\ cur' = [cur EXCEPT !.warm = @ + 1, !.effective = x.effective]
              /\ pc' = IF cur.warm + 1 < Warmups THEN "warmup" ELSE "scan"
              /\ UNCHANGED <<summary, k, baseline, records>>
  /\ UNCHANGED <<input, files, edits, setup, csv>>

(* Faulty: waits until the input directory holds an image again.           *)
ScanInputWaiting ==
  /\ pc = "scan" /\ Present # {}
  /\ cur' = [cur EXCEPT !.scan = Present, !.batch = <<>>]
  /\ pc' = "read"
  /\ UNCHANGED <<summary, k, baseline, records, input, files, edits, setup, csv>>

ScanInput ==
  /\ pc = "scan"
  /\ \/ /\ Present # {}
        /\ cur' = [cur EXCEPT !.scan = Present, !.batch = <<>>]
        /\ pc' = "read"
        /\ UNCHANGED <<summary, k, baseline, records>>
     \/ FailExperiment("Input")
  /\ UNCHANGED <<input, files, edits, setup, csv>>

ReadInput ==
  /\ pc = "read"
  /\ LET batch == LoadBatch(cur.scan, plan[k].count)
     IN  IF SourcesMatch(batch, plan[k].count)
           THEN /\ cur' = [cur EXCEPT !.scan = {}, !.batch = batch]
                /\ pc' = "execute"
                /\ UNCHANGED <<summary, k, baseline, records>>
           ELSE FailExperiment("Input")
  /\ UNCHANGED <<input, files, edits, setup, csv>>

Execute ==
  /\ pc = "execute"
  /\ \E x \in Executions(plan[k], cur.batch) :
       IF x.category # NoCategory
         THEN FailExperiment(x.category)
         ELSE IF BatchSizeChanged(plan[k], x)
         THEN FailExperiment("Internal")
         ELSE /\ cur' = [cur EXCEPT !.batch = <<>>, !.result = x.images,
                                    !.effective = x.effective]
              /\ pc' = "write"
              /\ UNCHANGED <<summary, k, baseline, records>>
  /\ UNCHANGED <<input, files, edits, setup, csv>>

(* write_outputs stops at the first PNG it cannot write: the ones before   *)
(* it are already replaced.                                                *)
WriteOutputs ==
  /\ pc = "write"
  /\ LET dir == OutputDirectory(plan[k], cur.effective)
         all == DOMAIN cur.result
     IN  \/ /\ files' = Written(dir, cur.result, all)
            /\ pc' = "validate"
            /\ UNCHANGED <<cur, summary, k, baseline, records>>
         \/ \E n \in 0 .. Cardinality(all) - 1 :
              /\ files' = Written(dir, cur.result, FirstOf(n, all))
              /\ FailExperiment("Output")
  /\ UNCHANGED <<input, edits, setup, csv>>

PixelError(a, b) ==
  IF a.src # b.src THEN Different ELSE IF a.err > b.err THEN a.err - b.err ELSE b.err - a.err

(* Faulty: the last repetition decides whether the row is valid.           *)
AccumulateLast(errors, structural, tolerance) ==
  \E worst \in errors :
    /\ \A x \in errors : x <= worst
    /\ cur' = [cur EXCEPT
                 !.rep = @ + 1, !.result = <<>>,
                 !.passed = ~structural /\ worst <= tolerance,
                 !.structural = @ \/ structural,
                 !.maxError = IF ~structural /\ worst > @ THEN worst ELSE @]

(* validate_batches and what the repetition accumulates from its result.   *)
Accumulate(errors, structural, tolerance) ==
  \E worst \in errors :
    /\ \A x \in errors : x <= worst
    /\ cur' = [cur EXCEPT
                 !.rep = @ + 1, !.result = <<>>,
                 !.passed = @ /\ ~structural /\ worst <= tolerance,
                 !.structural = @ \/ structural,
                 !.maxError = IF ~structural /\ worst > @ THEN worst ELSE @]

(* The written PNGs are decoded again and compared: Sequential with its    *)
(* own result, the others with the PNGs of the Sequential experiment.      *)
Validate ==
  /\ pc = "validate"
  /\ LET e == plan[k]
         own == OutputDirectory(e, cur.effective)
         sequential == SequentialDirectory(e.count)
         all == DOMAIN cur.result
         candidate(p) == files[<<own, p>>]
         reference(p) == IF e.backend = Sequential THEN cur.result[p]
                                                   ELSE files[<<sequential, p>>]
         resized(image) == image.src = "resized"
     IN  IF ~Stored(own, all)
           THEN FailExperiment("Output")
           ELSE IF e.backend # Sequential /\ ~Stored(sequential, all)
           THEN FailExperiment("Processing")
           ELSE /\ Accumulate({PixelError(reference(p), candidate(p)) : p \in all},
                              \E p \in all : resized(reference(p)) # resized(candidate(p)),
                              Tolerance(e.backend))
                /\ pc' = IF cur.rep + 1 < Repetitions THEN "scan" ELSE "summarize"
                /\ UNCHANGED <<summary, k, baseline, records>>
  /\ UNCHANGED <<input, files, edits, setup, csv>>

(* A row of the result file.  `maxError` is -1 when max_pixel_error is     *)
(* empty, `speedup` says whether the field is empty, 1.0 or a quotient of  *)
(* the baseline's median.                                                  *)
Record(e) ==
  [backend |-> e.backend, count |-> e.count, threads |-> e.threads,
   batch |-> IF e.backend = Cuda THEN cur.effective ELSE e.batch,
   passed |-> cur.passed,
   maxError |-> IF cur.structural THEN -1 ELSE cur.maxError,
   speedup |-> IF ~cur.passed THEN "none"
               ELSE IF e.backend = Sequential THEN "one"
               ELSE IF e.count \in baseline THEN "ratio" ELSE "none"]

(* Faulty: every complete experiment counts as a success.                  *)
SettledAsSuccess == [summary EXCEPT !.succeeded = @ + 1]

(* The outcome of an experiment with a record.                             *)
Settled ==
  IF cur.passed THEN [summary EXCEPT !.succeeded = @ + 1]
                ELSE AddIssue([summary EXCEPT !.failed = @ + 1], "Processing")

(* Faulty: a Sequential row that failed validation becomes the baseline.   *)
BaselinesUnvalidated(e) ==
  IF e.backend = Sequential THEN baseline \cup {e.count} ELSE baseline

(* Faulty: one baseline for the run instead of one per image count.        *)
BaselinesLatest(e) ==
  IF e.backend = Sequential /\ cur.passed THEN {e.count} ELSE baseline

Baselines(e) ==
  IF e.backend = Sequential /\ cur.passed THEN baseline \cup {e.count} ELSE baseline

(* measure_experiment returns; a median that is not positive (the clock    *)
(* did not advance) is an internal failure without a row.                  *)
Summarize ==
  /\ pc = "summarize"
  /\ \/ FailExperiment("Internal")
     \/ /\ NextExperiment
        /\ records' = Append(records, Record(plan[k]))
        /\ summary' = Settled
        /\ baseline' = Baselines(plan[k])
  /\ UNCHANGED <<input, files, edits, setup, csv>>

(* After the loop write_benchmark_records replaces the result file once.   *)
WriteReport ==
  /\ pc = "next" /\ k > Len(plan)
  /\ LET kept == [summary EXCEPT !.primary = IF summary.succeeded > 0 THEN NoCategory ELSE @]
     IN  \/ /\ records = <<>>
            /\ summary' = kept
            /\ UNCHANGED csv
         \/ /\ records # <<>>
            /\ csv' = records
            /\ summary' = [kept EXCEPT !.csvPath = TRUE]
         \/ /\ records # <<>>
            /\ summary' = [summary EXCEPT !.primary = "Output", !.issues = @ \cup {"Output"}]
            /\ UNCHANGED csv
  /\ pc' = "returned"
  /\ UNCHANGED <<input, files, edits, cur, setup, k, baseline, records>>

-----------------------------------------------------------------------------
(* Other programs.                                                         *)

Running == pc \notin {"returned", "thrown"}

EditInput ==
  /\ Running /\ edits < MaxEdits
  /\ \E p \in Files, c \in Versions \cup {"undecodable", "absent"} :
       input[p] # c /\ input' = [input EXCEPT ![p] = c]
  /\ edits' = edits + 1
  /\ UNCHANGED <<files, pc, cur, summary, setup, ledger>>

EditOutput ==
  /\ Running /\ edits < MaxEdits
  /\ \E x \in DOMAIN files :
       \/ files' = [y \in DOMAIN files \ {x} |-> files[y]]
       \/ \E s \in {"altered", "resized"} : files' = [files EXCEPT ![x].src = s]
  /\ edits' = edits + 1
  /\ UNCHANGED <<input, pc, cur, summary, setup, ledger>>

Process ==
  \/ ValidateCsvDestination \/ PrepareOutputDirectory \/ ScanCatalog
  \/ DecodeWatermark \/ LoadPreflightBatch \/ QueryExecutors
  \/ SkipUnavailable \/ SkipWithoutBaseline \/ StartExperiment
  \/ WarmUp \/ ScanInput \/ ReadInput \/ Execute \/ WriteOutputs \/ Validate
  \/ Summarize \/ WriteReport

OtherPrograms == EditInput \/ EditOutput

RunnerNext == Process \/ OtherPrograms
RunnerSpec == Init /\ [][RunnerNext]_vars

-----------------------------------------------------------------------------
(* Properties.                                                             *)

Rows == [backend : Backends, count : Nat \ {0}, threads : Nat, batch : Nat,
         passed : BOOLEAN, maxError : -1 .. Different, speedup : {"none", "one", "ratio"}]
Partial(S, T) == UNION {[D -> T] : D \in SUBSET S}

Steps == {"csv", "output", "catalog", "watermark", "load", "executors", "next", "warmup",
          "scan", "read", "execute", "write", "validate", "summarize", "returned", "thrown"}

CurOK ==
  cur \in [warm : Nat, rep : Nat, scan : SUBSET Files,
           batch : Partial(Files, Versions), result : Partial(Files, Images),
           effective : Nat, passed : BOOLEAN, structural : BOOLEAN,
           maxError : 0 .. Different]

Summaries ==
  [succeeded : Nat, failed : Nat, skipped : Nat,
   primary : Categories \cup {NoCategory}, issues : SUBSET Categories, csvPath : BOOLEAN]

(* Every variable of run_benchmark_plan and measure_experiment keeps its   *)
(* type; the current experiment exists while one is being measured.        *)
TypeOK ==
  /\ plan \in Seq(Experiment) \ {<<>>}
  /\ input \in [Files -> Versions \cup {"undecodable", "absent"}]
  /\ DOMAIN files \subseteq Experiment \X Files
  /\ \A x \in DOMAIN files : files[x] \in Images
  /\ edits \in 0 .. MaxEdits
  /\ pc \in Steps
  /\ catalog \subseteq Files /\ expected \subseteq Files
  /\ executors \in [Backends -> {"available", "unavailable", "unregistered"}]
  /\ k \in 1 .. Len(plan) + 1
  /\ CurOK /\ summary \in Summaries
  /\ baseline \subseteq Nat
  /\ records \in Seq(Rows) /\ csv \in Seq(Rows)

(* has_consistent_counts in the controller never fires: when the runner    *)
(* returns, each planned experiment counts once as succeeded, failed or    *)
(* skipped, whatever path it left measure_experiment by.                   *)
CountsConsistent ==
  LET settled == summary.succeeded + summary.failed + summary.skipped
  IN  /\ pc = "returned" => settled = Len(plan)
      /\ pc # "returned" => settled = k - 1

(* A speedup is published only in a validated row, and only after a        *)
(* validated Sequential row of the same image count in the same run.       *)
SpeedupJustified ==
  \A i \in DOMAIN records : records[i].speedup # "none" =>
    /\ records[i].passed
    /\ \E j \in 1 .. i : /\ records[j].backend = Sequential
                         /\ records[j].count = records[i].count
                         /\ records[j].passed

(* validation_passed and max_pixel_error of a row are accumulated apart    *)
(* over the repetitions, and still tell the same story.                    *)
ValidationColumnsAgree ==
  \A i \in DOMAIN records :
    records[i].passed <=> records[i].maxError \in 0 .. Tolerance(records[i].backend)

(* Rows and counts of the run agree: a success has exactly one validated   *)
(* row, and a row that failed validation is one of the failed experiments. *)
RowsMatchCounts ==
  LET passed == {i \in DOMAIN records : records[i].passed}
  IN  /\ Cardinality(passed) = summary.succeeded
      /\ Len(records) - Cardinality(passed) <= summary.failed

(* Whatever happens to the input directory during the run, the PNGs the    *)
(* run writes for an image count come from the first sources that          *)
(* preflight froze.                                                        *)
OutputsOfFrozenSources ==
  \A x \in DOMAIN files : x[2] \in FirstOf(x[1].count, expected)

(* The PNG files an OpenMP row was validated on are those the directory    *)
(* holds, and they equal the Sequential files of this run, as long as no   *)
(* other program changed them.                                             *)
ValidatedOutputsAgree ==
  \A i \in DOMAIN records, p \in Files :
    LET own == <<ExperimentSpec(OpenMP, records[i].count, records[i].threads, 0), p>>
        reference == <<SequentialDirectory(records[i].count), p>>
    IN  /\ records[i].backend = OpenMP /\ records[i].passed
        /\ {own, reference} \subseteq DOMAIN files
        /\ {files[own].src, files[reference].src} \subseteq Versions
        => files[own] = files[reference]

(* Once a Sequential experiment is the baseline of its image count, no     *)
(* later experiment of the run rewrites the PNGs the others are compared   *)
(* with.                                                                   *)
ReferenceKept ==
  [][\A x \in DOMAIN files :
       (\E n \in baseline : x[1] = SequentialDirectory(n)) /\ edits' = edits
       => x \in DOMAIN files' /\ files'[x] = files[x]]_vars

(* Within one experiment the effective CUDA batch size never changes once  *)
(* a warm-up or a repetition has reported it.                              *)
EffectiveBatchFixed ==
  [][k' = k /\ cur.effective # 0 => cur'.effective = cur.effective]_vars

(* One failure does not stop independent configurations: an experiment is  *)
(* skipped only when its back end is not available or no Sequential        *)
(* experiment of its own image count was validated before it.              *)
SkipOnlyWithCause ==
  [][summary'.skipped # summary.skipped =>
       \/ executors[plan[k].backend] # "available"
       \/ /\ plan[k].backend # Sequential
          /\ \A j \in DOMAIN records :
               ~ (/\ records[j].backend = Sequential
                  /\ records[j].count = plan[k].count /\ records[j].passed)]_vars
==============================================================================
