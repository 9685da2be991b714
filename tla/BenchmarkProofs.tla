--------------------------- MODULE BenchmarkProofs ---------------------------
(***************************************************************************)
(* A run of the benchmark, for every plan, every number of rounds and every *)
(* behaviour of the back ends and of the other programs: its types, and the *)
(* ledger - rows, counts, baselines, result file, exit code.               *)
(***************************************************************************)
EXTENDS Controller, FiniteSetTheorems, TLAPS

-----------------------------------------------------------------------------
(* Types.                                                                  *)

Measuring == {"warmup", "scan", "read", "execute", "write", "validate", "summarize"}

(* While an experiment is measured, the plan has one at the current index. *)
InExperiment == pc \in Measuring => k <= Len(plan)

TypeInv == TypeOK /\ InExperiment

-----------------------------------------------------------------------------
(* The values the helpers of the runner return.                            *)

(* An empty record of locals has the type of the locals.                   *)
LEMMA IdleType ==
  Idle \in [warm : Nat, rep : Nat, scan : SUBSET Files,
            batch : Partial(Files, Versions), result : Partial(Files, Images),
            effective : Nat, passed : BOOLEAN, structural : BOOLEAN,
            maxError : 0 .. Different]
<1>1. <<>> \in [{} -> Versions] /\ <<>> \in [{} -> Images]
  OBVIOUS
<1>2. <<>> \in Partial(Files, Versions) /\ <<>> \in Partial(Files, Images)
  BY <1>1 DEF Partial
<1>3. QED
  BY <1>2 DEF Idle, Different

(* A loaded batch maps some of the files to decodable contents.            *)
LEMMA LoadBatchType ==
  ASSUME TypeOK, NEW cat \in SUBSET Files, NEW n
  PROVE  LoadBatch(cat, n) \in Partial(Files, Versions)
<1> DEFINE D == FirstOf(n, {p \in cat : input[p] \in Versions})
<1>1. D \in SUBSET Files /\ \A p \in D : input[p] \in Versions
  BY DEF FirstOf
<1>2. [p \in D |-> input[p]] \in [D -> Versions]
  BY <1>1
<1>3. QED
  BY <1>1, <1>2 DEF LoadBatch, Partial

(* What an execution returns has the types measure_experiment works with.  *)
LEMMA ExecutionsType ==
  ASSUME NEW e \in Experiment, NEW batch \in Partial(Files, Versions),
         NEW x \in Executions(e, batch)
  PROVE  /\ x.category \in Categories \cup {NoCategory}
         /\ x.images \in Partial(Files, Images)
         /\ x.effective \in Nat
<1> USE BoundsAssumption
<1>1. CASE x \in [category : {"Processing", "Internal"}, images : {<<>>}, effective : {0}]
  <2>1. <<>> \in [{} -> Images]
    OBVIOUS
  <2>2. <<>> \in Partial(Files, Images)
    BY <2>1 DEF Partial
  <2>3. QED
    BY <1>1, <2>2 DEF Categories
<1>2. CASE x.category = NoCategory
           /\ x.images \in {[p \in DOMAIN batch |-> [src |-> batch[p], err |-> d]] :
                d \in IF e.backend = Sequential THEN {0} ELSE 0 .. MaxError}
           /\ x.effective \in EffectiveBatches(e)
  <2>1. PICK d \in 0 .. MaxError :
          x.images = [p \in DOMAIN batch |-> [src |-> batch[p], err |-> d]]
    BY <1>2
  <2>2. PICK D \in SUBSET Files : batch \in [D -> Versions]
    BY DEF Partial
  <2>3. x.images \in [D -> Images]
    BY <2>1, <2>2 DEF Images
  <2>4. x.images \in Partial(Files, Images)
    BY <2>2, <2>3 DEF Partial
  <2>5. x.effective \in Nat
    BY <1>2 DEF EffectiveBatches, Experiment
  <2>6. QED
    BY <1>2, <2>4, <2>5
<1>3. QED
  BY <1>1, <1>2 DEF Executions

-----------------------------------------------------------------------------
(* Type correctness.                                                       *)

(* The part of the state that an experiment's end rewrites.                *)
ProgressOK ==
  /\ pc \in Steps /\ k \in 1 .. Len(plan) + 1
  /\ CurOK /\ summary \in Summaries
  /\ baseline \subseteq Nat /\ records \in Seq(Rows)
  /\ InExperiment

(* Counting an experiment or an issue keeps the type of the summary.       *)
LEMMA CountType ==
  ASSUME NEW s \in Summaries
  PROVE  /\ [s EXCEPT !.succeeded = @ + 1] \in Summaries
         /\ [s EXCEPT !.failed = @ + 1] \in Summaries
         /\ [s EXCEPT !.skipped = @ + 1] \in Summaries
<1>1. s.succeeded \in Nat /\ s.failed \in Nat /\ s.skipped \in Nat
  BY DEF Summaries
<1>2. s.succeeded + 1 \in Nat /\ s.failed + 1 \in Nat /\ s.skipped + 1 \in Nat
  BY <1>1
<1>3. QED
  BY <1>2, Zenon DEF Summaries

(* Recording an issue keeps the type of the summary.                       *)
LEMMA AddIssueType ==
  ASSUME NEW s \in Summaries, NEW c \in Categories
  PROVE  AddIssue(s, c) \in Summaries
  BY DEF AddIssue, Summaries

(* An experiment that ends leaves well-typed progress.                     *)
LEMMA NextExperimentType ==
  ASSUME TypeInv, k <= Len(plan), NextExperiment, plan' = plan
  PROVE  pc' \in Steps /\ k' \in 1 .. Len(plan)' + 1 /\ CurOK' /\ InExperiment'
<1>1. Len(plan) \in Nat
  BY DEF TypeInv, TypeOK
<1>2. CurOK'
  BY IdleType DEF NextExperiment, CurOK
<1>3. QED
  BY <1>1, <1>2 DEF TypeInv, TypeOK, NextExperiment, Steps, InExperiment, Measuring

(* A failed experiment leaves well-typed progress.                         *)
LEMMA FailType ==
  ASSUME TypeInv, k <= Len(plan), plan' = plan,
         NEW c \in Categories, FailExperiment(c)
  PROVE  ProgressOK'
<1>1. summary' \in Summaries
  BY CountType, AddIssueType DEF FailExperiment, TypeInv, TypeOK
<1>2. QED
  BY <1>1, NextExperimentType DEF FailExperiment, ProgressOK, TypeInv, TypeOK

(* A skipped experiment leaves well-typed progress.                        *)
LEMMA SkipType ==
  ASSUME TypeInv, k <= Len(plan), plan' = plan, UNCHANGED <<baseline, records>>,
         NEW c \in Categories, SkipExperiment(c)
  PROVE  ProgressOK'
<1>1. summary' \in Summaries
  BY CountType, AddIssueType DEF SkipExperiment, TypeInv, TypeOK
<1>2. QED
  BY <1>1, NextExperimentType DEF SkipExperiment, ProgressOK, TypeInv, TypeOK

(* A preflight check moves on or fails the whole plan.                     *)
LEMMA PreflightType ==
  ASSUME TypeInv, NEW from \in Steps, NEW to \in Steps \ Measuring, NEW ok \in BOOLEAN,
         NEW c \in Categories, Preflight(from, to, ok, c)
  PROVE  /\ ProgressOK'
         /\ UNCHANGED <<input, files, edits, csv, plan, executors>>
<1>1. Len(plan) \in Nat
  BY DEF TypeInv, TypeOK
<1>2. summary' \in Summaries
  BY <1>1 DEF Preflight, GlobalFailure, TypeInv, TypeOK, Summaries
<1>3. pc' \in Steps /\ pc' \notin Measuring
  BY DEF Preflight, Steps, Measuring
<1>4. CurOK'
  BY DEF Preflight, TypeInv, TypeOK, CurOK
<1>5. QED
  BY <1>2, <1>3, <1>4 DEF Preflight, ledger, ProgressOK, TypeInv, TypeOK, InExperiment

(* The PNG files of the run are processed images of planned experiments.   *)
FilesOK ==
  /\ DOMAIN files \subseteq Experiment \X Files
  /\ \A x \in DOMAIN files : files[x] \in Images

(* Replacing some PNGs of one directory keeps the types of the files.      *)
LEMMA WrittenType ==
  ASSUME FilesOK, NEW dir \in Experiment, NEW images \in Partial(Files, Images),
         NEW done \in SUBSET DOMAIN images, files' = Written(dir, images, done)
  PROVE  FilesOK'
<1>1. done \subseteq Files /\ \A p \in done : images[p] \in Images
  BY DEF Partial
<1>2. DOMAIN files' = DOMAIN files \cup ({dir} \X done)
  BY DEF Written
<1>3. ASSUME NEW x \in DOMAIN files'
      PROVE  files'[x] \in Images
  <2>1. CASE x \in {dir} \X done
    BY <1>1, <2>1 DEF Written
  <2>2. CASE x \notin {dir} \X done
    BY <1>2, <2>2 DEF Written, FilesOK
  <2>3. QED
    BY <2>1, <2>2
<1>4. QED
  BY <1>1, <1>2, <1>3 DEF FilesOK

(* Other programs leave processed images behind, if changed ones.          *)
LEMMA EditOutputType ==
  ASSUME FilesOK, EditOutput
  PROVE  FilesOK'
<1>1. PICK x \in DOMAIN files :
        \/ files' = [y \in DOMAIN files \ {x} |-> files[y]]
        \/ \E s \in {"altered", "resized"} : files' = [files EXCEPT ![x].src = s]
  BY DEF EditOutput
<1>2. CASE files' = [y \in DOMAIN files \ {x} |-> files[y]]
  BY <1>2 DEF FilesOK
<1>3. ASSUME NEW s \in {"altered", "resized"}, files' = [files EXCEPT ![x].src = s]
      PROVE  FilesOK'
  BY <1>3 DEF FilesOK, Images
<1>4. QED
  BY <1>1, <1>2, <1>3

(* The error between two images is one of a channel of eight bits.         *)
LEMMA PixelErrorType ==
  ASSUME NEW a \in Images, NEW b \in Images
  PROVE  PixelError(a, b) \in 0 .. Different
<1>1. a.err \in 0 .. MaxError /\ b.err \in 0 .. MaxError
  BY DEF Images
<1>b. 0 .. MaxError \subseteq 0 .. 255
  BY BoundsAssumption
<1>2. PICK x \in 0 .. 255, y \in 0 .. 255 : a.err = x /\ b.err = y
  BY <1>1, <1>b
<1>d. (x > y => x - y \in 0 .. 255) /\ (~(x > y) => y - x \in 0 .. 255)
  OBVIOUS
<1>3. CASE a.src # b.src
  BY <1>3 DEF PixelError, Different
<1>4. CASE a.src = b.src /\ a.err > b.err
  BY <1>2, <1>d, <1>4 DEF PixelError, Different
<1>5. CASE a.src = b.src /\ ~(a.err > b.err)
  BY <1>2, <1>d, <1>5 DEF PixelError, Different
<1>6. QED
  BY <1>3, <1>4, <1>5

(* A repetition that was compared leaves well-typed locals.                *)
LEMMA AccumulateType ==
  ASSUME CurOK, NEW errors \in SUBSET (0 .. Different), NEW structural \in BOOLEAN,
         NEW tolerance \in Nat, Accumulate(errors, structural, tolerance)
  PROVE  CurOK'
<1>1. PICK worst \in errors :
        cur' = [cur EXCEPT
                 !.rep = @ + 1, !.result = <<>>,
                 !.passed = @ /\ ~structural /\ worst <= tolerance,
                 !.structural = @ \/ structural,
                 !.maxError = IF ~structural /\ worst > @ THEN worst ELSE @]
  BY DEF Accumulate
<1> DEFINE p == cur.passed /\ ~structural /\ worst <= tolerance
           st == cur.structural \/ structural
           m == IF ~structural /\ worst > cur.maxError THEN worst ELSE cur.maxError
<1>2. p \in BOOLEAN /\ st \in BOOLEAN
  OBVIOUS
<1>3. m \in 0 .. Different /\ cur.rep + 1 \in Nat
  BY DEF CurOK
<1>4. <<>> \in Partial(Files, Images)
  BY IdleType DEF Idle
<1>5. cur' = [cur EXCEPT !.rep = cur.rep + 1, !.result = <<>>, !.passed = p,
                         !.structural = st, !.maxError = m]
  BY <1>1
<1> HIDE DEF p, st, m
<1>6. QED
  BY <1>2, <1>3, <1>4, <1>5, Zenon DEF CurOK

(* Unless the experiment fails, validation accumulates errors of a channel *)
(* of eight bits under the tolerance of the back end.                      *)
LEMMA ValidateAccumulates ==
  ASSUME TypeInv, Validate, k <= Len(plan),
         ~(FailExperiment("Output") \/ FailExperiment("Processing"))
  PROVE  /\ \E errors \in SUBSET (0 .. Different), structural \in BOOLEAN :
              Accumulate(errors, structural, Tolerance(plan[k].backend))
         /\ pc' \in {"scan", "summarize"}
         /\ UNCHANGED <<summary, k, baseline, records>>
<1> DEFINE e == plan[k]
           own == OutputDirectory(e, cur.effective)
           sequential == SequentialDirectory(e.count)
           all == DOMAIN cur.result
           candidate(p) == files[<<own, p>>]
           reference(p) == IF e.backend = Sequential THEN cur.result[p]
                                                     ELSE files[<<sequential, p>>]
           errors == {PixelError(reference(p), candidate(p)) : p \in all}
           structural == \E p \in all :
             (reference(p).src = "resized") # (candidate(p).src = "resized")
<1>1. /\ Stored(own, all)
      /\ e.backend # Sequential => Stored(sequential, all)
      /\ Accumulate(errors, structural, Tolerance(e.backend))
      /\ pc' = IF cur.rep + 1 < Repetitions THEN "scan" ELSE "summarize"
      /\ UNCHANGED <<summary, k, baseline, records>>
  BY DEF Validate
<1>2. \A p \in all : candidate(p) \in Images /\ reference(p) \in Images
  <2>1. \A p \in all : cur.result[p] \in Images
    BY DEF TypeInv, TypeOK, CurOK, Partial
  <2>2. QED
    BY <1>1, <2>1 DEF TypeInv, TypeOK, Stored
<1>3. errors \in SUBSET (0 .. Different)
  BY <1>2, PixelErrorType
<1>4. structural \in BOOLEAN
  OBVIOUS
<1> HIDE DEF errors, structural
<1>5. QED
  BY <1>1, <1>3, <1>4

(* A validation that does not fail the experiment keeps the types of its   *)
(* locals.                                                                 *)
LEMMA ValidateType ==
  ASSUME TypeInv, Validate, k <= Len(plan),
         ~(FailExperiment("Output") \/ FailExperiment("Processing"))
  PROVE  /\ CurOK'
         /\ pc' \in {"scan", "summarize"}
         /\ UNCHANGED <<summary, k, baseline, records>>
<1>1. Tolerance(plan[k].backend) \in Nat
  BY DEF Tolerance
<1>2. QED
  BY <1>1, ValidateAccumulates, AccumulateType DEF TypeInv, TypeOK

(* A row of the result file has the type of a row.                         *)
LEMMA RecordType ==
  ASSUME CurOK, NEW e \in Experiment
  PROVE  Record(e) \in Rows
  BY DEF CurOK, Record, Rows, Experiment, Different

(* write_benchmark_records changes three fields of the summary.            *)
LEMMA ReportType ==
  ASSUME summary \in Summaries, WriteReport
  PROVE  summary' \in Summaries
<1> DEFINE c == IF summary.succeeded > 0 THEN NoCategory ELSE summary.primary
           i == summary.issues \cup {"Output"}
<1>1. c \in Categories \cup {NoCategory} /\ i \in SUBSET Categories
  BY DEF Summaries, Categories
<1>2. \/ summary' = [summary EXCEPT !.primary = c]
      \/ summary' = [[summary EXCEPT !.primary = c] EXCEPT !.csvPath = TRUE]
      \/ summary' = [summary EXCEPT !.primary = "Output", !.issues = i]
  BY DEF WriteReport
<1>3. "Output" \in Categories \cup {NoCategory}
  BY DEF Categories
<1> HIDE DEF c, i
<1>4. QED
  BY <1>1, <1>2, <1>3 DEF Summaries

(* Every step of the program and of the other programs keeps the types.    *)
LEMMA TypeStep == TypeInv /\ [RunnerNext]_vars => TypeInv'
<1> SUFFICES ASSUME TypeInv, [RunnerNext]_vars
             PROVE  TypeInv'
  OBVIOUS
<1> DEFINE Rest == UNCHANGED <<input, files, edits, setup, csv>>
<1>a. ASSUME ProgressOK', Rest
      PROVE  TypeInv'
  BY <1>a DEF TypeInv, TypeOK, ProgressOK, setup
<1>b. pc \in Measuring => k <= Len(plan)
  BY DEF TypeInv, InExperiment
<1>c. ASSUME NEW c \in Categories, FailExperiment(c), Rest, k <= Len(plan)
      PROVE  TypeInv'
  BY <1>a, <1>c, FailType DEF setup
<1>d. {"Input", "BackendUnavailable", "Processing", "Output", "Internal"} \subseteq Categories
  BY DEF Categories
<1>e. ASSUME CurOK', pc' \in Steps, k <= Len(plan), Rest,
             UNCHANGED <<summary, k, baseline, records>>
      PROVE  TypeInv'
  BY <1>e DEF TypeInv, TypeOK, InExperiment, setup
<1>f. k <= Len(plan) => plan[k] \in Experiment
  BY DEF TypeInv, TypeOK
<1>1. CASE ValidateCsvDestination
  <2>1. PICK ok \in BOOLEAN : Preflight("csv", "output", ok, "Output")
    BY <1>1 DEF ValidateCsvDestination
  <2>2. QED
    BY <1>1, <2>1, <1>d, PreflightType
    DEF ValidateCsvDestination, TypeInv, TypeOK, ProgressOK, Steps, Measuring
<1>2. CASE PrepareOutputDirectory
  <2>1. PICK ok \in BOOLEAN : Preflight("output", "catalog", ok, "Output")
    BY <1>2 DEF PrepareOutputDirectory
  <2>2. QED
    BY <1>2, <2>1, <1>d, PreflightType
    DEF PrepareOutputDirectory, TypeInv, TypeOK, ProgressOK, Steps, Measuring
<1>3. CASE ScanCatalog
  <2>1. catalog' \subseteq Files /\ UNCHANGED expected
    BY <1>3 DEF ScanCatalog, Present
  <2>2. PICK ok \in BOOLEAN : Preflight("catalog", "watermark", ok, "Input")
    BY <1>3 DEF ScanCatalog
  <2>3. QED
    BY <2>1, <2>2, <1>d, PreflightType
    DEF TypeInv, TypeOK, ProgressOK, Steps, Measuring
<1>4. CASE DecodeWatermark
  <2>1. PICK ok \in BOOLEAN : Preflight("watermark", "load", ok, "Input")
    BY <1>4 DEF DecodeWatermark
  <2>2. QED
    BY <1>4, <2>1, <1>d, PreflightType
    DEF DecodeWatermark, TypeInv, TypeOK, ProgressOK, Steps, Measuring
<1>5. CASE LoadPreflightBatch
  <2>1. PICK i \in DOMAIN plan :
          LET n == plan[i].count
              sources == DOMAIN LoadBatch(catalog, n)
          IN  /\ Preflight("load", "executors", Cardinality(sources) = n, "Input")
              /\ expected' = IF Cardinality(sources) = n THEN sources ELSE {}
    BY <1>5 DEF LoadPreflightBatch
  <2>2. DOMAIN LoadBatch(catalog, plan[i].count) \subseteq Files
    BY DEF LoadBatch, FirstOf, TypeInv, TypeOK
  <2>3. expected' \subseteq Files /\ UNCHANGED catalog
    BY <1>5, <2>1, <2>2 DEF LoadPreflightBatch
  <2>4. QED
    BY <2>1, <2>3, <1>d, PreflightType
    DEF TypeInv, TypeOK, ProgressOK, Steps, Measuring
<1>6. CASE QueryExecutors
  <2>1. executors' \in [Backends -> {"available", "unavailable", "unregistered"}]
    BY <1>6 DEF QueryExecutors, TypeInv, TypeOK
  <2>2. QED
    BY <1>6, <2>1
    DEF QueryExecutors, TypeInv, TypeOK, CurOK, Steps, InExperiment, Measuring, ledger
<1>7. CASE SkipUnavailable
  BY <1>7, <1>a, <1>d, SkipType DEF SkipUnavailable, setup
<1>8. CASE SkipWithoutBaseline
  BY <1>8, <1>a, <1>d, SkipType DEF SkipWithoutBaseline, setup
<1>9. CASE StartExperiment
  <2>1. k <= Len(plan) /\ Rest
    BY <1>9 DEF StartExperiment
  <2>2. CASE FailExperiment("Input")
    BY <2>1, <2>2, <1>c, <1>d
  <2>3. CASE /\ cur' = [cur EXCEPT !.batch = LoadBatch(catalog, plan[k].count)]
             /\ pc' = IF Warmups > 0 THEN "warmup" ELSE "scan"
             /\ UNCHANGED <<summary, k, baseline, records>>
    <3>1. LoadBatch(catalog, plan[k].count) \in Partial(Files, Versions)
      BY LoadBatchType DEF TypeInv, TypeOK
    <3>2. CurOK'
      BY <2>3, <3>1 DEF CurOK, TypeInv, TypeOK
    <3>3. QED
      BY <2>1, <2>3, <3>2, <1>e DEF Steps
  <2>4. QED
    BY <1>9, <2>2, <2>3 DEF StartExperiment
<1>10. CASE WarmUp
  <2>1. k <= Len(plan) /\ Rest
    BY <1>10, <1>b DEF WarmUp, Measuring
  <2>2. PICK x \in Executions(plan[k], cur.batch) :
          \/ x.category # NoCategory /\ FailExperiment(x.category)
          \/ FailExperiment("Internal")
          \/ /\ cur' = [cur EXCEPT !.warm = @ + 1, !.effective = x.effective]
             /\ pc' = IF cur.warm + 1 < Warmups THEN "warmup" ELSE "scan"
             /\ UNCHANGED <<summary, k, baseline, records>>
    BY <1>10 DEF WarmUp
  <2>3. x.category \in Categories \cup {NoCategory} /\ x.effective \in Nat
    BY <2>1, <1>f, ExecutionsType DEF TypeInv, TypeOK, CurOK
  <2>4. CASE FailExperiment(x.category) /\ x.category # NoCategory
    BY <2>1, <2>3, <2>4, <1>c
  <2>5. CASE FailExperiment("Internal")
    BY <2>1, <2>5, <1>c, <1>d
  <2>6. CASE /\ cur' = [cur EXCEPT !.warm = @ + 1, !.effective = x.effective]
             /\ pc' = IF cur.warm + 1 < Warmups THEN "warmup" ELSE "scan"
             /\ UNCHANGED <<summary, k, baseline, records>>
    <3>1. cur.warm + 1 \in Nat
      BY DEF TypeInv, TypeOK, CurOK
    <3>2. CurOK'
      BY <2>3, <2>6, <3>1 DEF CurOK, TypeInv, TypeOK
    <3>3. QED
      BY <2>1, <2>6, <3>2, <1>e DEF Steps
  <2>7. QED
    BY <2>2, <2>4, <2>5, <2>6
<1>11. CASE ScanInput
  <2>1. k <= Len(plan) /\ Rest
    BY <1>11, <1>b DEF ScanInput, Measuring
  <2>2. CASE FailExperiment("Input")
    BY <2>1, <2>2, <1>c, <1>d
  <2>3. CASE /\ cur' = [cur EXCEPT !.scan = Present, !.batch = <<>>]
             /\ pc' = "read"
             /\ UNCHANGED <<summary, k, baseline, records>>
    <3>1. <<>> \in Partial(Files, Versions) /\ Present \in SUBSET Files
      BY IdleType DEF Idle, Present
    <3>2. CurOK'
      BY <2>3, <3>1 DEF CurOK, TypeInv, TypeOK
    <3>3. QED
      BY <2>1, <2>3, <3>2, <1>e DEF Steps
  <2>4. QED
    BY <1>11, <2>2, <2>3 DEF ScanInput
<1>12. CASE ReadInput
  <2>1. k <= Len(plan) /\ Rest
    BY <1>12, <1>b DEF ReadInput, Measuring
  <2>2. CASE FailExperiment("Input")
    BY <2>1, <2>2, <1>c, <1>d
  <2>3. CASE /\ cur' = [cur EXCEPT !.scan = {}, !.batch = LoadBatch(cur.scan, plan[k].count)]
             /\ pc' = "execute"
             /\ UNCHANGED <<summary, k, baseline, records>>
    <3>1. LoadBatch(cur.scan, plan[k].count) \in Partial(Files, Versions)
      BY LoadBatchType DEF TypeInv, TypeOK, CurOK
    <3>2. CurOK'
      BY <2>3, <3>1 DEF CurOK, TypeInv, TypeOK
    <3>3. QED
      BY <2>1, <2>3, <3>2, <1>e DEF Steps
  <2>4. QED
    BY <1>12, <2>2, <2>3 DEF ReadInput
<1>13. CASE Execute
  <2>1. k <= Len(plan) /\ Rest
    BY <1>13, <1>b DEF Execute, Measuring
  <2>2. PICK x \in Executions(plan[k], cur.batch) :
          \/ x.category # NoCategory /\ FailExperiment(x.category)
          \/ FailExperiment("Internal")
          \/ /\ cur' = [cur EXCEPT !.batch = <<>>, !.result = x.images,
                                   !.effective = x.effective]
             /\ pc' = "write"
             /\ UNCHANGED <<summary, k, baseline, records>>
    BY <1>13 DEF Execute
  <2>3. /\ x.category \in Categories \cup {NoCategory}
        /\ x.images \in Partial(Files, Images) /\ x.effective \in Nat
    BY <2>1, <1>f, ExecutionsType DEF TypeInv, TypeOK, CurOK
  <2>4. CASE FailExperiment(x.category) /\ x.category # NoCategory
    BY <2>1, <2>3, <2>4, <1>c
  <2>5. CASE FailExperiment("Internal")
    BY <2>1, <2>5, <1>c, <1>d
  <2>6. CASE /\ cur' = [cur EXCEPT !.batch = <<>>, !.result = x.images,
                                   !.effective = x.effective]
             /\ pc' = "write"
             /\ UNCHANGED <<summary, k, baseline, records>>
    <3>1. <<>> \in Partial(Files, Versions)
      BY IdleType DEF Idle
    <3>2. CurOK'
      BY <2>3, <2>6, <3>1 DEF CurOK, TypeInv, TypeOK
    <3>3. QED
      BY <2>1, <2>6, <3>2, <1>e DEF Steps
  <2>7. QED
    BY <2>2, <2>4, <2>5, <2>6
<1>14. CASE WriteOutputs
  <2> DEFINE dir == OutputDirectory(plan[k], cur.effective)
  <2>1. k <= Len(plan) /\ UNCHANGED <<input, edits, setup, csv>>
    BY <1>14, <1>b DEF WriteOutputs, Measuring
  <2>2. dir \in Experiment
    BY <2>1, <1>f DEF TypeInv, TypeOK, CurOK, Experiment, OutputDirectory
  <2>3. PICK done \in SUBSET DOMAIN cur.result :
          /\ files' = Written(dir, cur.result, done)
          /\ \/ /\ pc' = "validate"
                /\ UNCHANGED <<cur, summary, k, baseline, records>>
             \/ FailExperiment("Output")
    BY <1>14 DEF WriteOutputs, FirstOf
  <2>4. FilesOK'
    BY <2>2, <2>3, WrittenType DEF TypeInv, TypeOK, CurOK, FilesOK
  <2>5. CASE FailExperiment("Output")
    BY <2>1, <2>4, <2>5, <1>d, FailType
    DEF TypeInv, TypeOK, ProgressOK, FilesOK, setup
  <2>6. CASE /\ pc' = "validate"
             /\ UNCHANGED <<cur, summary, k, baseline, records>>
    BY <2>1, <2>4, <2>6 DEF TypeInv, TypeOK, FilesOK, CurOK, InExperiment, Steps, setup
  <2>7. QED
    BY <2>3, <2>5, <2>6
<1>15. CASE Validate
  <2>1. k <= Len(plan) /\ Rest
    BY <1>15, <1>b DEF Validate, Measuring
  <2>2. CASE FailExperiment("Output") \/ FailExperiment("Processing")
    BY <2>1, <2>2, <1>c, <1>d
  <2>3. CASE ~(FailExperiment("Output") \/ FailExperiment("Processing"))
    <3>1. /\ CurOK'
          /\ pc' \in {"scan", "summarize"}
          /\ UNCHANGED <<summary, k, baseline, records>>
      BY <1>15, <2>1, <2>3, ValidateType
    <3>2. QED
      BY <2>1, <3>1, <1>e DEF Steps
  <2>4. QED
    BY <2>2, <2>3
<1>16. CASE Summarize
  <2>1. k <= Len(plan) /\ Rest
    BY <1>16, <1>b DEF Summarize, Measuring
  <2>2. CASE FailExperiment("Internal")
    BY <2>1, <2>2, <1>c, <1>d
  <2>3. CASE /\ NextExperiment
             /\ records' = Append(records, Record(plan[k]))
             /\ summary' = Settled
             /\ baseline' = Baselines(plan[k])
    <3>1. records' \in Seq(Rows)
      BY <2>1, <2>3, <1>f, RecordType DEF TypeInv, TypeOK
    <3>2. summary' \in Summaries
      BY <2>3, <1>d, CountType, AddIssueType DEF Settled, TypeInv, TypeOK
    <3>3. baseline' \subseteq Nat
      BY <2>1, <2>3, <1>f DEF Baselines, TypeInv, TypeOK, Experiment
    <3>4. QED
      BY <2>1, <2>3, <3>1, <3>2, <3>3, <1>a, NextExperimentType DEF ProgressOK, setup
  <2>4. QED
    BY <1>16, <2>2, <2>3 DEF Summarize
<1>17. CASE WriteReport
  <2>1. csv' \in Seq(Rows)
    BY <1>17 DEF WriteReport, TypeInv, TypeOK
  <2>2. summary' \in Summaries
    BY <1>17, ReportType DEF TypeInv, TypeOK
  <2>3. QED
    BY <1>17, <2>1, <2>2
    DEF WriteReport, TypeInv, TypeOK, CurOK, setup, Steps, InExperiment, Measuring
<1>18. CASE EditInput
  <2>1. input' \in [Files -> Versions \cup {"undecodable", "absent"}] /\ edits' \in 0 .. MaxEdits
    BY <1>18, BoundsAssumption DEF EditInput, TypeInv, TypeOK
  <2>2. QED
    BY <1>18, <2>1 DEF EditInput, TypeInv, TypeOK, CurOK, setup, ledger, InExperiment
<1>19. CASE EditOutput
  <2>1. FilesOK'
    BY <1>19, EditOutputType DEF TypeInv, TypeOK, FilesOK
  <2>2. edits' \in 0 .. MaxEdits
    BY <1>19, BoundsAssumption DEF EditOutput, TypeInv, TypeOK
  <2>3. QED
    BY <1>19, <2>1, <2>2
    DEF EditOutput, TypeInv, TypeOK, FilesOK, CurOK, setup, ledger, InExperiment
<1>20. CASE UNCHANGED vars
  BY <1>20 DEF vars, setup, ledger, TypeInv, TypeOK, CurOK, InExperiment
<1>21. QED
  BY <1>1, <1>2, <1>3, <1>4, <1>5, <1>6, <1>7, <1>8, <1>9, <1>10, <1>11, <1>12, <1>13,
     <1>14, <1>15, <1>16, <1>17, <1>18, <1>19, <1>20
  DEF RunnerNext, Process, OtherPrograms

(* The initial state is well typed.                                        *)
LEMMA TypeInit == Init => TypeInv
<1> SUFFICES ASSUME Init
             PROVE  TypeInv
  OBVIOUS
<1>1. plan \in Seq(Experiment) \ {<<>>} /\ Len(plan) \in Nat
  BY PlansAssumption DEF Init
<1>2. CurOK
  BY IdleType DEF Init, CurOK
<1>3. summary \in Summaries
  BY DEF Init, Summaries
<1>4. /\ 0 \in 0 .. MaxEdits /\ 1 \in 1 .. Len(plan) + 1
      /\ DOMAIN <<>> = {} /\ <<>> \in Seq(Rows)
  BY <1>1, BoundsAssumption
<1>5. QED
  BY <1>1, <1>2, <1>3, <1>4 DEF Init, TypeInv, TypeOK, InExperiment, Steps, Measuring

(* A step of the composition is a step of the runner or leaves it alone.   *)
LEMMA RunnerSteps == [Next]_<<vars, exit>> => [RunnerNext]_vars
  BY DEF Next, Program, MapSummary, MapException, Exited, RunnerNext

(* The inductive invariant of type correctness holds in every reachable    *)
(* state.                                                                  *)
THEOREM TypeInvariance == Spec => []TypeInv
<1>1. ControllerInit => TypeInv
  BY TypeInit DEF ControllerInit
<1>2. TypeInv /\ [Next]_<<vars, exit>> => TypeInv'
  BY TypeStep, RunnerSteps
<1>3. QED
  BY <1>1, <1>2, PTL DEF Spec

(* The variables of run_benchmark_plan and measure_experiment always have  *)
(* the types the code declares, whatever fails and whatever others change. *)
THEOREM TypeCorrect == Spec => []TypeOK
<1>1. TypeInv => TypeOK
  BY DEF TypeInv
<1>2. QED
  BY <1>1, TypeInvariance, PTL

-----------------------------------------------------------------------------
(* The ledger.                                                             *)

Preflights == {"csv", "output", "catalog", "watermark", "load", "executors"}

(* Nothing has been measured before the experiment loop.                   *)
Fresh == pc \in Preflights => k = 1 /\ records = <<>> /\ baseline = {}

(* Every baseline is the one of a validated Sequential row,                *)
BaselineJustified ==
  \A n \in baseline : \E j \in DOMAIN records :
    records[j].backend = Sequential /\ records[j].count = n /\ records[j].passed

(* and every validated Sequential row is a baseline.                       *)
BaselineComplete ==
  \A j \in DOMAIN records :
    records[j].backend = Sequential /\ records[j].passed => records[j].count \in baseline

(* The result file holds nothing of this run or, at its end, every row,    *)
(* and the summary says which.                                             *)
CsvInv ==
  /\ summary.csvPath <=> csv # <<>>
  /\ csv # <<>> => csv = records
  /\ pc # "returned" => csv = <<>>

LedgerInv ==
  /\ TypeInv /\ Fresh /\ CountsConsistent
  /\ BaselineJustified /\ BaselineComplete
  /\ SpeedupJustified /\ RowsMatchCounts /\ CsvInv

-----------------------------------------------------------------------------
(* What a step does to the ledger: one of five kinds.                      *)

Elsewhere ==
  /\ UNCHANGED <<plan, k, baseline, records, csv, summary>>
  /\ pc' # pc => /\ pc # "returned" /\ pc' # "returned"
                 /\ pc' \in Preflights => pc \in Preflights

PreflightFailed ==
  /\ pc \in Preflights /\ pc' = "returned"
  /\ \E c \in Categories : summary' = GlobalFailure(c)
  /\ UNCHANGED <<plan, k, baseline, records, csv>>

LoopStep ==
  /\ k <= Len(plan) /\ pc \notin Preflights /\ pc # "returned"
  /\ k' = k + 1 /\ pc' = "next"
  /\ UNCHANGED <<plan, csv>>

(* The two reasons to skip an experiment.                                  *)
SkipCause ==
  \/ executors[plan[k].backend] # "available"
  \/ plan[k].backend # Sequential /\ plan[k].count \notin baseline

WithoutRow ==
  /\ LoopStep /\ UNCHANGED <<baseline, records>>
  /\ \E c \in Categories :
       \/ summary' = AddIssue([summary EXCEPT !.failed = @ + 1], c)
       \/ SkipCause /\ summary' = AddIssue([summary EXCEPT !.skipped = @ + 1], c)

WithRow ==
  /\ LoopStep
  /\ records' = Append(records, Record(plan[k]))
  /\ summary' = Settled /\ baseline' = Baselines(plan[k])

(* Every step of the runner or of another program is of one of the five    *)
(* kinds.                                                                  *)
LEMMA StepKinds ==
  ASSUME TypeInv, [RunnerNext]_vars
  PROVE  Elsewhere \/ PreflightFailed \/ WithoutRow \/ WithRow \/ WriteReport
<1> DEFINE Goal == Elsewhere \/ PreflightFailed \/ WithoutRow \/ WithRow \/ WriteReport
<1>a. {"Input", "BackendUnavailable", "Processing", "Output", "Internal"} \subseteq Categories
  BY DEF Categories
<1>b. ASSUME NEW from \in Preflights, NEW to \in Preflights, NEW ok \in BOOLEAN,
             NEW c \in Categories, Preflight(from, to, ok, c)
      PROVE  Goal
  BY <1>b DEF Preflight, Preflights, ledger, Elsewhere, PreflightFailed
<1>c. pc \in Measuring => k <= Len(plan) /\ pc \notin Preflights /\ pc # "returned"
  BY DEF TypeInv, InExperiment, Measuring, Preflights
<1>d. ASSUME NEW c \in Categories, FailExperiment(c), UNCHANGED <<plan, csv>>,
             k <= Len(plan), pc \in Measuring \cup {"next"}
      PROVE  Goal
  BY <1>d DEF FailExperiment, NextExperiment, WithoutRow, LoopStep, Measuring, Preflights
<1>e. ASSUME NEW c \in Categories, SkipExperiment(c), UNCHANGED <<plan, csv, baseline, records>>,
             k <= Len(plan), pc = "next", SkipCause
      PROVE  Goal
  BY <1>e DEF SkipExperiment, NextExperiment, WithoutRow, LoopStep, Preflights
<1>f. ASSUME UNCHANGED <<plan, csv, summary, k, baseline, records>>,
             pc \in Measuring \cup {"next"}, pc' \in Measuring
      PROVE  Goal
  BY <1>f DEF Elsewhere, Measuring, Preflights
<1>g. ASSUME UNCHANGED <<plan, k, baseline, records, csv, summary, pc>>
      PROVE  Goal
  BY <1>g DEF Elsewhere
<1>1. CASE ValidateCsvDestination
  BY <1>1, <1>a, <1>b DEF ValidateCsvDestination, Preflights
<1>2. CASE PrepareOutputDirectory
  BY <1>2, <1>a, <1>b DEF PrepareOutputDirectory, Preflights
<1>3. CASE ScanCatalog
  BY <1>3, <1>a, <1>b DEF ScanCatalog, Preflights
<1>4. CASE DecodeWatermark
  BY <1>4, <1>a, <1>b DEF DecodeWatermark, Preflights
<1>5. CASE LoadPreflightBatch
  BY <1>5, <1>a, <1>b DEF LoadPreflightBatch, Preflights
<1>6. CASE QueryExecutors
  BY <1>6 DEF QueryExecutors, Elsewhere, Preflights, ledger
<1>7. CASE SkipUnavailable
  BY <1>7, <1>a, <1>e DEF SkipUnavailable, SkipCause, setup
<1>8. CASE SkipWithoutBaseline
  BY <1>8, <1>a, <1>e DEF SkipWithoutBaseline, SkipCause, setup
<1>9. CASE StartExperiment
  <2>1. k <= Len(plan) /\ pc = "next" /\ UNCHANGED <<plan, csv>>
    BY <1>9 DEF StartExperiment, setup
  <2>2. \/ FailExperiment("Input")
        \/ pc' \in {"warmup", "scan"} /\ UNCHANGED <<summary, k, baseline, records>>
    BY <1>9 DEF StartExperiment
  <2>3. QED
    BY <2>1, <2>2, <1>a, <1>d, <1>f DEF Measuring
<1>10. CASE WarmUp
  <2>1. pc \in Measuring /\ UNCHANGED <<plan, csv>>
    BY <1>10 DEF WarmUp, setup, Measuring
  <2>2. PICK x \in Executions(plan[k], cur.batch) :
          \/ x.category # NoCategory /\ FailExperiment(x.category)
          \/ FailExperiment("Internal")
          \/ pc' \in {"warmup", "scan"} /\ UNCHANGED <<summary, k, baseline, records>>
    BY <1>10 DEF WarmUp
  <2>3. x.category \in Categories \cup {NoCategory}
    BY <1>a DEF Executions
  <2>4. QED
    BY <2>1, <2>2, <2>3, <1>a, <1>c, <1>d, <1>f DEF Measuring
<1>11. CASE ScanInput
  <2>1. pc \in Measuring /\ UNCHANGED <<plan, csv>>
    BY <1>11 DEF ScanInput, setup, Measuring
  <2>2. \/ FailExperiment("Input")
        \/ pc' = "read" /\ UNCHANGED <<summary, k, baseline, records>>
    BY <1>11 DEF ScanInput
  <2>3. QED
    BY <2>1, <2>2, <1>a, <1>c, <1>d, <1>f DEF Measuring
<1>12. CASE ReadInput
  <2>1. pc \in Measuring /\ UNCHANGED <<plan, csv>>
    BY <1>12 DEF ReadInput, setup, Measuring
  <2>2. \/ FailExperiment("Input")
        \/ pc' = "execute" /\ UNCHANGED <<summary, k, baseline, records>>
    BY <1>12 DEF ReadInput
  <2>3. QED
    BY <2>1, <2>2, <1>a, <1>c, <1>d, <1>f DEF Measuring
<1>13. CASE Execute
  <2>1. pc \in Measuring /\ UNCHANGED <<plan, csv>>
    BY <1>13 DEF Execute, setup, Measuring
  <2>2. PICK x \in Executions(plan[k], cur.batch) :
          \/ x.category # NoCategory /\ FailExperiment(x.category)
          \/ FailExperiment("Internal")
          \/ pc' = "write" /\ UNCHANGED <<summary, k, baseline, records>>
    BY <1>13 DEF Execute
  <2>3. x.category \in Categories \cup {NoCategory}
    BY <1>a DEF Executions
  <2>4. QED
    BY <2>1, <2>2, <2>3, <1>a, <1>c, <1>d, <1>f DEF Measuring
<1>14. CASE WriteOutputs
  <2>1. pc \in Measuring /\ UNCHANGED <<plan, csv>>
    BY <1>14 DEF WriteOutputs, setup, Measuring
  <2>2. \/ FailExperiment("Output")
        \/ pc' = "validate" /\ UNCHANGED <<summary, k, baseline, records>>
    BY <1>14 DEF WriteOutputs
  <2>3. QED
    BY <2>1, <2>2, <1>a, <1>c, <1>d, <1>f DEF Measuring
<1>15. CASE Validate
  <2>1. pc \in Measuring /\ UNCHANGED <<plan, csv>>
    BY <1>15 DEF Validate, setup, Measuring
  <2>2. \/ FailExperiment("Output") \/ FailExperiment("Processing")
        \/ pc' \in {"scan", "summarize"} /\ UNCHANGED <<summary, k, baseline, records>>
    BY <1>15, <1>c, <2>1, ValidateType
  <2>3. QED
    BY <2>1, <2>2, <1>a, <1>c, <1>d, <1>f DEF Measuring
<1>16. CASE Summarize
  <2>1. pc \in Measuring /\ UNCHANGED <<plan, csv>>
    BY <1>16 DEF Summarize, setup, Measuring
  <2>2. CASE FailExperiment("Internal")
    BY <2>1, <2>2, <1>a, <1>c, <1>d
  <2>3. CASE ~FailExperiment("Internal")
    BY <1>16, <2>1, <2>3, <1>c DEF Summarize, NextExperiment, WithRow, LoopStep
  <2>4. QED
    BY <2>2, <2>3
<1>17. CASE EditInput
  BY <1>17, <1>g DEF EditInput, setup, ledger
<1>18. CASE EditOutput
  BY <1>18, <1>g DEF EditOutput, setup, ledger
<1>19. CASE UNCHANGED vars
  BY <1>19, <1>g DEF vars, setup, ledger
<1>20. QED
  BY <1>1, <1>2, <1>3, <1>4, <1>5, <1>6, <1>7, <1>8, <1>9, <1>10, <1>11, <1>12, <1>13,
     <1>14, <1>15, <1>16, <1>17, <1>18, <1>19
  DEF RunnerNext, Process, OtherPrograms

-----------------------------------------------------------------------------
(* What the kinds of steps do to the counts of the summary.                *)

Counted(s) == s.succeeded + s.failed + s.skipped

(* An issue changes no count.                                              *)
LEMMA IssueCounts ==
  ASSUME NEW s \in Summaries, NEW c \in Categories
  PROVE  LET t == AddIssue(s, c)
         IN  /\ t.succeeded = s.succeeded /\ t.failed = s.failed
             /\ t.skipped = s.skipped /\ t.csvPath = s.csvPath
  BY DEF AddIssue, Summaries

(* An experiment that ends without a row counts once, as failed or as      *)
(* skipped.                                                                *)
LEMMA WithoutRowCounts ==
  ASSUME summary \in Summaries, WithoutRow
  PROVE  /\ Counted(summary') = Counted(summary) + 1
         /\ summary'.succeeded = summary.succeeded
         /\ summary'.failed >= summary.failed
         /\ summary'.csvPath = summary.csvPath
         /\ summary'.skipped # summary.skipped => SkipCause
<1>1. summary.succeeded \in Nat /\ summary.failed \in Nat /\ summary.skipped \in Nat
  BY DEF Summaries
<1>2. PICK c \in Categories :
        \/ summary' = AddIssue([summary EXCEPT !.failed = @ + 1], c)
        \/ SkipCause /\ summary' = AddIssue([summary EXCEPT !.skipped = @ + 1], c)
  BY DEF WithoutRow
<1>3. CASE summary' = AddIssue([summary EXCEPT !.failed = @ + 1], c)
  <2> DEFINE s == [summary EXCEPT !.failed = @ + 1]
  <2>1. s \in Summaries
    BY CountType
  <2>2. /\ s.succeeded = summary.succeeded /\ s.failed = summary.failed + 1
        /\ s.skipped = summary.skipped /\ s.csvPath = summary.csvPath
    BY DEF Summaries
  <2> HIDE DEF s
  <2>3. /\ summary'.succeeded = s.succeeded /\ summary'.failed = s.failed
        /\ summary'.skipped = s.skipped /\ summary'.csvPath = s.csvPath
    BY <1>3, <2>1, IssueCounts DEF s
  <2>4. QED
    BY <1>1, <2>2, <2>3 DEF Counted
<1>4. CASE SkipCause /\ summary' = AddIssue([summary EXCEPT !.skipped = @ + 1], c)
  <2> DEFINE s == [summary EXCEPT !.skipped = @ + 1]
  <2>1. s \in Summaries
    BY CountType
  <2>2. /\ s.succeeded = summary.succeeded /\ s.failed = summary.failed
        /\ s.skipped = summary.skipped + 1 /\ s.csvPath = summary.csvPath
    BY DEF Summaries
  <2> HIDE DEF s
  <2>3. /\ summary'.succeeded = s.succeeded /\ summary'.failed = s.failed
        /\ summary'.skipped = s.skipped /\ summary'.csvPath = s.csvPath
    BY <1>4, <2>1, IssueCounts DEF s
  <2>4. QED
    BY <1>1, <1>4, <2>2, <2>3 DEF Counted
<1>5. QED
  BY <1>2, <1>3, <1>4

(* An experiment that ends with a row counts once, as succeeded or as      *)
(* failed.                                                                 *)
LEMMA SettledCounts ==
  ASSUME summary \in Summaries
  PROVE  /\ Counted(Settled) = Counted(summary) + 1 /\ Settled.skipped = summary.skipped
         /\ cur.passed => /\ Settled.succeeded = summary.succeeded + 1
                          /\ Settled.failed = summary.failed
         /\ ~cur.passed => /\ Settled.succeeded = summary.succeeded
                           /\ Settled.failed = summary.failed + 1
         /\ Settled.csvPath = summary.csvPath
<1>1. summary.succeeded \in Nat /\ summary.failed \in Nat /\ summary.skipped \in Nat
  BY DEF Summaries
<1>2. CASE cur.passed
  <2>1. /\ Settled.succeeded = summary.succeeded + 1 /\ Settled.failed = summary.failed
        /\ Settled.skipped = summary.skipped /\ Settled.csvPath = summary.csvPath
    BY <1>2 DEF Settled, Summaries
  <2>2. QED
    BY <1>1, <1>2, <2>1 DEF Counted
<1>3. CASE ~cur.passed
  <2> DEFINE s == [summary EXCEPT !.failed = @ + 1]
  <2>1. s \in Summaries /\ "Processing" \in Categories
    BY CountType DEF Categories
  <2>2. /\ s.succeeded = summary.succeeded /\ s.failed = summary.failed + 1
        /\ s.skipped = summary.skipped /\ s.csvPath = summary.csvPath
    BY DEF Summaries
  <2>3. Settled = AddIssue(s, "Processing")
    BY <1>3 DEF Settled
  <2> HIDE DEF s
  <2>4. /\ Settled.succeeded = s.succeeded /\ Settled.failed = s.failed
        /\ Settled.skipped = s.skipped /\ Settled.csvPath = s.csvPath
    BY <2>1, <2>3, IssueCounts
  <2>5. QED
    BY <1>1, <1>3, <2>2, <2>4 DEF Counted
<1>4. QED
  BY <1>2, <1>3

(* The report changes neither the counts nor, unless it was written, the   *)
(* path of the result file.                                                *)
LEMMA ReportCounts ==
  ASSUME summary \in Summaries, WriteReport
  PROVE  /\ Counted(summary') = Counted(summary) /\ summary'.skipped = summary.skipped
         /\ summary'.succeeded = summary.succeeded /\ summary'.failed = summary.failed
         /\ \/ csv' = csv /\ summary'.csvPath = summary.csvPath
            \/ csv' = records /\ records # <<>> /\ summary'.csvPath = TRUE
<1> DEFINE c == IF summary.succeeded > 0 THEN NoCategory ELSE summary.primary
           i == summary.issues \cup {"Output"}
<1>1. \/ summary' = [summary EXCEPT !.primary = c] /\ csv' = csv
      \/ /\ summary' = [[summary EXCEPT !.primary = c] EXCEPT !.csvPath = TRUE]
         /\ csv' = records /\ records # <<>>
      \/ summary' = [summary EXCEPT !.primary = "Output", !.issues = i] /\ csv' = csv
  BY DEF WriteReport
<1> HIDE DEF c, i
<1>2. /\ summary'.succeeded = summary.succeeded /\ summary'.failed = summary.failed
      /\ summary'.skipped = summary.skipped
  BY <1>1 DEF Summaries
<1>3. \/ csv' = csv /\ summary'.csvPath = summary.csvPath
      \/ csv' = records /\ records # <<>> /\ summary'.csvPath = TRUE
  BY <1>1 DEF Summaries
<1>4. QED
  BY <1>2, <1>3 DEF Counted

(* A failed preflight counts every experiment of the plan as failed.       *)
LEMMA GlobalCounts ==
  ASSUME summary \in Summaries, NEW c \in Categories
  PROVE  /\ GlobalFailure(c).succeeded = summary.succeeded
         /\ GlobalFailure(c).failed = Len(plan)
         /\ GlobalFailure(c).skipped = summary.skipped
         /\ GlobalFailure(c).csvPath = summary.csvPath
  BY DEF GlobalFailure, Summaries

-----------------------------------------------------------------------------
(* The validated rows of a result file.                                    *)

(* The validated rows are finitely many.                                   *)
LEMMA PassedRowsFinite ==
  ASSUME NEW rows \in Seq(Rows)
  PROVE  /\ IsFiniteSet(PassedRows(rows))
         /\ Cardinality(PassedRows(rows)) \in 0 .. Len(rows)
<1>1. IsFiniteSet(1 .. Len(rows)) /\ Cardinality(1 .. Len(rows)) = Len(rows)
  <2>1. Len(rows) \in Nat
    OBVIOUS
  <2>2. /\ IsFiniteSet(1 .. Len(rows))
        /\ Cardinality(1 .. Len(rows)) = IF 1 > Len(rows) THEN 0 ELSE Len(rows) - 1 + 1
    BY <2>1, FS_Interval
  <2>3. QED
    BY <2>1, <2>2
<1>2. PassedRows(rows) \subseteq 1 .. Len(rows)
  BY DEF PassedRows
<1>3. /\ IsFiniteSet(PassedRows(rows))
      /\ Cardinality(PassedRows(rows)) <= Cardinality(1 .. Len(rows))
  BY <1>1, <1>2, FS_Subset
<1>4. QED
  BY <1>1, <1>3, FS_CardinalityType

(* A new row counts if it was validated.                                   *)
LEMMA PassedRowsAppend ==
  ASSUME NEW rows \in Seq(Rows), NEW r \in Rows
  PROVE  Cardinality(PassedRows(Append(rows, r)))
           = IF r.passed THEN Cardinality(PassedRows(rows)) + 1
                         ELSE Cardinality(PassedRows(rows))
<1> DEFINE new == Append(rows, r)
<1>1. /\ DOMAIN new = 1 .. Len(rows) + 1 /\ DOMAIN rows = 1 .. Len(rows)
      /\ \A i \in 1 .. Len(rows) : new[i] = rows[i]
      /\ new[Len(rows) + 1] = r /\ Len(rows) + 1 \notin DOMAIN rows
  OBVIOUS
<1> HIDE DEF new
<1>2. CASE r.passed
  <2>1. PassedRows(new) = PassedRows(rows) \cup {Len(rows) + 1}
    BY <1>1, <1>2 DEF PassedRows
  <2>2. Len(rows) + 1 \notin PassedRows(rows)
    BY <1>1 DEF PassedRows
  <2>3. QED
    BY <1>2, <2>1, <2>2, PassedRowsFinite, FS_AddElement DEF new
<1>3. CASE ~r.passed
  <2>1. PassedRows(new) = PassedRows(rows)
    BY <1>1, <1>3 DEF PassedRows
  <2>2. QED
    BY <1>3, <2>1 DEF new
<1>4. QED
  BY <1>2, <1>3

(* An empty result file has no validated row.                              *)
LEMMA NoPassedRows == Cardinality(PassedRows(<<>>)) = 0
<1>1. PassedRows(<<>>) = {}
  BY DEF PassedRows
<1>2. QED
  BY <1>1, FS_EmptySet

-----------------------------------------------------------------------------
(* The parts of LedgerInv, one after the other.                            *)

(* No step before the loop measures anything.                              *)
LEMMA FreshStep ==
  ASSUME LedgerInv, [RunnerNext]_vars
  PROVE  Fresh'
  BY StepKinds
  DEF LedgerInv, Fresh, Elsewhere, PreflightFailed, WithoutRow, WithRow, LoopStep,
      WriteReport, Preflights

(* Every step keeps the counts consistent.                                 *)
LEMMA CountsStep ==
  ASSUME LedgerInv, [RunnerNext]_vars
  PROVE  CountsConsistent'
<1>1. summary \in Summaries /\ Len(plan) \in Nat /\ k \in 1 .. Len(plan) + 1
  BY DEF LedgerInv, TypeInv, TypeOK
<1>2. /\ pc = "returned" => Counted(summary) = Len(plan)
      /\ pc # "returned" => Counted(summary) = k - 1
  BY DEF LedgerInv, CountsConsistent, Counted
<1>3. summary.succeeded \in Nat /\ summary.failed \in Nat /\ summary.skipped \in Nat
  BY <1>1 DEF Summaries
<1>4. /\ pc' = "returned" => Counted(summary') = Len(plan')
      /\ pc' # "returned" => Counted(summary') = k' - 1
  <2>1. CASE Elsewhere
    BY <1>2, <2>1 DEF Elsewhere
  <2>2. CASE PreflightFailed
    <3>1. PICK c \in Categories : summary' = GlobalFailure(c)
      BY <2>2 DEF PreflightFailed
    <3>2. Counted(summary) = 0
      BY <1>2, <2>2 DEF PreflightFailed, LedgerInv, Fresh, Preflights
    <3>3. summary.succeeded = 0 /\ summary.skipped = 0
      BY <1>3, <3>2 DEF Counted
    <3>4. Counted(summary') = Len(plan)
      BY <1>1, <3>1, <3>3, GlobalCounts DEF Counted
    <3>5. QED
      BY <2>2, <3>4 DEF PreflightFailed
  <2>3. CASE WithoutRow
    BY <1>1, <1>2, <2>3, WithoutRowCounts DEF WithoutRow, LoopStep
  <2>4. CASE WithRow
    BY <1>1, <1>2, <2>4, SettledCounts DEF WithRow, LoopStep
  <2>5. CASE WriteReport
    <3>1. pc = "next" /\ k = Len(plan) + 1 /\ pc' = "returned" /\ plan' = plan
      BY <1>1, <2>5 DEF WriteReport, setup
    <3>2. QED
      BY <1>1, <1>2, <2>5, <3>1, ReportCounts
  <2>6. QED
    BY <2>1, <2>2, <2>3, <2>4, <2>5, StepKinds DEF LedgerInv
<1>5. QED
  BY <1>4 DEF CountsConsistent, Counted

(* The rows and baselines grow by at most one row, at the end.             *)
LEMMA RowsStep ==
  ASSUME LedgerInv, [RunnerNext]_vars
  PROVE  \/ UNCHANGED <<records, baseline>>
         \/ WithRow /\ Record(plan[k]) \in Rows /\ plan[k] \in Experiment
<1>1. CASE WithRow
  <2>1. plan[k] \in Experiment
    BY <1>1 DEF WithRow, LoopStep, LedgerInv, TypeInv, TypeOK
  <2>2. QED
    BY <1>1, <2>1, RecordType DEF LedgerInv, TypeInv, TypeOK
<1>2. CASE ~WithRow
  BY <1>2, StepKinds
  DEF LedgerInv, Elsewhere, PreflightFailed, WithoutRow, WriteReport
<1>3. QED
  BY <1>1, <1>2

(* Every step keeps the baselines and the speedups justified.              *)
LEMMA BaselineStep ==
  ASSUME LedgerInv, [RunnerNext]_vars
  PROVE  BaselineJustified' /\ BaselineComplete' /\ SpeedupJustified'
<1>1. CASE UNCHANGED <<records, baseline>>
  BY <1>1 DEF LedgerInv, BaselineJustified, BaselineComplete, SpeedupJustified
<1>2. CASE WithRow /\ Record(plan[k]) \in Rows /\ plan[k] \in Experiment
  <2> DEFINE e == plan[k]
             r == Record(e)
             l == Len(records)
  <2>1. records \in Seq(Rows) /\ l \in Nat
    BY DEF LedgerInv, TypeInv, TypeOK
  <2>2. /\ DOMAIN records' = 1 .. l + 1 /\ DOMAIN records = 1 .. l
        /\ \A i \in 1 .. l : records'[i] = records[i]
        /\ records'[l + 1] = r
    BY <1>2, <2>1 DEF WithRow
  <2>3. r.backend = e.backend /\ r.count = e.count /\ r.passed = cur.passed
    BY DEF Record
  <2>4. ASSUME NEW n \in baseline'
        PROVE  \E j \in DOMAIN records' : /\ records'[j].backend = Sequential
                                         /\ records'[j].count = n /\ records'[j].passed
    <3>1. CASE n \in baseline
      BY <2>1, <2>2, <3>1 DEF LedgerInv, BaselineJustified
    <3>2. CASE n \notin baseline
      <4>1. e.backend = Sequential /\ cur.passed /\ n = e.count
        BY <1>2, <3>2 DEF WithRow, Baselines
      <4>2. l + 1 \in DOMAIN records'
        BY <2>1, <2>2
      <4>3. QED
        BY <2>2, <2>3, <4>1, <4>2
    <3>3. QED
      BY <3>1, <3>2
  <2>5. ASSUME NEW i \in DOMAIN records', records'[i].speedup # "none"
        PROVE  /\ records'[i].passed
               /\ \E j \in 1 .. i : /\ records'[j].backend = Sequential
                                    /\ records'[j].count = records'[i].count
                                    /\ records'[j].passed
    <3>1. CASE i \in 1 .. l
      BY <2>1, <2>2, <2>5, <3>1 DEF LedgerInv, SpeedupJustified
    <3>2. CASE i = l + 1
      <4>1. cur.passed /\ (e.backend = Sequential \/ e.count \in baseline)
        BY <2>2, <2>5, <3>2 DEF Record
      <4>2. CASE e.backend = Sequential
        BY <2>1, <2>2, <2>3, <3>2, <4>1, <4>2
      <4>3. CASE e.count \in baseline
        <5>1. PICK j \in 1 .. l : /\ records[j].backend = Sequential
                                  /\ records[j].count = e.count /\ records[j].passed
          BY <2>2, <4>3 DEF LedgerInv, BaselineJustified
        <5>2. j \in 1 .. i
          BY <2>1, <3>2
        <5>3. QED
          BY <2>2, <2>3, <3>2, <4>1, <5>1, <5>2
      <4>4. QED
        BY <4>1, <4>2, <4>3
    <3>3. QED
      BY <2>1, <2>2, <3>1, <3>2
  <2>6. ASSUME NEW j \in DOMAIN records',
               records'[j].backend = Sequential, records'[j].passed
        PROVE  records'[j].count \in baseline'
    <3>1. baseline \subseteq baseline'
      BY <1>2 DEF WithRow, Baselines
    <3>2. CASE j \in 1 .. l
      BY <2>2, <2>6, <3>1, <3>2 DEF LedgerInv, BaselineComplete
    <3>3. CASE j = l + 1
      BY <1>2, <2>2, <2>3, <2>6, <3>3 DEF WithRow, Baselines
    <3>4. QED
      BY <2>1, <2>2, <3>2, <3>3
  <2>7. QED
    BY <2>4, <2>5, <2>6 DEF BaselineJustified, BaselineComplete, SpeedupJustified
<1>3. QED
  BY <1>1, <1>2, RowsStep

(* Every step keeps rows and counts in agreement.                          *)
LEMMA RowsMatchStep ==
  ASSUME LedgerInv, [RunnerNext]_vars
  PROVE  RowsMatchCounts'
<1> DEFINE n == Cardinality(PassedRows(records))
<1>1. /\ summary \in Summaries /\ records \in Seq(Rows)
      /\ k \in 1 .. Len(plan) + 1 /\ Len(plan) \in Nat /\ Len(records) \in Nat
  BY DEF LedgerInv, TypeInv, TypeOK
<1>2. summary.succeeded \in Nat /\ summary.failed \in Nat /\ n \in Nat
  BY <1>1, PassedRowsFinite DEF Summaries
<1>3. n = summary.succeeded /\ Len(records) - n <= summary.failed
  BY DEF LedgerInv, RowsMatchCounts, PassedRows
<1>4. /\ Cardinality(PassedRows(records')) = summary'.succeeded
      /\ Len(records') - Cardinality(PassedRows(records')) <= summary'.failed
  <2>1. CASE Elsewhere
    BY <1>3, <2>1 DEF Elsewhere
  <2>2. CASE PreflightFailed
    <3>1. PICK c \in Categories : summary' = GlobalFailure(c)
      BY <2>2 DEF PreflightFailed
    <3>2. records' = <<>> /\ records = <<>>
      BY <2>2 DEF PreflightFailed, LedgerInv, Fresh
    <3>3. summary'.succeeded = 0 /\ summary'.failed = Len(plan)
      BY <1>1, <1>3, <3>1, <3>2, GlobalCounts, NoPassedRows
    <3>4. QED
      BY <1>1, <3>2, <3>3, NoPassedRows
  <2>3. CASE WithoutRow
    <3>1. UNCHANGED records /\ summary'.succeeded = summary.succeeded
      BY <1>1, <2>3, WithoutRowCounts DEF WithoutRow
    <3>2. summary'.failed >= summary.failed /\ summary' \in Summaries
      BY <1>1, <2>3, WithoutRowCounts, TypeStep DEF LedgerInv, TypeInv, TypeOK
    <3>3. summary'.failed \in Nat
      BY <3>2 DEF Summaries
    <3>4. QED
      BY <1>1, <1>2, <1>3, <3>1, <3>2, <3>3
  <2>4. CASE WithRow
    <3>1. Record(plan[k]) \in Rows /\ Record(plan[k]).passed = cur.passed
      BY <2>4, RecordType DEF WithRow, LoopStep, LedgerInv, TypeInv, TypeOK, Record
    <3>2. /\ Len(records') = Len(records) + 1
          /\ Cardinality(PassedRows(records')) = IF cur.passed THEN n + 1 ELSE n
      BY <1>1, <2>4, <3>1, PassedRowsAppend DEF WithRow
    <3>3. CASE cur.passed
      BY <1>1, <1>2, <1>3, <2>4, <3>2, <3>3, SettledCounts DEF WithRow
    <3>4. CASE ~cur.passed
      BY <1>1, <1>2, <1>3, <2>4, <3>2, <3>4, SettledCounts DEF WithRow
    <3>5. QED
      BY <3>3, <3>4
  <2>5. CASE WriteReport
    <3>1. UNCHANGED records
      BY <2>5 DEF WriteReport
    <3>2. QED
      BY <1>1, <1>3, <2>5, <3>1, ReportCounts
  <2>6. QED
    BY <2>1, <2>2, <2>3, <2>4, <2>5, StepKinds DEF LedgerInv
<1>5. QED
  BY <1>4 DEF RowsMatchCounts, PassedRows

(* Every step keeps the result file empty or equal to the rows.            *)
LEMMA CsvStep ==
  ASSUME LedgerInv, [RunnerNext]_vars
  PROVE  CsvInv'
<1>1. summary \in Summaries
  BY DEF LedgerInv, TypeInv, TypeOK
<1>2. /\ summary.csvPath <=> csv # <<>>
      /\ csv # <<>> => csv = records
      /\ pc # "returned" => csv = <<>>
  BY DEF LedgerInv, CsvInv
<1>3. CASE Elsewhere
  BY <1>2, <1>3 DEF Elsewhere, CsvInv
<1>4. CASE PreflightFailed
  <2>1. summary'.csvPath = summary.csvPath /\ UNCHANGED <<records, csv>> /\ pc' = "returned"
    BY <1>1, <1>4, GlobalCounts DEF PreflightFailed
  <2>2. QED
    BY <1>2, <2>1 DEF CsvInv
<1>5. CASE WithoutRow
  <2>1. /\ summary'.csvPath = summary.csvPath /\ UNCHANGED <<records, csv>>
        /\ pc # "returned" /\ pc' = "next"
    BY <1>1, <1>5, WithoutRowCounts DEF WithoutRow, LoopStep
  <2>2. QED
    BY <1>2, <2>1 DEF CsvInv
<1>6. CASE WithRow
  <2>1. /\ summary'.csvPath = summary.csvPath /\ UNCHANGED csv
        /\ pc # "returned" /\ pc' = "next"
    BY <1>1, <1>6, SettledCounts DEF WithRow, LoopStep
  <2>2. QED
    BY <1>2, <2>1 DEF CsvInv
<1>7. CASE WriteReport
  <2>1. UNCHANGED records /\ pc' = "returned" /\ csv = <<>>
    BY <1>2, <1>7 DEF WriteReport
  <2>2. \/ csv' = csv /\ summary'.csvPath = summary.csvPath
        \/ csv' = records /\ records # <<>> /\ summary'.csvPath = TRUE
    BY <1>1, <1>7, ReportCounts
  <2>3. QED
    BY <1>2, <2>1, <2>2 DEF CsvInv
<1>8. QED
  BY <1>3, <1>4, <1>5, <1>6, <1>7, StepKinds DEF LedgerInv

(* The ledger is consistent before the run.                                *)
LEMMA LedgerInit == Init => LedgerInv
<1> SUFFICES ASSUME Init
             PROVE  LedgerInv
  OBVIOUS
<1>1. TypeInv /\ Fresh
  BY TypeInit DEF Init, Fresh
<1>2. CountsConsistent /\ CsvInv
  BY DEF Init, CountsConsistent, CsvInv
<1>3. BaselineJustified /\ BaselineComplete /\ SpeedupJustified
  BY DEF Init, BaselineJustified, BaselineComplete, SpeedupJustified
<1>4. RowsMatchCounts
  <2>1. Cardinality(PassedRows(records)) = 0 /\ Len(records) = 0
    BY NoPassedRows DEF Init
  <2>2. QED
    BY <2>1 DEF Init, RowsMatchCounts, PassedRows
<1>5. QED
  BY <1>1, <1>2, <1>3, <1>4 DEF LedgerInv

(* Every step keeps the ledger consistent.                                 *)
LEMMA LedgerStep == LedgerInv /\ [RunnerNext]_vars => LedgerInv'
<1> SUFFICES ASSUME LedgerInv, [RunnerNext]_vars
             PROVE  LedgerInv'
  OBVIOUS
<1>1. TypeInv'
  BY TypeStep DEF LedgerInv
<1>2. QED
  BY <1>1, FreshStep, CountsStep, BaselineStep, RowsMatchStep, CsvStep DEF LedgerInv

(* The ledger is consistent in every reachable state.                      *)
THEOREM LedgerInvariance == Spec => []LedgerInv
<1>1. ControllerInit => LedgerInv
  BY LedgerInit DEF ControllerInit
<1>2. LedgerInv /\ [Next]_<<vars, exit>> => LedgerInv'
  BY LedgerStep, RunnerSteps
<1>3. QED
  BY <1>1, <1>2, PTL DEF Spec

(* The counts always add up to the experiments dealt with, so the          *)
(* controller's check of them cannot fail.                                 *)
THEOREM CountsAreConsistent == Spec => []CountsConsistent
<1>1. LedgerInv => CountsConsistent
  BY DEF LedgerInv
<1>2. QED
  BY <1>1, LedgerInvariance, PTL

(* Every published speedup rests on a validated Sequential row of the same *)
(* image count that the same run measured before.                          *)
THEOREM SpeedupsAreJustified == Spec => []SpeedupJustified
<1>1. LedgerInv => SpeedupJustified
  BY DEF LedgerInv
<1>2. QED
  BY <1>1, LedgerInvariance, PTL

(* The successes a run reports are exactly its validated rows.             *)
THEOREM RowsMatchTheCounts == Spec => []RowsMatchCounts
<1>1. LedgerInv => RowsMatchCounts
  BY DEF LedgerInv
<1>2. QED
  BY <1>1, LedgerInvariance, PTL

(* An experiment is skipped only for its back end's sake or for want of a  *)
(* validated Sequential row of its own image count.                        *)
THEOREM SkipsHaveACause == Spec => SkipOnlyWithCause
<1> DEFINE Cause ==
      \/ executors[plan[k].backend] # "available"
      \/ /\ plan[k].backend # Sequential
         /\ \A j \in DOMAIN records :
              ~ (/\ records[j].backend = Sequential
                 /\ records[j].count = plan[k].count /\ records[j].passed)
<1>1. ASSUME LedgerInv, [RunnerNext]_vars, summary'.skipped # summary.skipped
      PROVE  Cause
  <2>1. summary \in Summaries
    BY <1>1 DEF LedgerInv, TypeInv, TypeOK
  <2>2. CASE Elsewhere \/ PreflightFailed
    BY <1>1, <2>1, <2>2, GlobalCounts DEF Elsewhere, PreflightFailed
  <2>3. CASE WithoutRow
    BY <1>1, <2>1, <2>3, WithoutRowCounts DEF SkipCause, LedgerInv, BaselineComplete
  <2>4. CASE WithRow
    BY <1>1, <2>1, <2>4, SettledCounts DEF WithRow
  <2>5. CASE WriteReport
    BY <1>1, <2>1, <2>5, ReportCounts
  <2>6. QED
    BY <1>1, <2>2, <2>3, <2>4, <2>5, StepKinds DEF LedgerInv
<1>2. LedgerInv /\ [Next]_<<vars, exit>> => [summary'.skipped # summary.skipped => Cause]_vars
  BY <1>1, RunnerSteps
<1>3. QED
  BY <1>2, LedgerInvariance, PTL DEF Spec, SkipOnlyWithCause

-----------------------------------------------------------------------------
(* The exit code.                                                          *)

(* The exit code is decided once, from what the runner returned or threw.  *)
ExitInv ==
  exit # NoExit => \/ pc = "returned" /\ exit = ExitCode
                   \/ pc = "thrown" /\ exit = InternalFailure

(* Once the runner has returned or thrown, nothing changes its state.      *)
LEMMA RunnerIsDone ==
  ASSUME pc \in {"returned", "thrown"}
  PROVE  ~RunnerNext
  BY DEF RunnerNext, Process, OtherPrograms, ValidateCsvDestination, PrepareOutputDirectory,
         ScanCatalog, DecodeWatermark, LoadPreflightBatch, Preflight, QueryExecutors,
         SkipUnavailable, SkipWithoutBaseline, StartExperiment, WarmUp, ScanInput,
         ReadInput, Execute, WriteOutputs, Validate, Summarize, WriteReport,
         EditInput, EditOutput, Running

(* The exit code, once decided, stays the one the summary or the exception *)
(* implies.                                                                *)
LEMMA ExitStep == ExitInv /\ [Next]_<<vars, exit>> => ExitInv'
<1> SUFFICES ASSUME ExitInv, [Next]_<<vars, exit>>
             PROVE  ExitInv'
  OBVIOUS
<1>1. CASE UNCHANGED vars
  <2>1. pc' = pc /\ ExitCode' = ExitCode
    BY <1>1 DEF vars, setup, ExitCode, HasConsistentCounts
  <2>2. \/ exit' = exit
        \/ pc = "returned" /\ exit' = ExitCode
        \/ pc = "thrown" /\ exit' = InternalFailure
    BY DEF Next, Program, MapSummary, MapException, Exited
  <2>3. QED
    BY <2>1, <2>2 DEF ExitInv
<1>2. CASE RunnerNext /\ UNCHANGED exit
  <2>1. exit = NoExit
    BY <1>2, RunnerIsDone DEF ExitInv
  <2>2. QED
    BY <1>2, <2>1 DEF ExitInv
<1>3. QED
  BY <1>1, <1>2 DEF Next, Program, MapSummary, MapException, Exited, RunnerNext

(* What the result file holds when the process ends with an exit code.     *)
LEMMA ExitTruth == LedgerInv /\ ExitInv => ExitCodeTruthful
<1> SUFFICES ASSUME LedgerInv, ExitInv
             PROVE  ExitCodeTruthful
  OBVIOUS
<1> DEFINE n == Cardinality(PassedRows(csv))
           m == Cardinality(PassedRows(records))
<1>1. /\ summary \in Summaries /\ records \in Seq(Rows) /\ csv \in Seq(Rows)
      /\ plan # <<>> /\ Len(plan) \in Nat \ {0} /\ Len(records) \in Nat
  BY DEF LedgerInv, TypeInv, TypeOK
<1>2. summary.succeeded \in Nat /\ summary.failed \in Nat /\ summary.skipped \in Nat
  BY <1>1 DEF Summaries
<1>3. /\ m = summary.succeeded /\ Len(records) - m <= summary.failed
      /\ m \in 0 .. Len(records)
  BY <1>1, PassedRowsFinite DEF LedgerInv, RowsMatchCounts, PassedRows
<1>4. (summary.csvPath /\ csv = records) \/ (~summary.csvPath /\ csv = <<>> /\ n = 0)
  BY <1>1, NoPassedRows DEF LedgerInv, CsvInv
<1>5. CASE pc = "thrown" /\ exit = InternalFailure
  BY <1>5, NoPassedRows
  DEF LedgerInv, CsvInv, ExitCodeTruthful, InternalFailure, Success, PartialSuccess, NoExit
<1>6. CASE pc = "returned" /\ exit = ExitCode
  <2>1. summary.succeeded + summary.failed + summary.skipped = Len(plan)
    BY <1>6 DEF LedgerInv, CountsConsistent
  <2>2. CASE summary.succeeded > 0 /\ ~summary.csvPath
    BY <1>4, <1>6, <2>1, <2>2
    DEF ExitCodeTruthful, ExitCode, HasConsistentCounts, OutputFailure, Success,
        PartialSuccess, NoExit
  <2>3. CASE summary.succeeded = Len(plan) /\ summary.csvPath
    <3>1. exit = Success
      BY <1>1, <1>6, <2>1, <2>3 DEF ExitCode, HasConsistentCounts
    <3>2. n = Len(plan) /\ Len(csv) = Len(plan)
      BY <1>1, <1>2, <1>3, <1>4, <2>1, <2>3
    <3>3. QED
      BY <3>1, <3>2 DEF ExitCodeTruthful, Success, PartialSuccess, NoExit
  <2>4. CASE /\ summary.succeeded > 0 /\ summary.succeeded # Len(plan)
             /\ summary.csvPath
    <3>1. exit = PartialSuccess
      BY <1>1, <1>6, <2>1, <2>4 DEF ExitCode, HasConsistentCounts
    <3>2. 0 < n /\ n < Len(plan)
      BY <1>1, <1>2, <1>3, <1>4, <2>1, <2>4
    <3>3. QED
      BY <3>1, <3>2 DEF ExitCodeTruthful, Success, PartialSuccess, NoExit
  <2>5. CASE summary.succeeded = 0
    <3>1. exit \notin {Success, PartialSuccess}
      BY <1>1, <1>6, <2>1, <2>5
      DEF ExitCode, HasConsistentCounts, MapFailure, InputFailure, BackendUnavailable,
          OutputFailure, InternalFailure, Success, PartialSuccess
    <3>2. n = 0
      BY <1>3, <1>4, <2>5
    <3>3. QED
      BY <3>1, <3>2 DEF ExitCodeTruthful
  <2>6. QED
    BY <1>2, <2>2, <2>3, <2>4, <2>5
<1>7. CASE exit = NoExit
  BY <1>7 DEF ExitCodeTruthful, NoExit, Success, PartialSuccess
<1>8. QED
  BY <1>5, <1>6, <1>7 DEF ExitInv

(* 0 promises a validated row for every planned experiment, 2 for some of  *)
(* them, and with any other exit code the result file got none.            *)
THEOREM ExitCodeIsTruthful == Spec => []ExitCodeTruthful
<1>1. ControllerInit => ExitInv
  BY DEF ControllerInit, ExitInv
<1>2. Spec => []ExitInv
  BY <1>1, ExitStep, PTL DEF Spec
<1>3. QED
  BY <1>2, LedgerInvariance, ExitTruth, PTL
==============================================================================
