--------------------------- MODULE MeasurementProofs ---------------------------
(***************************************************************************)
(* One experiment - its sources, its PNGs, its batch size, its validation  *)
(* columns - for every plan and every behaviour of the back ends and of    *)
(* the other programs.                                                     *)
(***************************************************************************)
EXTENDS BenchmarkProofs

(* The sources preflight froze for the current image count.                *)
Frozen == FirstOf(plan[k].count, expected)

(* What the locals of measure_experiment say at each of its steps.         *)
CurInv ==
  /\ pc \notin Measuring => cur = Idle
  /\ pc \in {"warmup", "execute"} => DOMAIN cur.batch = Frozen
  /\ pc \in {"write", "validate"} => DOMAIN cur.result = Frozen
  /\ pc \in Measuring =>
       /\ plan[k].backend # Cuda => cur.effective = 0
       /\ cur.passed <=> ~cur.structural /\ cur.maxError <= Tolerance(plan[k].backend)

(* The run has written nothing before the experiment loop.                 *)
NothingWritten == pc \in Preflights => DOMAIN files = {}

MeasureInv ==
  /\ TypeInv /\ CurInv /\ NothingWritten
  /\ OutputsOfFrozenSources /\ ValidationColumnsAgree

-----------------------------------------------------------------------------
(* The locals: one case per action of measure_experiment.                  *)

(* Between two experiments the locals are idle.                            *)
LEMMA BetweenExperiments ==
  ASSUME pc' \notin Measuring, cur' = Idle
  PROVE  CurInv'
  BY DEF CurInv, Measuring

(* The locals as measure_experiment declares them fit any back end.        *)
LEMMA IdleFits ==
  /\ Idle.effective = 0 /\ Idle.passed /\ ~Idle.structural
  /\ \A b : Idle.maxError <= Tolerance(b)
  BY DEF Idle, Tolerance

(* What sources_match accepts are the frozen sources of the image count.   *)
LEMMA SourcesMatchFrozen ==
  ASSUME NEW batch, SourcesMatch(batch, plan[k].count)
  PROVE  DOMAIN batch = Frozen
  BY DEF SourcesMatch, Frozen

(* A back end returns an image for each image it was given, and only CUDA  *)
(* reports a batch size.                                                   *)
LEMMA ExecutionsFit ==
  ASSUME NEW e \in Experiment, NEW batch, NEW x \in Executions(e, batch),
         x.category = NoCategory
  PROVE  /\ DOMAIN x.images = DOMAIN batch
         /\ e.backend # Cuda => x.effective = 0
<1>1. /\ x.images \in {[p \in DOMAIN batch |-> [src |-> batch[p], err |-> d]] :
                         d \in IF e.backend = Sequential THEN {0} ELSE 0 .. MaxError}
      /\ x.effective \in EffectiveBatches(e)
  BY DEF Executions, NoCategory
<1>2. QED
  BY <1>1 DEF EffectiveBatches

(* A repetition keeps the validation flag and the largest error in step.   *)
LEMMA AccumulateFits ==
  ASSUME CurOK, NEW errors \in SUBSET (0 .. Different), NEW structural \in BOOLEAN,
         NEW tolerance \in Nat, Accumulate(errors, structural, tolerance),
         cur.passed <=> ~cur.structural /\ cur.maxError <= tolerance
  PROVE  /\ cur'.passed <=> ~cur'.structural /\ cur'.maxError <= tolerance
         /\ cur'.effective = cur.effective
<1>1. PICK worst \in errors :
        cur' = [cur EXCEPT
                 !.rep = @ + 1, !.result = <<>>,
                 !.passed = @ /\ ~structural /\ worst <= tolerance,
                 !.structural = @ \/ structural,
                 !.maxError = IF ~structural /\ worst > @ THEN worst ELSE @]
  BY DEF Accumulate
<1>2. /\ cur'.passed = (cur.passed /\ ~structural /\ worst <= tolerance)
      /\ cur'.structural = (cur.structural \/ structural)
      /\ cur'.maxError = IF ~structural /\ worst > cur.maxError THEN worst ELSE cur.maxError
      /\ cur'.effective = cur.effective
  BY <1>1 DEF CurOK
<1>3. worst \in Nat /\ cur.maxError \in Nat
  BY DEF CurOK
<1> DEFINE max == IF worst > cur.maxError THEN worst ELSE cur.maxError
<1>4. max <= tolerance <=> worst <= tolerance /\ cur.maxError <= tolerance
  BY <1>3
<1> HIDE DEF max
<1>5. CASE structural
  BY <1>2, <1>5, Zenon
<1>6. CASE ~structural
  <2>1. /\ cur'.passed = (cur.passed /\ worst <= tolerance)
        /\ cur'.structural = cur.structural /\ cur'.maxError = max
    BY <1>2, <1>6, Zenon DEF max, CurOK
  <2>2. QED
    BY <1>2, <1>4, <2>1, Zenon
<1>7. QED
  BY <1>5, <1>6

(* A step that leaves the plan, the index and the frozen sources alone.    *)
SameExperiment == UNCHANGED <<plan, k, expected>>

(* A new value of the locals fits when the steps that use it do.           *)
LEMMA CurKept ==
  ASSUME SameExperiment, pc' \in Measuring,
         pc' \in {"warmup", "execute"} => DOMAIN cur'.batch = Frozen,
         pc' \in {"write", "validate"} => DOMAIN cur'.result = Frozen,
         plan[k].backend # Cuda => cur'.effective = 0,
         cur'.passed <=> ~cur'.structural /\ cur'.maxError <= Tolerance(plan[k].backend)
  PROVE  CurInv'
<1>1. plan' = plan /\ k' = k /\ Frozen' = Frozen
  BY DEF SameExperiment, Frozen
<1>2. Tolerance(plan[k].backend)' = Tolerance(plan[k].backend)
  BY <1>1
<1>3. QED
  BY <1>1, <1>2, Zenon DEF CurInv

(* WarmUp and Execute: what the executor returned becomes the locals.      *)
LEMMA ExecutionKept ==
  ASSUME TypeInv, CurInv, pc \in {"warmup", "execute"}, SameExperiment,
         NEW x \in Executions(plan[k], cur.batch), x.category = NoCategory
  PROVE  /\ (/\ cur' = [cur EXCEPT !.warm = @ + 1, !.effective = x.effective]
             /\ pc' \in {"warmup", "scan"})
            => CurInv'
         /\ (/\ cur' = [cur EXCEPT !.batch = <<>>, !.result = x.images,
                                   !.effective = x.effective]
             /\ pc' = "write")
            => CurInv'
<1>1. k <= Len(plan) /\ plan[k] \in Experiment /\ pc \in Measuring
  BY DEF TypeInv, TypeOK, InExperiment, Measuring
<1>2. /\ DOMAIN x.images = DOMAIN cur.batch
      /\ plan[k].backend # Cuda => x.effective = 0
  BY <1>1, ExecutionsFit
<1>3. DOMAIN cur.batch = Frozen
  BY DEF CurInv
<1>4. cur.passed <=> ~cur.structural /\ cur.maxError <= Tolerance(plan[k].backend)
  BY <1>1 DEF CurInv
<1>5. ASSUME cur' = [cur EXCEPT !.warm = @ + 1, !.effective = x.effective],
             pc' \in {"warmup", "scan"}
      PROVE  CurInv'
  <2>1. /\ cur'.batch = cur.batch /\ cur'.effective = x.effective
        /\ cur'.passed = cur.passed /\ cur'.structural = cur.structural
        /\ cur'.maxError = cur.maxError
    BY <1>5 DEF TypeInv, TypeOK, CurOK
  <2>2. QED
    BY <1>2, <1>3, <1>4, <1>5, <2>1, CurKept DEF Measuring
<1>6. ASSUME cur' = [cur EXCEPT !.batch = <<>>, !.result = x.images,
                                !.effective = x.effective],
             pc' = "write"
      PROVE  CurInv'
  <2>1. /\ cur'.result = x.images /\ cur'.effective = x.effective
        /\ cur'.passed = cur.passed /\ cur'.structural = cur.structural
        /\ cur'.maxError = cur.maxError
    BY <1>6 DEF TypeInv, TypeOK, CurOK
  <2>2. QED
    BY <1>2, <1>3, <1>4, <1>6, <2>1, CurKept DEF Measuring
<1>7. QED
  BY <1>5, <1>6

(* Outside the experiment loop the locals stay as they are.                *)
LEMMA OutsideKept ==
  ASSUME CurInv, pc \notin Measuring, pc' \notin Measuring, cur' = cur
  PROVE  CurInv'
  BY BetweenExperiments DEF CurInv

(* Every step keeps what the locals say.                                   *)
LEMMA CurStep ==
  ASSUME TypeInv, CurInv, [RunnerNext]_vars
  PROVE  CurInv'
<1> DEFINE Fits(b) ==
      cur.passed <=> ~cur.structural /\ cur.maxError <= Tolerance(b)
<1>a. ASSUME NextExperiment
      PROVE  CurInv'
  BY <1>a, BetweenExperiments DEF NextExperiment, Measuring
<1>b. ASSUME NEW c, FailExperiment(c)
      PROVE  CurInv'
  BY <1>a, <1>b DEF FailExperiment
<1>c. ASSUME NEW from \in Preflights, NEW to \in Preflights \cup {"next"}, NEW ok, NEW c,
             Preflight(from, to, ok, c)
      PROVE  CurInv'
  BY <1>c, OutsideKept DEF Preflight, Preflights, Measuring
<1>d. pc \in Measuring =>
        /\ k <= Len(plan) /\ plan[k] \in Experiment
        /\ plan[k].backend # Cuda => cur.effective = 0
        /\ Fits(plan[k].backend)
  BY DEF TypeInv, TypeOK, InExperiment, CurInv
<1>e. ASSUME UNCHANGED <<plan, k, expected, pc, cur>>
      PROVE  CurInv'
  BY <1>e DEF CurInv, Frozen
<1>1. CASE ValidateCsvDestination
  BY <1>1, <1>c DEF ValidateCsvDestination, Preflights
<1>2. CASE PrepareOutputDirectory
  BY <1>2, <1>c DEF PrepareOutputDirectory, Preflights
<1>3. CASE ScanCatalog
  BY <1>3, <1>c DEF ScanCatalog, Preflights
<1>4. CASE DecodeWatermark
  BY <1>4, <1>c DEF DecodeWatermark, Preflights
<1>5. CASE LoadPreflightBatch
  BY <1>5, <1>c DEF LoadPreflightBatch, Preflights
<1>6. CASE QueryExecutors
  BY <1>6, OutsideKept DEF QueryExecutors, Measuring
<1>7. CASE SkipUnavailable
  BY <1>7, <1>a DEF SkipUnavailable, SkipExperiment
<1>8. CASE SkipWithoutBaseline
  BY <1>8, <1>a DEF SkipWithoutBaseline, SkipExperiment
<1>9. CASE StartExperiment
  <2> DEFINE batch == LoadBatch(catalog, plan[k].count)
  <2>1. CASE FailExperiment("Input")
    BY <2>1, <1>b
  <2>2. CASE /\ SourcesMatch(batch, plan[k].count)
             /\ cur' = [cur EXCEPT !.batch = batch]
             /\ pc' \in {"warmup", "scan"} /\ SameExperiment
    <3>1. cur = Idle
      BY <1>9 DEF StartExperiment, CurInv, Measuring
    <3>2. cur' = [Idle EXCEPT !.batch = batch]
      BY <2>2, <3>1
    <3>3. /\ cur'.batch = batch /\ cur'.effective = 0
          /\ cur'.passed /\ ~cur'.structural /\ cur'.maxError = 0
      BY <3>2 DEF Idle
    <3>4. DOMAIN cur'.batch = Frozen
      BY <2>2, <3>3, SourcesMatchFrozen
    <3>5. cur'.maxError <= Tolerance(plan[k].backend)
      BY <3>3 DEF Tolerance
    <3>6. QED
      BY <2>2, <3>3, <3>4, <3>5, CurKept DEF Measuring
  <2>3. QED
    BY <1>9, <2>1, <2>2 DEF StartExperiment, SameExperiment, setup
<1>10. CASE WarmUp
  <2>1. pc = "warmup" /\ UNCHANGED setup
    BY <1>10 DEF WarmUp
  <2>2. PICK x \in Executions(plan[k], cur.batch) :
          \/ FailExperiment(x.category) \/ FailExperiment("Internal")
          \/ /\ x.category = NoCategory
             /\ cur' = [cur EXCEPT !.warm = @ + 1, !.effective = x.effective]
             /\ pc' = IF cur.warm + 1 < Warmups THEN "warmup" ELSE "scan"
             /\ UNCHANGED <<summary, k, baseline, records>>
    BY <1>10 DEF WarmUp
  <2>3. QED
    BY <2>1, <2>2, <1>b, ExecutionKept DEF SameExperiment, setup
<1>11. CASE ScanInput
  <2>1. CASE FailExperiment("Input")
    BY <2>1, <1>b
  <2>2. CASE /\ cur' = [cur EXCEPT !.scan = Present, !.batch = <<>>]
             /\ pc' = "read" /\ SameExperiment
    <3>1. /\ cur'.effective = cur.effective /\ cur'.passed = cur.passed
          /\ cur'.structural = cur.structural /\ cur'.maxError = cur.maxError
      BY <2>2 DEF TypeInv, TypeOK, CurOK
    <3>2. pc \in Measuring
      BY <1>11 DEF ScanInput, Measuring
    <3>3. QED
      BY <1>d, <2>2, <3>1, <3>2, CurKept DEF Measuring
  <2>3. QED
    BY <1>11, <2>1, <2>2 DEF ScanInput, SameExperiment, setup
<1>12. CASE ReadInput
  <2> DEFINE batch == LoadBatch(cur.scan, plan[k].count)
  <2>1. CASE FailExperiment("Input")
    BY <2>1, <1>b
  <2>2. CASE /\ SourcesMatch(batch, plan[k].count)
             /\ cur' = [cur EXCEPT !.scan = {}, !.batch = batch]
             /\ pc' = "execute" /\ SameExperiment
    <3>1. /\ cur'.effective = cur.effective /\ cur'.passed = cur.passed
          /\ cur'.structural = cur.structural /\ cur'.maxError = cur.maxError
          /\ cur'.batch = batch
      BY <2>2 DEF TypeInv, TypeOK, CurOK
    <3>2. pc \in Measuring
      BY <1>12 DEF ReadInput, Measuring
    <3>3. DOMAIN cur'.batch = Frozen
      BY <2>2, <3>1, SourcesMatchFrozen
    <3>4. QED
      BY <1>d, <2>2, <3>1, <3>2, <3>3, CurKept DEF Measuring
  <2>3. QED
    BY <1>12, <2>1, <2>2 DEF ReadInput, SameExperiment, setup
<1>13. CASE Execute
  <2>1. pc = "execute" /\ UNCHANGED setup
    BY <1>13 DEF Execute
  <2>2. PICK x \in Executions(plan[k], cur.batch) :
          \/ FailExperiment(x.category) \/ FailExperiment("Internal")
          \/ /\ x.category = NoCategory
             /\ cur' = [cur EXCEPT !.batch = <<>>, !.result = x.images,
                                   !.effective = x.effective]
             /\ pc' = "write"
             /\ UNCHANGED <<summary, k, baseline, records>>
    BY <1>13 DEF Execute
  <2>3. QED
    BY <2>1, <2>2, <1>b, ExecutionKept DEF SameExperiment, setup
<1>14. CASE WriteOutputs
  <2>1. CASE FailExperiment("Output")
    BY <2>1, <1>b
  <2>2. CASE pc' = "validate" /\ cur' = cur /\ SameExperiment
    BY <1>14, <1>d, <2>2, CurKept DEF WriteOutputs, CurInv, Measuring
  <2>3. QED
    BY <1>14, <2>1, <2>2 DEF WriteOutputs, SameExperiment, setup
<1>15. CASE Validate
  <2>1. pc \in Measuring /\ UNCHANGED setup
    BY <1>15 DEF Validate, Measuring
  <2>2. CASE FailExperiment("Output") \/ FailExperiment("Processing")
    BY <2>2, <1>b
  <2>3. CASE ~(FailExperiment("Output") \/ FailExperiment("Processing"))
    <3>1. /\ \E errors \in SUBSET (0 .. Different), structural \in BOOLEAN :
               Accumulate(errors, structural, Tolerance(plan[k].backend))
          /\ pc' \in {"scan", "summarize"} /\ k' = k
      BY <1>15, <1>d, <2>1, <2>3, ValidateAccumulates
    <3>2. /\ cur'.passed <=> /\ ~cur'.structural
                             /\ cur'.maxError <= Tolerance(plan[k].backend)
          /\ cur'.effective = cur.effective
      BY <1>d, <2>1, <3>1, AccumulateFits DEF TypeInv, TypeOK, Tolerance
    <3>3. QED
      BY <1>d, <2>1, <3>1, <3>2, CurKept DEF SameExperiment, setup, Measuring
  <2>4. QED
    BY <2>2, <2>3
<1>16. CASE Summarize
  BY <1>16, <1>a, <1>b DEF Summarize
<1>17. CASE WriteReport
  BY <1>17, OutsideKept DEF WriteReport, Measuring
<1>18. CASE EditInput
  BY <1>18, <1>e DEF EditInput, setup, ledger
<1>19. CASE EditOutput
  BY <1>19, <1>e DEF EditOutput, setup, ledger
<1>20. CASE UNCHANGED vars
  BY <1>20, <1>e DEF vars, setup, ledger
<1>21. QED
  BY <1>1, <1>2, <1>3, <1>4, <1>5, <1>6, <1>7, <1>8, <1>9, <1>10, <1>11, <1>12, <1>13,
     <1>14, <1>15, <1>16, <1>17, <1>18, <1>19, <1>20
  DEF RunnerNext, Process, OtherPrograms

-----------------------------------------------------------------------------
(* The PNG files of the run.                                               *)

(* Before the experiment loop the run writes no PNG, and there is none for *)
(* another program to change.                                              *)
LEMMA NothingWrittenStep ==
  ASSUME NothingWritten, [RunnerNext]_vars
  PROVE  NothingWritten'
<1>1. CASE EditOutput
  BY <1>1 DEF NothingWritten, EditOutput
<1>2. CASE UNCHANGED <<files, pc>>
  BY <1>2 DEF NothingWritten
<1>3. CASE pc' \notin Preflights
  BY <1>3 DEF NothingWritten
<1>4. CASE pc \in Preflights /\ files' = files
  BY <1>4 DEF NothingWritten
<1>5. QED
  BY <1>1, <1>2, <1>3, <1>4
  DEF RunnerNext, Process, OtherPrograms, ValidateCsvDestination, PrepareOutputDirectory,
      ScanCatalog, DecodeWatermark, LoadPreflightBatch, Preflight, QueryExecutors,
      SkipUnavailable, SkipWithoutBaseline, StartExperiment, WarmUp, ScanInput,
      ReadInput, Execute, WriteOutputs, Validate, Summarize, WriteReport,
      FailExperiment, SkipExperiment, NextExperiment, Accumulate,
      EditInput, Preflights, vars, setup, ledger

(* The PNGs of an experiment go to a directory of its own image count.     *)
LEMMA DirectoryCount ==
  ASSUME NEW e \in Experiment, NEW effective
  PROVE  OutputDirectory(e, effective).count = e.count
  BY DEF OutputDirectory, Experiment

(* Every step writes only PNGs of frozen sources.                          *)
LEMMA FrozenSourcesStep ==
  ASSUME TypeInv, CurInv, NothingWritten, OutputsOfFrozenSources, [RunnerNext]_vars
  PROVE  OutputsOfFrozenSources'
<1>1. CASE LoadPreflightBatch
  <2>1. DOMAIN files = {} /\ files' = files
    BY <1>1 DEF LoadPreflightBatch, Preflight, NothingWritten, Preflights
  <2>2. QED
    BY <2>1 DEF OutputsOfFrozenSources
<1>2. CASE WriteOutputs
  <2> DEFINE dir == OutputDirectory(plan[k], cur.effective)
  <2>1. PICK done \in SUBSET DOMAIN cur.result : files' = Written(dir, cur.result, done)
    BY <1>2 DEF WriteOutputs, FirstOf
  <2>2. plan[k] \in Experiment /\ expected' = expected
    BY <1>2 DEF WriteOutputs, TypeInv, TypeOK, InExperiment, Measuring, setup
  <2>3. done \subseteq FirstOf(plan[k].count, expected)
    BY <1>2, <2>1 DEF WriteOutputs, CurInv, Frozen
  <2>4. dir.count = plan[k].count
    BY <2>2, DirectoryCount
  <2>5. ASSUME NEW x \in DOMAIN files'
        PROVE  x[2] \in FirstOf(x[1].count, expected)
    <3>1. x \in DOMAIN files \/ x \in {dir} \X done
      BY <2>1 DEF Written
    <3>2. CASE x \in DOMAIN files
      BY <3>2 DEF OutputsOfFrozenSources
    <3>3. CASE x \in {dir} \X done
      BY <2>3, <2>4, <3>3
    <3>4. QED
      BY <3>1, <3>2, <3>3
  <2>6. QED
    BY <2>2, <2>5 DEF OutputsOfFrozenSources, FirstOf
<1>3. CASE EditOutput
  <2>1. DOMAIN files' \subseteq DOMAIN files /\ expected' = expected
    BY <1>3 DEF EditOutput, setup
  <2>2. QED
    BY <2>1 DEF OutputsOfFrozenSources, FirstOf
<1>4. CASE UNCHANGED <<files, expected>>
  BY <1>4 DEF OutputsOfFrozenSources, FirstOf
<1>5. QED
  BY <1>1, <1>2, <1>3, <1>4
  DEF RunnerNext, Process, OtherPrograms, ValidateCsvDestination, PrepareOutputDirectory,
      ScanCatalog, DecodeWatermark, Preflight, QueryExecutors,
      SkipUnavailable, SkipWithoutBaseline, StartExperiment, WarmUp, ScanInput,
      ReadInput, Execute, Validate, Summarize, WriteReport,
      EditInput, vars, setup, ledger

-----------------------------------------------------------------------------
(* The validation columns.                                                 *)

(* Every row is added with validation columns that agree.                  *)
LEMMA ColumnsStep ==
  ASSUME TypeInv, CurInv, ValidationColumnsAgree, [RunnerNext]_vars
  PROVE  ValidationColumnsAgree'
<1>1. CASE WithRow /\ pc = "summarize"
  <2> DEFINE r == Record(plan[k])
             l == Len(records)
  <2>1. records \in Seq(Rows) /\ l \in Nat /\ CurOK
    BY DEF TypeInv, TypeOK
  <2>2. /\ DOMAIN records' = 1 .. l + 1 /\ DOMAIN records = 1 .. l
        /\ \A i \in 1 .. l : records'[i] = records[i]
        /\ records'[l + 1] = r
    BY <1>1, <2>1 DEF WithRow
  <2>3. cur.passed <=> ~cur.structural /\ cur.maxError <= Tolerance(plan[k].backend)
    BY <1>1 DEF CurInv, Measuring
  <2>4. Tolerance(plan[k].backend) \in Nat /\ cur.maxError \in Nat
    BY <2>1 DEF Tolerance, CurOK
  <2>5. r.maxError = IF cur.structural THEN -1 ELSE cur.maxError
    BY DEF Record
  <2>6. r.maxError \in 0 .. Tolerance(plan[k].backend)
        <=> ~cur.structural /\ cur.maxError <= Tolerance(plan[k].backend)
    BY <2>4, <2>5
  <2>7. r.passed = cur.passed /\ r.backend = plan[k].backend
    BY DEF Record
  <2>8. r.passed <=> r.maxError \in 0 .. Tolerance(r.backend)
    BY <2>3, <2>6, <2>7, Zenon
  <2>9. \A i \in 1 .. l : records'[i].passed
                          <=> records'[i].maxError \in 0 .. Tolerance(records'[i].backend)
    BY <2>2 DEF ValidationColumnsAgree
  <2>10. \A i \in 1 .. l + 1 : i \in 1 .. l \/ i = l + 1
    BY <2>1
  <2>11. QED
    BY <2>2, <2>8, <2>9, <2>10, Zenon DEF ValidationColumnsAgree, Tolerance
<1>2. CASE UNCHANGED records
  BY <1>2 DEF ValidationColumnsAgree, Tolerance
<1>3. WithRow => UNCHANGED records \/ pc = "summarize"
  BY <1>2
  DEF RunnerNext, Process, OtherPrograms, ValidateCsvDestination, PrepareOutputDirectory,
      ScanCatalog, DecodeWatermark, LoadPreflightBatch, Preflight, QueryExecutors,
      SkipUnavailable, SkipWithoutBaseline, StartExperiment, WarmUp, ScanInput,
      ReadInput, Execute, WriteOutputs, Validate, Summarize, WriteReport,
      FailExperiment, EditInput, EditOutput, vars, setup, ledger
<1>4. QED
  BY <1>1, <1>2, <1>3, StepKinds
  DEF Elsewhere, PreflightFailed, WithoutRow, WriteReport

-----------------------------------------------------------------------------
(* The invariant and what follows from it.                                 *)

(* The invariant of the measurements holds before the run.                 *)
LEMMA MeasureInit == Init => MeasureInv
<1> SUFFICES ASSUME Init
             PROVE  MeasureInv
  OBVIOUS
<1>1. CurInv
  BY DEF Init, CurInv, Measuring
<1>2. NothingWritten /\ OutputsOfFrozenSources /\ ValidationColumnsAgree
  BY DEF Init, NothingWritten, OutputsOfFrozenSources, ValidationColumnsAgree
<1>3. QED
  BY <1>1, <1>2, TypeInit DEF MeasureInv

(* Every step keeps the invariant of the measurements.                     *)
LEMMA MeasureStep == MeasureInv /\ [RunnerNext]_vars => MeasureInv'
  BY TypeStep, CurStep, NothingWrittenStep, FrozenSourcesStep, ColumnsStep DEF MeasureInv

(* The invariant of the measurements holds in every reachable state.       *)
THEOREM MeasureInvariance == Spec => []MeasureInv
<1>1. ControllerInit => MeasureInv
  BY MeasureInit DEF ControllerInit
<1>2. MeasureInv /\ [Next]_<<vars, exit>> => MeasureInv'
  BY MeasureStep, RunnerSteps
<1>3. QED
  BY <1>1, <1>2, PTL DEF Spec

(* Whatever happens to the input directory, the run writes PNGs only for   *)
(* the sources preflight froze for the experiment's image count.           *)
THEOREM OutputsAreOfFrozenSources == Spec => []OutputsOfFrozenSources
<1>1. MeasureInv => OutputsOfFrozenSources
  BY DEF MeasureInv
<1>2. QED
  BY <1>1, MeasureInvariance, PTL

(* validation_passed of a row says whether its max_pixel_error is there    *)
(* and within the tolerance of the back end.                               *)
THEOREM ValidationColumnsAlwaysAgree == Spec => []ValidationColumnsAgree
<1>1. MeasureInv => ValidationColumnsAgree
  BY DEF MeasureInv
<1>2. QED
  BY <1>1, MeasureInvariance, PTL

(* An execution that is accepted repeats the batch size reported before.   *)
LEMMA BatchSizeRepeated ==
  ASSUME TypeInv, CurInv, pc \in {"warmup", "execute"}, cur.effective # 0,
         NEW x \in Executions(plan[k], cur.batch), x.category = NoCategory,
         ~BatchSizeChanged(plan[k], x)
  PROVE  x.effective = cur.effective
<1>1. plan[k] \in Experiment /\ plan[k].backend = Cuda
  BY DEF TypeInv, TypeOK, InExperiment, CurInv, Measuring
<1>2. QED
  BY <1>1 DEF BatchSizeChanged

(* The effective CUDA batch size of an experiment never changes once a     *)
(* warm-up or a repetition has reported it.                                *)
THEOREM EffectiveBatchIsFixed == Spec => EffectiveBatchFixed
<1>1. ASSUME MeasureInv, [RunnerNext]_vars, k' = k, cur.effective # 0
      PROVE  cur'.effective = cur.effective
  <2>1. TypeInv /\ CurInv /\ CurOK /\ k \in Nat
    BY <1>1 DEF MeasureInv, TypeInv, TypeOK
  <2>2. ~NextExperiment
    BY <1>1, <2>1 DEF NextExperiment
  <2>3. \A c : ~FailExperiment(c) /\ ~SkipExperiment(c)
    BY <2>2 DEF FailExperiment, SkipExperiment
  <2>4. CASE WarmUp
    <3>1. PICK x \in Executions(plan[k], cur.batch) :
            /\ x.category = NoCategory /\ ~BatchSizeChanged(plan[k], x)
            /\ cur' = [cur EXCEPT !.warm = @ + 1, !.effective = x.effective]
      BY <2>3, <2>4 DEF WarmUp
    <3>2. x.effective = cur.effective
      BY <1>1, <2>1, <2>4, <3>1, BatchSizeRepeated DEF WarmUp
    <3>3. QED
      BY <2>1, <3>1, <3>2 DEF CurOK
  <2>5. CASE Execute
    <3>1. PICK x \in Executions(plan[k], cur.batch) :
            /\ x.category = NoCategory /\ ~BatchSizeChanged(plan[k], x)
            /\ cur' = [cur EXCEPT !.batch = <<>>, !.result = x.images,
                                  !.effective = x.effective]
      BY <2>3, <2>5 DEF Execute
    <3>2. x.effective = cur.effective
      BY <1>1, <2>1, <2>5, <3>1, BatchSizeRepeated DEF Execute
    <3>3. QED
      BY <2>1, <3>1, <3>2 DEF CurOK
  <2>6. CASE Validate
    <3>1. k <= Len(plan)
      BY <2>1, <2>6 DEF Validate, TypeInv, InExperiment, Measuring
    <3>2. \E errors, structural : Accumulate(errors, structural, Tolerance(plan[k].backend))
      BY <2>1, <2>3, <2>6, <3>1, ValidateAccumulates
    <3>3. QED
      BY <2>1, <3>2 DEF Accumulate, CurOK
  <2>7. CASE \/ cur' = cur
             \/ \E b : cur' = [cur EXCEPT !.batch = b]
             \/ \E s, b : cur' = [cur EXCEPT !.scan = s, !.batch = b]
    BY <2>1, <2>7 DEF CurOK
  <2>8. QED
    BY <1>1, <2>2, <2>3, <2>4, <2>5, <2>6, <2>7
    DEF RunnerNext, Process, OtherPrograms, ValidateCsvDestination, PrepareOutputDirectory,
        ScanCatalog, DecodeWatermark, LoadPreflightBatch, Preflight, QueryExecutors,
        SkipUnavailable, SkipWithoutBaseline, StartExperiment, ScanInput,
        ReadInput, WriteOutputs, Summarize, WriteReport, EditInput, EditOutput, vars
<1>2. MeasureInv /\ [Next]_<<vars, exit>>
      => [k' = k /\ cur.effective # 0 => cur'.effective = cur.effective]_vars
  BY <1>1, RunnerSteps
<1>3. QED
  BY <1>2, MeasureInvariance, PTL DEF Spec, EffectiveBatchFixed

-----------------------------------------------------------------------------
(* The PNGs that others are compared with.                                 *)

OpenMPDirectory(n, t) == ExperimentSpec(OpenMP, n, t, 0)

(* No two experiments of a plan are the same; one of the CPU back ends is  *)
(* its own directory.                                                      *)
LEMMA PlanFacts ==
  ASSUME TypeInv, plan \in Plans, NEW i \in DOMAIN plan
  PROVE  /\ \A j \in DOMAIN plan : plan[i] = plan[j] => i = j
         /\ plan[i].backend = Sequential => plan[i] = SequentialDirectory(plan[i].count)
         /\ plan[i].backend = OpenMP => plan[i] = OpenMPDirectory(plan[i].count, plan[i].threads)
<1>1. plan[i] \in Experiment
  BY DEF TypeInv, TypeOK
<1>2. /\ \A j \in DOMAIN plan : plan[i] = plan[j] => i = j
      /\ plan[i].backend # OpenMP => plan[i].threads = 0
      /\ plan[i].backend # Cuda => plan[i].batch = 0
  BY MatrixAssumption
<1>3. QED
  BY <1>1, <1>2
  DEF Experiment, SequentialDirectory, OpenMPDirectory, ExperimentSpec, Sequential, OpenMP, Cuda

(* The directories of CPU experiments that are over.                       *)
IsSettled(d) == d.backend # Cuda /\ \E i \in DOMAIN plan : i < k /\ plan[i] = d

(* Another program can only remove a PNG or put other pixels in it.        *)
LEMMA EditsShow ==
  ASSUME TypeInv, EditOutput \/ files' = files, NEW x \in DOMAIN files'
  PROVE  x \in DOMAIN files /\ (files'[x] = files[x] \/ files'[x].src \notin Versions)
<1>1. CASE files' = files
  BY <1>1
<1>2. CASE EditOutput
  <2>1. PICK y \in DOMAIN files :
          \/ files' = [z \in DOMAIN files \ {y} |-> files[z]]
          \/ \E c \in {"altered", "resized"} : files' = [files EXCEPT ![y].src = c]
    BY <1>2 DEF EditOutput
  <2>2. files[y] \in Images
    BY DEF TypeInv, TypeOK
  <2>3. CASE files' = [z \in DOMAIN files \ {y} |-> files[z]]
    BY <2>3
  <2>4. CASE \E c \in {"altered", "resized"} : files' = [files EXCEPT ![y].src = c]
    <3>1. PICK c \in {"altered", "resized"} : files' = [files EXCEPT ![y].src = c]
      BY <2>4
    <3>2. x \in DOMAIN files /\ (x # y => files'[x] = files[x])
      BY <3>1
    <3>3. x = y => files'[x].src = c
      BY <2>2, <3>1 DEF Images
    <3>4. c \notin Versions
      BY VersionsAssumption
    <3>5. QED
      BY <3>2, <3>3, <3>4
  <2>5. QED
    BY <2>1, <2>3, <2>4
<1>3. QED
  BY <1>1, <1>2

(* The step that writes PNGs writes none in a settled directory.           *)
LEMMA SettledNotWritten ==
  ASSUME TypeInv, plan \in Plans, WriteOutputs, NEW x, IsSettled(x[1])
  PROVE  (x \in DOMAIN files' <=> x \in DOMAIN files) /\ (x \in DOMAIN files => files'[x] = files[x])
<1> DEFINE dir == OutputDirectory(plan[k], cur.effective)
<1>1. PICK done : files' = Written(dir, cur.result, done)
  BY DEF WriteOutputs
<1>2. k \in DOMAIN plan /\ k \in Nat /\ plan[k] \in Experiment
  BY DEF WriteOutputs, TypeInv, TypeOK, InExperiment, Measuring
<1>3. PICK i \in DOMAIN plan : i < k /\ plan[i] = x[1] /\ x[1].backend # Cuda
  BY DEF IsSettled
<1>4. plan[i] # plan[k]
  BY <1>2, <1>3, PlanFacts
<1>5. dir # x[1]
  <2>1. CASE plan[k].backend = Cuda
    BY <1>2, <1>3, <2>1 DEF OutputDirectory, Experiment
  <2>2. CASE plan[k].backend # Cuda
    BY <1>3, <1>4, <2>2 DEF OutputDirectory
  <2>3. QED
    BY <2>1, <2>2
<1>6. x \notin {dir} \X done
  BY <1>5
<1>7. QED
  BY <1>1, <1>6 DEF Written

(* What a step may do to a PNG of a settled directory.                     *)
LEMMA SettledKept ==
  ASSUME TypeInv, plan \in Plans, [RunnerNext]_vars, NEW x, IsSettled(x[1])
  PROVE  /\ x \in DOMAIN files' =>
              x \in DOMAIN files /\ (files'[x] = files[x] \/ files'[x].src \notin Versions)
         /\ edits' = edits /\ x \in DOMAIN files => x \in DOMAIN files' /\ files'[x] = files[x]
<1>1. CASE WriteOutputs
  BY <1>1, SettledNotWritten
<1>2. CASE EditOutput
  <2>1. edits' # edits
    BY <1>2 DEF EditOutput, TypeInv, TypeOK
  <2>2. QED
    BY <1>2, <2>1, EditsShow
<1>3. CASE files' = files
  BY <1>3
<1>4. QED
  BY <1>1, <1>2, <1>3
  DEF RunnerNext, Process, OtherPrograms, ValidateCsvDestination, PrepareOutputDirectory,
      ScanCatalog, DecodeWatermark, LoadPreflightBatch, Preflight, QueryExecutors,
      SkipUnavailable, SkipWithoutBaseline, StartExperiment, WarmUp, ScanInput,
      ReadInput, Execute, Validate, Summarize, WriteReport, EditInput, vars

(* A baseline has its PNGs in a settled directory, and so has an OpenMP    *)
(* row; what is compared with a baseline has one.                          *)
BaselineSettled == \A n \in baseline : IsSettled(SequentialDirectory(n))

RowsSettled ==
  \A i \in DOMAIN records : records[i].backend = OpenMP =>
    records[i].count \in baseline /\ IsSettled(OpenMPDirectory(records[i].count, records[i].threads))

ComparedWithBaseline ==
  pc \in Measuring /\ plan[k].backend # Sequential => plan[k].count \in baseline

(* The PNGs of two directories agree unless another program changed them.  *)
Agree(own, reference) ==
  \A p \in Files :
    /\ {<<own, p>>, <<reference, p>>} \subseteq DOMAIN files
    /\ {files[<<own, p>>].src, files[<<reference, p>>].src} \subseteq Versions
    => files[<<own, p>>] = files[<<reference, p>>]

(* They do when the last repetition of a valid experiment was compared.    *)
ComparedAgree ==
  pc = "summarize" /\ plan[k].backend = OpenMP /\ cur.passed
  => Agree(plan[k], SequentialDirectory(plan[k].count))

ReferenceInv ==
  /\ MeasureInv /\ plan \in Plans
  /\ BaselineSettled /\ RowsSettled /\ ComparedWithBaseline
  /\ ComparedAgree /\ ValidatedOutputsAgree

(* No step unsettles a directory.                                          *)
LEMMA StaysSettled ==
  ASSUME TypeInv, [RunnerNext]_vars, NEW d, IsSettled(d)
  PROVE  IsSettled(d)'
<1>1. plan' = plan /\ (k' = k \/ k' = k + 1) /\ k \in Nat
  BY StepKinds DEF Elsewhere, PreflightFailed, WithoutRow, WithRow, LoopStep, WriteReport,
                   TypeInv, TypeOK, setup
<1>2. PICK i \in DOMAIN plan : i < k /\ plan[i] = d /\ d.backend # Cuda
  BY DEF IsSettled
<1>3. i \in Nat
  BY DEF TypeInv, TypeOK
<1>4. i < k'
  BY <1>1, <1>2, <1>3
<1>5. QED
  BY <1>1, <1>2, <1>4 DEF IsSettled

(* What happens to the rows, the baselines and the index in a step.        *)
LEMMA LedgerMoves ==
  ASSUME TypeInv, [RunnerNext]_vars
  PROVE  /\ plan' = plan /\ (k' = k \/ k' = k + 1)
         /\ \/ UNCHANGED <<records, baseline>>
            \/ /\ pc = "summarize" /\ k' = k + 1 /\ pc' = "next" /\ files' = files
               /\ records' = Append(records, Record(plan[k])) /\ baseline' = Baselines(plan[k])
<1>1. plan' = plan /\ (k' = k \/ k' = k + 1)
  BY StepKinds DEF Elsewhere, PreflightFailed, WithoutRow, WithRow, LoopStep, WriteReport, setup
<1>2. CASE Summarize
  BY <1>1, <1>2 DEF Summarize, FailExperiment, NextExperiment
<1>3. CASE UNCHANGED <<records, baseline>>
  BY <1>1, <1>3
<1>4. CASE Validate
  <2>1. k <= Len(plan)
    BY <1>4 DEF TypeInv, InExperiment, Measuring, Validate
  <2>2. UNCHANGED <<records, baseline>>
    BY <1>4, <2>1, ValidateAccumulates DEF FailExperiment
  <2>3. QED
    BY <1>1, <2>2
<1>5. QED
  BY <1>2, <1>3, <1>4
  DEF RunnerNext, Process, OtherPrograms, ValidateCsvDestination, PrepareOutputDirectory,
      ScanCatalog, DecodeWatermark, LoadPreflightBatch, Preflight, QueryExecutors,
      SkipUnavailable, SkipWithoutBaseline, StartExperiment, WarmUp, ScanInput,
      ReadInput, Execute, WriteOutputs, WriteReport, FailExperiment, SkipExperiment,
      EditInput, EditOutput, vars, ledger

(* The experiment that gets a row settles its directory.                   *)
LEMMA SettledByRow ==
  ASSUME ReferenceInv, pc = "summarize", k' = k + 1, plan' = plan,
         NEW d, d = plan[k], d.backend # Cuda
  PROVE  IsSettled(d)'
<1>1. k \in DOMAIN plan /\ k \in Nat /\ k < k + 1
  BY DEF ReferenceInv, MeasureInv, TypeInv, TypeOK, InExperiment, Measuring
<1>2. QED
  BY <1>1 DEF IsSettled

LEMMA SettledRowsStep ==
  ASSUME ReferenceInv, [RunnerNext]_vars
  PROVE  BaselineSettled' /\ RowsSettled'
<1>1. TypeInv /\ plan \in Plans /\ BaselineSettled /\ RowsSettled /\ records \in Seq(Rows)
  BY DEF ReferenceInv, MeasureInv, TypeInv, TypeOK
<1>2. \A d : IsSettled(d) => IsSettled(d)'
  BY <1>1, StaysSettled
<1>3. CASE UNCHANGED <<records, baseline>>
  BY <1>1, <1>2, <1>3 DEF BaselineSettled, RowsSettled
<1>4. CASE /\ pc = "summarize" /\ k' = k + 1 /\ plan' = plan
           /\ records' = Append(records, Record(plan[k])) /\ baseline' = Baselines(plan[k])
  <2>1. /\ k \in DOMAIN plan
        /\ plan[k].backend = Sequential => plan[k] = SequentialDirectory(plan[k].count)
        /\ plan[k].backend = OpenMP => plan[k] = OpenMPDirectory(plan[k].count, plan[k].threads)
    <3>1. k \in DOMAIN plan
      BY <1>1, <1>4 DEF TypeInv, TypeOK, InExperiment, Measuring
    <3>2. QED
      BY <1>1, <3>1, PlanFacts
  <2>2. \A d : d = plan[k] /\ d.backend # Cuda => IsSettled(d)'
    BY <1>4, SettledByRow
  <2>3. baseline \subseteq baseline'
        /\ \A n \in baseline' \ baseline : plan[k].backend = Sequential /\ n = plan[k].count
    BY <1>4 DEF Baselines
  <2>4. BaselineSettled'
    <3>1. ASSUME NEW n \in baseline' PROVE IsSettled(SequentialDirectory(n))'
      <4>1. CASE n \in baseline
        BY <1>1, <1>2, <4>1 DEF BaselineSettled
      <4>2. CASE n \notin baseline
        <5>1. plan[k].backend = Sequential /\ n = plan[k].count
          BY <2>3, <4>2
        <5>2. plan[k] = SequentialDirectory(n) /\ plan[k].backend # Cuda
          BY <2>1, <5>1 DEF Sequential, Cuda
        <5>3. QED
          BY <2>2, <5>2
      <4>3. QED
        BY <4>1, <4>2
    <3>2. QED
      BY <3>1 DEF BaselineSettled
  <2>5. RowsSettled'
    <3> DEFINE l == Len(records)
               r == Record(plan[k])
    <3>1. /\ DOMAIN records' = 1 .. l + 1 /\ DOMAIN records = 1 .. l /\ l \in Nat
          /\ \A i \in 1 .. l : records'[i] = records[i]
          /\ records'[l + 1] = r
      BY <1>1, <1>4
    <3>2. r.backend = plan[k].backend /\ r.count = plan[k].count /\ r.threads = plan[k].threads
      BY DEF Record
    <3>3. ASSUME NEW i \in 1 .. l + 1, NEW c, NEW t, records'[i].backend = OpenMP,
                 c = records'[i].count, t = records'[i].threads
          PROVE  c \in baseline' /\ IsSettled(OpenMPDirectory(c, t))'
      <4>1. CASE i \in 1 .. l
        <5>1. c \in baseline /\ IsSettled(OpenMPDirectory(c, t))
          BY <1>1, <3>1, <3>3, <4>1 DEF RowsSettled
        <5>2. QED
          BY <1>2, <2>3, <5>1
      <4>2. CASE i = l + 1
        <5>1. /\ plan[k].backend = OpenMP /\ plan[k].backend # Cuda
              /\ plan[k].backend # Sequential
              /\ c = plan[k].count /\ t = plan[k].threads
          BY <3>1, <3>2, <3>3, <4>2 DEF OpenMP, Cuda, Sequential
        <5>2. c \in baseline
          BY <1>4, <5>1 DEF ReferenceInv, ComparedWithBaseline, Measuring
        <5>3. plan[k] = OpenMPDirectory(c, t)
          BY <2>1, <5>1
        <5>4. QED
          BY <2>2, <2>3, <5>1, <5>2, <5>3
      <4>3. QED
        BY <4>1, <4>2
    <3>4. QED
      BY <3>1, <3>3 DEF RowsSettled, IsSettled
  <2>6. QED
    BY <2>4, <2>5
<1>5. QED
  BY <1>1, <1>3, <1>4, LedgerMoves

(* An experiment of a parallel back end starts only beside its baseline.   *)
LEMMA ComparedWithBaselineStep ==
  ASSUME TypeInv, ComparedWithBaseline, [RunnerNext]_vars
  PROVE  ComparedWithBaseline'
<1>1. CASE pc' \notin Measuring
  BY <1>1 DEF ComparedWithBaseline
<1>2. CASE UNCHANGED <<plan, k, baseline>> /\ pc \in Measuring
  BY <1>2 DEF ComparedWithBaseline
<1>3. CASE StartExperiment
  BY <1>1, <1>3 DEF StartExperiment, FailExperiment, NextExperiment, ComparedWithBaseline,
                    Measuring, setup
<1>4. CASE Validate
  <2>1. k <= Len(plan) /\ pc \in Measuring /\ plan' = plan
    BY <1>4 DEF TypeInv, InExperiment, Measuring, Validate, setup
  <2>2. CASE FailExperiment("Output") \/ FailExperiment("Processing")
    BY <1>1, <2>2 DEF FailExperiment, NextExperiment, Measuring
  <2>3. CASE ~(FailExperiment("Output") \/ FailExperiment("Processing"))
    BY <1>2, <1>4, <2>1, <2>3, ValidateAccumulates
  <2>4. QED
    BY <2>2, <2>3
<1>5. CASE UNCHANGED <<plan, k, baseline, pc>>
  BY <1>5 DEF ComparedWithBaseline
<1>6. QED
  BY <1>1, <1>2, <1>3, <1>4, <1>5
  DEF RunnerNext, Process, OtherPrograms, ValidateCsvDestination, PrepareOutputDirectory,
      ScanCatalog, DecodeWatermark, LoadPreflightBatch, Preflight, Preflights, QueryExecutors,
      SkipUnavailable, SkipWithoutBaseline, WarmUp, ScanInput,
      ReadInput, Execute, WriteOutputs, Summarize, WriteReport, FailExperiment, SkipExperiment,
      NextExperiment, EditInput, EditOutput, Measuring, vars, setup, ledger

(* Two images without an error between them are the same.                  *)
LEMMA NoErrorIsEqual ==
  ASSUME NEW a \in Images, NEW b \in Images, PixelError(a, b) <= 0
  PROVE  a = b
<1>1. a.err \in Int /\ b.err \in Int
  BY BoundsAssumption DEF Images
<1>2. a.src = b.src /\ a.err = b.err
  BY <1>1 DEF PixelError, Different
<1>3. QED
  BY <1>2 DEF Images

LEMMA ComparedAgreeStep ==
  ASSUME ReferenceInv, [RunnerNext]_vars
  PROVE  ComparedAgree'
<1>1. TypeInv /\ CurInv /\ OutputsOfFrozenSources /\ plan \in Plans
  BY DEF ReferenceInv, MeasureInv
<1>2. CASE pc' # "summarize"
  BY <1>2 DEF ComparedAgree
<1>3. CASE pc = "summarize" /\ UNCHANGED <<plan, k, cur>> /\ (EditOutput \/ files' = files)
  <2>1. \A x \in DOMAIN files' :
          x \in DOMAIN files /\ (files'[x] = files[x] \/ files'[x].src \notin Versions)
    BY <1>1, <1>3, EditsShow
  <2>2. QED
    BY <1>3, <2>1 DEF ReferenceInv, ComparedAgree, Agree
<1>4. CASE Validate /\ pc' = "summarize"
  <2>1. /\ k <= Len(plan) /\ k \in DOMAIN plan
        /\ UNCHANGED <<plan, expected, files>>
    BY <1>1, <1>4 DEF TypeInv, TypeOK, InExperiment, Measuring, Validate, setup
  <2>2. SUFFICES ASSUME plan[k].backend = OpenMP, k' = k, cur'.passed
                 PROVE  Agree(plan[k], SequentialDirectory(plan[k].count))
    <3>1. k' = k
      BY <1>1, <1>4, <2>1, ValidateAccumulates DEF FailExperiment, NextExperiment
    <3>2. QED
      BY <2>1, <3>1 DEF ComparedAgree, Agree
  <2> DEFINE own == plan[k]
             reference == SequentialDirectory(plan[k].count)
             all == DOMAIN cur.result
             errors == {PixelError(files[<<reference, p>>], files[<<own, p>>]) : p \in all}
             structural == \E p \in all :
               (files[<<reference, p>>].src = "resized") # (files[<<own, p>>].src = "resized")
  <2>3. OutputDirectory(plan[k], cur.effective) = own /\ plan[k].backend # Sequential
        /\ Tolerance(plan[k].backend) = 0
    BY <2>2 DEF OutputDirectory, Tolerance, OpenMP, Sequential, Cuda
  <2>4. /\ Stored(own, all) /\ Stored(reference, all)
        /\ Accumulate(errors, structural, 0)
    BY <1>4, <2>3 DEF Validate, FailExperiment, NextExperiment
  <2>5. all = Frozen
    BY <1>4 DEF Validate, CurInv, ReferenceInv, MeasureInv
  <2>6. PICK worst \in errors :
          /\ \A x \in errors : x <= worst
          /\ cur' = [cur EXCEPT
                        !.rep = @ + 1, !.result = <<>>,
                        !.passed = @ /\ ~structural /\ worst <= 0,
                        !.structural = @ \/ structural,
                        !.maxError = IF ~structural /\ worst > @ THEN worst ELSE @]
    BY <2>4 DEF Accumulate
  <2>7. worst <= 0
    BY <1>1, <2>2, <2>6 DEF TypeInv, TypeOK, CurOK
  <2>8. ASSUME NEW p \in all PROVE files[<<own, p>>] = files[<<reference, p>>]
    <3>1. <<own, p>> \in DOMAIN files /\ <<reference, p>> \in DOMAIN files
      BY <2>4 DEF Stored
    <3>2. files[<<own, p>>] \in Images /\ files[<<reference, p>>] \in Images
      BY <1>1, <3>1 DEF TypeInv, TypeOK
    <3>3. \A x \in errors : x \in 0 .. Different
      <4>1. \A q \in all : files[<<own, q>>] \in Images /\ files[<<reference, q>>] \in Images
        BY <1>1, <2>4 DEF Stored, TypeInv, TypeOK
      <4>2. QED
        BY <4>1, PixelErrorType
    <3>4. PixelError(files[<<reference, p>>], files[<<own, p>>]) <= 0
      <4>1. PixelError(files[<<reference, p>>], files[<<own, p>>]) \in errors
        OBVIOUS
      <4> HIDE DEF errors
      <4>2. QED
        BY <2>6, <2>7, <3>3, <4>1 DEF Different
    <3>5. QED
      BY <3>2, <3>4, NoErrorIsEqual
  <2>9. ASSUME NEW p \in Files, <<own, p>> \in DOMAIN files PROVE p \in all
    BY <1>1, <2>5, <2>9 DEF OutputsOfFrozenSources, Frozen
  <2>10. QED
    BY <2>8, <2>9 DEF Agree
<1>5. QED
  BY <1>2, <1>3, <1>4
  DEF RunnerNext, Process, OtherPrograms, ValidateCsvDestination, PrepareOutputDirectory,
      ScanCatalog, DecodeWatermark, LoadPreflightBatch, Preflight, Preflights, QueryExecutors,
      SkipUnavailable, SkipWithoutBaseline, StartExperiment, WarmUp, ScanInput,
      ReadInput, Execute, WriteOutputs, Summarize, WriteReport, FailExperiment, SkipExperiment,
      NextExperiment, EditInput, EditOutput, vars, setup, ledger

(* Only other programs change the PNGs of two settled directories.         *)
LEMMA SettledAgree ==
  ASSUME TypeInv, plan \in Plans, [RunnerNext]_vars,
         NEW own, NEW reference, IsSettled(own), IsSettled(reference), Agree(own, reference)
  PROVE  Agree(own, reference)'
<1> SUFFICES ASSUME NEW p \in Files,
                    {<<own, p>>, <<reference, p>>} \subseteq DOMAIN files',
                    {files'[<<own, p>>].src, files'[<<reference, p>>].src} \subseteq Versions
             PROVE  files'[<<own, p>>] = files'[<<reference, p>>]
  BY DEF Agree
<1>1. <<own, p>> \in DOMAIN files /\ files'[<<own, p>>] = files[<<own, p>>]
  <2> DEFINE x == <<own, p>>
  <2>1. IsSettled(x[1])
    OBVIOUS
  <2> HIDE DEF x
  <2>2. x \in DOMAIN files' =>
          x \in DOMAIN files /\ (files'[x] = files[x] \/ files'[x].src \notin Versions)
    BY <2>1, SettledKept
  <2>3. QED
    BY <2>2 DEF x
<1>2. <<reference, p>> \in DOMAIN files /\ files'[<<reference, p>>] = files[<<reference, p>>]
  <2> DEFINE x == <<reference, p>>
  <2>1. IsSettled(x[1])
    OBVIOUS
  <2> HIDE DEF x
  <2>2. x \in DOMAIN files' =>
          x \in DOMAIN files /\ (files'[x] = files[x] \/ files'[x].src \notin Versions)
    BY <2>1, SettledKept
  <2>3. QED
    BY <2>2 DEF x
<1>3. QED
  BY <1>1, <1>2 DEF Agree

(* What ValidatedOutputsAgree says of each row.                            *)
RowsAgree ==
  \A i \in DOMAIN records : records[i].backend = OpenMP /\ records[i].passed =>
    Agree(OpenMPDirectory(records[i].count, records[i].threads),
          SequentialDirectory(records[i].count))

LEMMA RowsAgreeStep ==
  ASSUME ReferenceInv, [RunnerNext]_vars
  PROVE  RowsAgree'
<1>1. /\ TypeInv /\ plan \in Plans /\ BaselineSettled /\ RowsSettled
      /\ records \in Seq(Rows)
  BY DEF ReferenceInv, MeasureInv, TypeInv, TypeOK
<1>2. RowsAgree
  BY DEF ReferenceInv, ValidatedOutputsAgree, RowsAgree, Agree, OpenMPDirectory
<1>3. ASSUME NEW i \in DOMAIN records, NEW c, NEW t,
             c = records[i].count, t = records[i].threads,
             records[i].backend = OpenMP, records[i].passed
      PROVE  Agree(OpenMPDirectory(c, t), SequentialDirectory(c))'
  <2>1. Agree(OpenMPDirectory(c, t), SequentialDirectory(c))
    BY <1>2, <1>3 DEF RowsAgree
  <2>2. IsSettled(OpenMPDirectory(c, t)) /\ IsSettled(SequentialDirectory(c))
    BY <1>1, <1>3 DEF RowsSettled, BaselineSettled
  <2>3. QED
    BY <1>1, <2>1, <2>2, SettledAgree
<1>4. CASE UNCHANGED records
  BY <1>3, <1>4 DEF RowsAgree, Agree
<1>5. CASE /\ pc = "summarize" /\ files' = files
           /\ records' = Append(records, Record(plan[k]))
  <2> DEFINE l == Len(records)
             r == Record(plan[k])
  <2>1. /\ DOMAIN records' = 1 .. l + 1 /\ DOMAIN records = 1 .. l /\ l \in Nat
        /\ \A i \in 1 .. l : records'[i] = records[i]
        /\ records'[l + 1] = r
    BY <1>1, <1>5
  <2>2. /\ r.backend = plan[k].backend /\ r.count = plan[k].count
        /\ r.threads = plan[k].threads /\ r.passed = cur.passed
    BY DEF Record
  <2>3. k \in DOMAIN plan
    BY <1>1, <1>5 DEF TypeInv, TypeOK, InExperiment, Measuring
  <2>4. ASSUME NEW i \in 1 .. l + 1, NEW c, NEW t,
               c = records'[i].count, t = records'[i].threads,
               records'[i].backend = OpenMP, records'[i].passed
        PROVE  Agree(OpenMPDirectory(c, t), SequentialDirectory(c))'
    <3>1. CASE i \in 1 .. l
      BY <1>3, <2>1, <2>4, <3>1
    <3>2. CASE i = l + 1
      <4>1. plan[k].backend = OpenMP /\ cur.passed /\ c = plan[k].count /\ t = plan[k].threads
        BY <2>1, <2>2, <2>4, <3>2
      <4>2. plan[k] = OpenMPDirectory(c, t)
        BY <1>1, <2>3, <4>1, PlanFacts
      <4>3. Agree(OpenMPDirectory(c, t), SequentialDirectory(c))
        BY <1>5, <4>1, <4>2 DEF ReferenceInv, ComparedAgree
      <4>4. QED
        BY <1>5, <4>3 DEF Agree
    <3>3. QED
      BY <2>1, <3>1, <3>2
  <2>5. QED
    BY <2>1, <2>4 DEF RowsAgree, Agree
<1>6. QED
  BY <1>1, <1>4, <1>5, LedgerMoves

(* The invariant holds at first and is kept by every step.                 *)
LEMMA ReferenceInit == Init => ReferenceInv
<1> SUFFICES ASSUME Init PROVE ReferenceInv
  OBVIOUS
<1>1. MeasureInv
  BY MeasureInit
<1>2. /\ plan \in Plans /\ records = <<>> /\ baseline = {}
      /\ pc \notin Measuring /\ pc # "summarize"
  BY DEF Init, Measuring
<1>3. QED
  BY <1>1, <1>2
  DEF ReferenceInv, BaselineSettled, RowsSettled, ComparedWithBaseline, ComparedAgree,
      ValidatedOutputsAgree

LEMMA ReferenceStep == ReferenceInv /\ [RunnerNext]_vars => ReferenceInv'
<1> SUFFICES ASSUME ReferenceInv, [RunnerNext]_vars PROVE ReferenceInv'
  OBVIOUS
<1>1. MeasureInv'
  BY MeasureStep DEF ReferenceInv
<1>2. TypeInv /\ ComparedWithBaseline
  BY DEF ReferenceInv, MeasureInv
<1>3. (plan \in Plans)'
  BY <1>2, LedgerMoves DEF ReferenceInv
<1>4. BaselineSettled' /\ RowsSettled'
  BY SettledRowsStep
<1>5. ComparedWithBaseline'
  BY <1>2, ComparedWithBaselineStep
<1>6. ComparedAgree'
  BY ComparedAgreeStep
<1>7. ValidatedOutputsAgree'
  BY RowsAgreeStep DEF RowsAgree, Agree, OpenMPDirectory, ValidatedOutputsAgree
<1>8. QED
  BY <1>1, <1>3, <1>4, <1>5, <1>6, <1>7 DEF ReferenceInv

THEOREM ReferenceInvariance == Spec => []ReferenceInv
<1>1. ControllerInit => ReferenceInv
  BY ReferenceInit DEF ControllerInit
<1>2. ReferenceInv /\ [Next]_<<vars, exit>> => ReferenceInv'
  BY ReferenceStep, RunnerSteps
<1>3. QED
  BY <1>1, <1>2, PTL DEF Spec

(* The PNGs a valid OpenMP row was compared on are still those in its      *)
(* directory, and still equal those of its baseline, when the run goes on: *)
(* nobody but another program changes either of them.                      *)
THEOREM ValidatedOutputsStillAgree == Spec => []ValidatedOutputsAgree
<1>1. ReferenceInv => ValidatedOutputsAgree
  BY DEF ReferenceInv
<1>2. QED
  BY <1>1, ReferenceInvariance, PTL

(* No experiment rewrites the PNGs of a Sequential experiment that is a    *)
(* baseline.                                                               *)
THEOREM ReferenceIsKept == Spec => ReferenceKept
<1>1. ASSUME ReferenceInv, [RunnerNext]_vars, NEW x \in DOMAIN files,
             \E n \in baseline : x[1] = SequentialDirectory(n), edits' = edits
      PROVE  x \in DOMAIN files' /\ files'[x] = files[x]
  <2>1. IsSettled(x[1])
    BY <1>1 DEF ReferenceInv, BaselineSettled
  <2>2. TypeInv /\ plan \in Plans
    BY <1>1 DEF ReferenceInv, MeasureInv
  <2>3. QED
    BY <1>1, <2>1, <2>2, SettledKept
<1>2. ReferenceInv /\ [Next]_<<vars, exit>>
      => [\A x \in DOMAIN files :
            (\E n \in baseline : x[1] = SequentialDirectory(n)) /\ edits' = edits
            => x \in DOMAIN files' /\ files'[x] = files[x]]_vars
  BY <1>1, RunnerSteps
<1>3. QED
  BY <1>2, ReferenceInvariance, PTL DEF Spec, ReferenceKept
==============================================================================
