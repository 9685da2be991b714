------------------------------ MODULE Controller ------------------------------
(***************************************************************************)
(* run_cli around run_benchmark_plan: the summary the runner returns, or   *)
(* the exception that leaves it, becomes the exit code of the process.     *)
(* The exit code is what the dashboard and scripts decide by.              *)
(***************************************************************************)
EXTENDS BenchmarkRunner

VARIABLE exit   \* ExitCode of the process, NoExit while it runs

NoExit == -1
Success == 0
PartialSuccess == 2
InputFailure == 65
BackendUnavailable == 69
InternalFailure == 70
OutputFailure == 73

MapFailure(category) ==
  CASE category = "Input" -> InputFailure
    [] category = "BackendUnavailable" -> BackendUnavailable
    [] category = "Output" -> OutputFailure
    [] OTHER -> InternalFailure

HasConsistentCounts ==
  summary.succeeded + summary.failed + summary.skipped = Len(plan)

(* Faulty: a success without a result file is not looked at.               *)
ExitCodeWithoutCsv ==
  IF ~HasConsistentCounts THEN InternalFailure
  ELSE IF summary.succeeded = Len(plan) THEN Success
  ELSE IF summary.succeeded > 0 THEN PartialSuccess
  ELSE MapFailure(summary.primary)

ExitCode ==
  IF ~HasConsistentCounts THEN InternalFailure
  ELSE IF summary.succeeded > 0 /\ ~summary.csvPath THEN OutputFailure
  ELSE IF summary.succeeded = Len(plan) THEN Success
  ELSE IF summary.succeeded > 0 THEN PartialSuccess
  ELSE MapFailure(summary.primary)

ControllerInit == Init /\ exit = NoExit

(* The pipeline returned a summary.                                        *)
MapSummary ==
  /\ pc = "returned" /\ exit = NoExit
  /\ exit' = ExitCode
  /\ UNCHANGED vars

(* The pipeline threw.                                                     *)
MapException ==
  /\ pc = "thrown" /\ exit = NoExit
  /\ exit' = InternalFailure
  /\ UNCHANGED vars

Exited == exit # NoExit /\ UNCHANGED <<vars, exit>>

Program == (Process /\ UNCHANGED exit) \/ MapSummary \/ MapException
Next == Program \/ (OtherPrograms /\ UNCHANGED exit) \/ Exited

Spec == ControllerInit /\ [][Next]_<<vars, exit>>

(* The process is single-threaded and never waits: it takes its next step. *)
FairSpec == Spec /\ WF_<<vars, exit>>(Program)

-----------------------------------------------------------------------------
(* Properties.                                                             *)

PassedRows(rows) == {i \in DOMAIN rows : rows[i].passed}

(* The exit code tells the truth about the result file: 0 means a          *)
(* validated row for every planned experiment, 2 means some but not all,   *)
(* and with any other code the file got no validated row from this run.    *)
ExitCodeTruthful ==
  LET n == Cardinality(PassedRows(csv))
  IN  /\ exit = Success => n = Len(plan) /\ Len(csv) = Len(plan)
      /\ exit = PartialSuccess => 0 < n /\ n < Len(plan)
      /\ exit \notin {NoExit, Success, PartialSuccess} => n = 0

(* Whatever fails, the process ends with an exit code.                     *)
Terminates == <>(exit # NoExit)

(* What docs/design/M7 says of the exit code: a failure to write the CSV   *)
(* or the images provides no CSV and ends with 73.                         *)
OutputFailureExits73 ==
  exit # NoExit /\ "Output" \in summary.issues => exit = OutputFailure /\ csv = <<>>
==============================================================================
