------------------------------ MODULE Dashboard ------------------------------
(***************************************************************************)
(* Sessions of the dashboard that run the CLI with --append on one result  *)
(* CSV, one process of CsvReport each, find out which runs are new in it,  *)
(* and record how long the CLI took in a sidecar file.  A page that is     *)
(* loaded again while its CLI runs is another session.                     *)
(***************************************************************************)
EXTENDS CsvReport, SequencesExt

VARIABLES
  session,     \* where the session of each process is
  before,      \* before_run_ids of each session
  newRuns,     \* RunResult.run_ids of each session
  status,      \* RunResult.status of each session, success and partial alike
  sidecar,     \* whether the sidecar exists, and its lines
  needsHeader, \* write_header of each session
  recorded,    \* history: the sessions that recorded without an error
  disturbed    \* history: the CSV a session read was replaced by others, or not readable

sessionVars == <<session, before, newRuns, status, needsHeader, recorded>>
vars == <<csvVars, sessionVars, sidecar, disturbed>>

Header == [run |-> "run_id", by |-> "cold_start_cli_ms"]
Line(run, by) == [run |-> run, by |-> by]

DashInit ==
  /\ Init /\ mode = [p \in Processes |-> "append"]
  /\ session = [p \in Processes |-> "idle"]
  /\ before = [p \in Processes |-> {}] /\ newRuns = before
  /\ status = [p \in Processes |-> "none"]
  /\ sidecar = [exists |-> FALSE, lines |-> <<>>]
  /\ needsHeader = [p \in Processes |-> FALSE] /\ recorded = {}
  /\ disturbed = [p \in Processes |-> FALSE]

At(p, step, next) == session[p] = step /\ session' = [session EXCEPT ![p] = next]

(* read_run_ids: what reading the file may give.  Another program may keep *)
(* it from being read; under another header there may be ids or none.      *)
RunIds ==
  CASE file.header = "none"    -> {{}}
    [] file.header = "ours"    -> {Runs(file), {}}
    [] file.header = "foreign" -> {Runs(file), {"garbled"}, {}}

ReadBefore(p) ==
  /\ At(p, "idle", "launch")
  /\ \E runs \in RunIds :
       /\ before' = [before EXCEPT ![p] = runs]
       /\ disturbed' = [disturbed EXCEPT ![p] = runs # Runs(file)]
  /\ UNCHANGED <<csvVars, newRuns, status, needsHeader, recorded, sidecar>>

Fails(p) == status' = [status EXCEPT ![p] = "failed"]

Launch(p) ==
  /\ At(p, "launch", "wait") /\ Start(p)
  /\ UNCHANGED <<before, newRuns, status, needsHeader, recorded, sidecar, disturbed>>

(* Popen raises OSError.                                                   *)
LaunchFails(p) ==
  /\ At(p, "launch", "returned") /\ Fails(p)
  /\ UNCHANGED <<csvVars, before, newRuns, needsHeader, recorded, sidecar, disturbed>>

(* Faulty: a process that dies is waited for.                              *)
EndedWell(p) == pc[p] \in {"succeeded", "failed"}

Ended(p) == pc[p] \in {"succeeded", "failed", "crashed"}

(* A CLI that wrote its rows succeeds, in part, or fails with rows of      *)
(* failed validations only; any other code is a failure.                   *)
Wait(p) ==
  /\ session[p] = "wait" /\ Ended(p)
  /\ \E code \in IF pc[p] = "succeeded" THEN {0, 2, 70} ELSE {73} :
       IF code \in {0, 2} THEN At(p, "wait", "look") /\ UNCHANGED status
                          ELSE At(p, "wait", "returned") /\ Fails(p)
  /\ UNCHANGED <<csvVars, before, newRuns, needsHeader, recorded, sidecar, disturbed>>

(* Faulty: the runs that were there before are not taken away.             *)
AllRunIds(p, runs) == runs

NewRunIds(p, runs) == runs \ before[p]

(* The runs that were not there before are this session's.                 *)
Look(p) ==
  /\ session[p] = "look"
  /\ \E runs \in RunIds :
       LET new == NewRunIds(p, runs)
       IN  IF ~Exists \/ new = {}
             THEN At(p, "look", "returned") /\ Fails(p) /\ UNCHANGED newRuns
             ELSE /\ At(p, "look", "open") /\ newRuns' = [newRuns EXCEPT ![p] = new]
                  /\ status' = [status EXCEPT ![p] = "complete"]
  /\ UNCHANGED <<csvVars, before, needsHeader, recorded, sidecar, disturbed>>

(* record_cold_start_measurements: whether the sidecar exists decides      *)
(* about its header, then it is opened, and that creates it.               *)
InspectSidecar(p) ==
  /\ At(p, "open", "record")
  /\ needsHeader' = [needsHeader EXCEPT ![p] = ~sidecar.exists]
  /\ UNCHANGED <<csvVars, before, newRuns, status, recorded, sidecar, disturbed>>

OpenSidecar(p) ==
  /\ At(p, "record", "flush")
  /\ sidecar' = [sidecar EXCEPT !.exists = TRUE]
  /\ UNCHANGED <<csvVars, before, newRuns, status, needsHeader, recorded, disturbed>>

(* The lines reach the file when it is closed.                             *)
FlushSidecar(p) ==
  /\ At(p, "flush", "load")
  /\ LET new == SetToSeq(newRuns[p])
         lines == [k \in DOMAIN new |-> Line(new[k], p)]
     IN  sidecar' = [sidecar EXCEPT !.lines =
                       @ \o (IF needsHeader[p] THEN <<Header>> ELSE <<>>) \o lines]
  /\ recorded' = recorded \cup {p}
  /\ UNCHANGED <<csvVars, before, newRuns, status, needsHeader, disturbed>>

(* An OSError is logged, and the session goes on.                          *)
RecordFails(p) ==
  /\ At(p, "record", "load") \/ At(p, "flush", "load")
  /\ UNCHANGED <<csvVars, before, newRuns, status, needsHeader, recorded,
                 sidecar, disturbed>>

(* _execute loads the CSV once more to show it: load_results refuses rows  *)
(* under another header, and torn ones.                                    *)
Load(p) ==
  /\ At(p, "load", "returned")
  /\ \E loaded \in BOOLEAN :
       /\ loaded => file.header = "ours" /\ file.runs # <<>>
       /\ status' = [status EXCEPT ![p] = IF loaded THEN @ ELSE "failed"]
  /\ UNCHANGED <<csvVars, before, newRuns, needsHeader, recorded, sidecar, disturbed>>

(* A step of another session's process, or of another program.             *)
Mark(S) ==
  disturbed' = [q \in Processes |-> disturbed[q] \/ (file' # file /\ q \in S)]

Session(p) ==
  \/ ReadBefore(p) \/ Launch(p) \/ LaunchFails(p) \/ Wait(p) \/ Look(p) \/ InspectSidecar(p)
  \/ OpenSidecar(p) \/ FlushSidecar(p) \/ RecordFails(p) \/ Load(p)
Process(p) == Work(p) /\ Mark(Processes \ {p}) /\ UNCHANGED <<sessionVars, sidecar>>

DashNext ==
  \/ \E p \in Processes :
       Session(p) \/ Process(p) \/ (Crash(p) /\ UNCHANGED <<sessionVars, sidecar, disturbed>>)
  \/ Meddle /\ Mark(Processes) /\ UNCHANGED <<sessionVars, sidecar>>

DashSpec == DashInit /\ [][DashNext]_vars

(* Every session begins and goes on, and a process does until it ends.     *)
FairDashSpec ==
  DashSpec /\ \A p \in Processes : WF_vars(Session(p)) /\ WF_vars(Process(p))

-----------------------------------------------------------------------------
(* Properties.                                                             *)

Succeeded(p) == session[p] \in {"open", "record", "flush", "load"}

(* A session whose CSV was readable and replaced by its own CLI only, and  *)
(* whose CLI could read all of it, takes its own run, and nothing else,    *)
(* for new, nor does it record its duration for a run of somebody else.    *)
NewRunsAreOwn ==
  /\ \A p \in Processes : Succeeded(p) /\ ~disturbed[p] /\ p \notin short => newRuns[p] = {p}
  /\ \A k \in DOMAIN sidecar.lines :
       LET l == sidecar.lines[k]
       IN  l # Header /\ l.run # l.by => disturbed[l.by] \/ l.by \in short

(* A session returns, however its CLI ends.                                *)
EverySessionReturns == \A p \in Processes : session[p] = "wait" ~> session[p] = "returned"

(* load_cold_start_measurements: a file that does not begin with the       *)
(* header has no measurements.                                             *)
Loaded ==
  IF sidecar.lines # <<>> /\ sidecar.lines[1] = Header
    THEN {sidecar.lines[k].run : k \in DOMAIN sidecar.lines} ELSE {}

(* What a session recorded without an error can be loaded.                 *)
RecordedCanBeLoaded == \A p \in recorded : newRuns[p] \subseteq Loaded
==============================================================================
