------------------------------ MODULE CsvReport ------------------------------
(***************************************************************************)
(* Runs of the CLI, one process each, that write their rows to the same    *)
(* result CSV: checked before the run, checked again and rewritten as a    *)
(* whole at its end.  A process may crash anywhere, the disk may fail, and *)
(* another program may replace or remove the file.                         *)
(*                                                                         *)
(* A file is its header, the runs whose rows are in it, and whether none   *)
(* of these rows is torn or missing.  A run id that is cut short is no     *)
(* run's: "garbled".  Any first line but the schema's is "foreign".        *)
(***************************************************************************)
EXTENDS Naturals, Sequences

CONSTANTS
  Processes,   \* the runs of the CLI
  MaxMeddling  \* bound: what other programs do to the result CSV

ASSUME ProcessesAssumption == "garbled" \notin Processes

VARIABLES
  mode,       \* CsvMode of each process
  file,       \* the result CSV
  temporary,  \* each process's temporary file
  contents,   \* what each process is going to write
  pc,         \* where each process is
  changed,    \* history: who replaced the file since a process read it
  swapped,    \* history: a foreign file took its place since a process's last check
  short,      \* history: the processes whose reading ended early and lost something
  meddling    \* what other programs did so far

history == <<changed, swapped, short>>
csvVars == <<mode, file, temporary, contents, pc, history, meddling>>

Absent == [header |-> "none", runs |-> <<>>, whole |-> TRUE]
Csv(header, runs, whole) == [header |-> header, runs |-> runs, whole |-> whole]
Exists == file # Absent
Runs(f) == {f.runs[k] : k \in DOMAIN f.runs}
Running(p) == pc[p] \notin {"idle", "succeeded", "failed", "crashed"}

Init ==
  /\ mode \in [Processes -> {"append", "overwrite"}]
  /\ file \in {Absent, Csv("ours", <<>>, TRUE), Csv("foreign", <<>>, TRUE)}
  /\ temporary = [p \in Processes |-> Absent] /\ contents = temporary
  /\ pc = [p \in Processes |-> "idle"]
  /\ changed = [p \in Processes |-> {}] /\ swapped = [p \in Processes |-> FALSE]
  /\ short = {} /\ meddling = 0

Goto(p, step) == pc' = [pc EXCEPT ![p] = step]

Start(p) ==
  /\ pc[p] = "idle" /\ Goto(p, "validate")
  /\ UNCHANGED <<mode, file, temporary, contents, history, meddling>>

(* Faulty: any regular file will do.                                       *)
ExistingIsRegular(p) == TRUE

(* check_existing_file.                                                    *)
ExistingIsUsable(p) == Exists /\ mode[p] = "append" => file.header = "ours"

(* validate_csv_destination, before the images are even looked for.        *)
Validate(p) ==
  /\ pc[p] = "validate"
  /\ Goto(p, IF ExistingIsUsable(p) THEN "measure" ELSE "failed")
  /\ UNCHANGED <<mode, file, temporary, contents, history, meddling>>

(* The experiments; a run without records returns without writing.         *)
Measure(p) ==
  /\ pc[p] = "measure" /\ (Goto(p, "revalidate") \/ Goto(p, "failed"))
  /\ UNCHANGED <<mode, file, temporary, contents, history, meddling>>

-----------------------------------------------------------------------------
(* write_benchmark_records.                                                *)

Revalidate(p) ==
  /\ pc[p] = "revalidate"
  /\ Goto(p, IF ExistingIsUsable(p) THEN "inspect" ELSE "failed")
  /\ swapped' = [swapped EXCEPT ![p] = FALSE]
  /\ UNCHANGED <<mode, file, temporary, contents, changed, short, meddling>>

Inspect(p) ==
  /\ pc[p] = "inspect"
  /\ IF Exists /\ mode[p] = "append"
       THEN Goto(p, "read") /\ UNCHANGED <<contents, changed>>
       ELSE /\ contents' = [contents EXCEPT ![p] = Csv("ours", <<p>>, TRUE)]
            /\ changed' = [changed EXCEPT ![p] = {}] /\ Goto(p, "create")
  /\ UNCHANGED <<mode, file, temporary, swapped, short, meddling>>

(* Faulty: the old rows are not written back.                              *)
NewRows(p, old) == <<p>>

OldAndNewRows(p, old) == Append(old.runs, p)

(* What can be left of a file of which only a beginning is read: not even  *)
(* its header; its header; the first of its runs, the last of which may    *)
(* have lost rows; or these and a part of the next one's id.  Which of the *)
(* runs were torn before is not told apart.                                *)
Cut(f) ==
  LET Beginning(n) == SubSeq(f.runs, 1, n)
  IN  {Csv("foreign", <<>>, TRUE), Csv(f.header, <<>>, TRUE)}
      \cup {Csv(f.header, Beginning(n), whole) : n \in 1 .. Len(f.runs), whole \in BOOLEAN}
      \cup {Csv(f.header, Append(Beginning(n), "garbled"), FALSE) :
              n \in 0 .. Len(f.runs) - 1}

(* read_existing.  An error while reading ends the copy early, and         *)
(* stream's state, which is looked at then, knows nothing of it: the part  *)
(* that was read passes for the file.                                      *)
Read(p) ==
  /\ pc[p] = "read"
  /\ IF Exists
       THEN /\ \E part \in {file} \cup Cut(file) :
                 /\ contents' = [contents EXCEPT ![p] =
                      Csv(part.header, OldAndNewRows(p, part), part.whole)]
                 /\ short' = IF part = file THEN short ELSE short \cup {p}
            /\ changed' = [changed EXCEPT ![p] = {}] /\ Goto(p, "create")
       ELSE Goto(p, "failed") /\ UNCHANGED <<contents, changed, short>>
  /\ UNCHANGED <<mode, file, temporary, swapped, meddling>>

CreateTemporary(p) ==
  /\ pc[p] = "create"
  /\ temporary' = [temporary EXCEPT ![p] = Csv("none", <<>>, FALSE)] /\ Goto(p, "write")
  /\ UNCHANGED <<mode, file, contents, history, meddling>>

Discard(p) == [temporary EXCEPT ![p] = Absent]

(* Faulty: the state of the stream is not looked at.                       *)
Unchecked(written) == TRUE

Flushed(written) == written

WriteTemporary(p) ==
  /\ pc[p] = "write"
  /\ \E written \in BOOLEAN :
       IF Flushed(written)
         THEN /\ temporary' = [temporary EXCEPT ![p] = [contents[p] EXCEPT !.whole = @ /\ written]]
              /\ Goto(p, "move")
         ELSE temporary' = Discard(p) /\ Goto(p, "failed")
  /\ UNCHANGED <<mode, file, contents, history, meddling>>

Replace(by, new) ==
  /\ file' = new
  /\ changed' = [p \in Processes |-> changed[p] \cup {by}]
  /\ swapped' = [p \in Processes |-> swapped[p] \/ new.header = "foreign"]

(* move_into_place replaces the file on every system.                      *)
Move(p) ==
  /\ pc[p] = "move"
  /\ Replace(p, temporary[p]) /\ temporary' = Discard(p) /\ Goto(p, "succeeded")
  /\ UNCHANGED <<mode, contents, short, meddling>>

(* A call of the file system fails; the file stays as it is.  A file that  *)
(* cannot be opened to be read is such a failure, an error in the middle   *)
(* of its reading is not.                                                  *)
DiskFails(p) ==
  /\ pc[p] \in {"validate", "revalidate", "inspect", "read", "create", "move"}
  /\ temporary' = Discard(p) /\ Goto(p, "failed")
  /\ UNCHANGED <<mode, file, contents, history, meddling>>

Crash(p) ==
  /\ Running(p) /\ Goto(p, "crashed")
  /\ UNCHANGED <<mode, file, temporary, contents, history, meddling>>

Meddle ==
  /\ meddling < MaxMeddling /\ meddling' = meddling + 1
  /\ (Replace("other", Csv("foreign", <<>>, TRUE)) \/ Replace("other", Absent))
  /\ UNCHANGED <<mode, temporary, contents, pc, short>>

Work(p) ==
  \/ Validate(p) \/ Measure(p) \/ Revalidate(p) \/ Inspect(p) \/ Read(p)
  \/ CreateTemporary(p) \/ WriteTemporary(p) \/ Move(p) \/ DiskFails(p)

Next == (\E p \in Processes : Start(p) \/ Work(p) \/ Crash(p)) \/ Meddle
Spec == Init /\ [][Next]_csvVars

-----------------------------------------------------------------------------
(* Properties.                                                             *)

(* Whoever crashes or fails wherever: no row of the result CSV is torn or  *)
(* missing unless a run whose reading ended early has put its rows there,  *)
(* and no run has its rows in it twice.                                    *)
FileWhole ==
  /\ file.whole \/ \E p \in short : p \in Runs(file)
  /\ \A j, k \in DOMAIN file.runs :
       file.runs[j] = file.runs[k] /\ file.runs[j] \in Processes => j = k

Loses(old, new) == ~(Runs(old) \subseteq Runs(new)) \/ (old.whole /\ ~new.whole)

(* Rows disappear only when a run overwrites, or when a run appends to     *)
(* what it read before somebody else replaced the file, or when its        *)
(* reading ended early.                                                    *)
RowsKept ==
  [][\A p \in Processes :
       pc[p] = "move" /\ pc'[p] = "succeeded" /\ Loses(file, file') =>
         mode[p] = "overwrite" \/ changed[p] # {} \/ p \in short]_csvVars

(* An append keeps every row unless somebody else replaced the file        *)
(* meanwhile: a file that cannot be read completely fails the append.      *)
AppendKeepsRows ==
  [][\A p \in Processes :
       pc[p] = "move" /\ pc'[p] = "succeeded" /\ mode[p] = "append" /\ changed[p] = {} =>
         ~Loses(file, file')]_csvVars

(* No run puts its rows under a header that is not the schema's, unless a  *)
(* file with such a header took the place of the one the run last checked, *)
(* or its reading ended within the header.                                 *)
RowsUnderOwnHeader ==
  [][\A p \in Processes :
       pc[p] = "move" /\ pc'[p] = "succeeded" /\ ~swapped[p] /\ p \notin short =>
         file'.header = "ours"]_csvVars
==============================================================================
