------------------------------ MODULE PngOutput ------------------------------
(***************************************************************************)
(* Calls of write_png for one destination, by writers that do not know of  *)
(* each other, with the output directory they prepare first.  A writer may *)
(* crash anywhere, the disk may fail anywhere, and other programs may put  *)
(* a file or a folder at the destination or remove the file there.  A file *)
(* is who wrote it and whether all of it is there.                         *)
(***************************************************************************)
EXTENDS Naturals

CONSTANTS
  Writers,     \* the calls
  MaxMeddling  \* bound: what other programs do to the destination

ASSUME WritersAssumption == Writers \cap {"none", "other"} = {}

VARIABLES
  windows,    \* MoveFileExW rather than rename
  mode,       \* WriteMode of each call
  directory,  \* the parent of the destination: "absent", "directory" or "file"
  target,     \* the destination
  temporary,  \* each writer's temporary file
  probe,      \* whether each writer's probe exists
  pc,         \* where each writer is
  appeared,   \* history: a file was put at the destination after the writer's recheck
  meddling    \* what other programs did so far

setup == <<windows, mode>>
files == <<directory, target, temporary, probe>>
vars == <<setup, files, pc, appeared, meddling>>

Nothing == [kind |-> "none", by |-> "none", whole |-> TRUE]
Folder == [kind |-> "folder", by |-> "other", whole |-> TRUE]
File(w, whole) == [kind |-> "file", by |-> w, whole |-> whole]
Running(w) == pc[w] \notin {"succeeded", "failed", "probe left", "crashed"}

Init ==
  /\ windows \in BOOLEAN /\ mode \in [Writers -> {"FailIfExists", "ReplaceExisting"}]
  /\ directory \in {"absent", "directory", "file"}
  /\ target \in IF directory = "directory" THEN {Nothing, Folder, File("other", TRUE)}
                                           ELSE {Nothing}
  /\ temporary = [w \in Writers |-> Nothing] /\ probe = [w \in Writers |-> FALSE]
  /\ pc = [w \in Writers |-> "inspect"] /\ appeared = [w \in Writers |-> FALSE]
  /\ meddling = 0

Goto(w, step) == pc' = [pc EXCEPT ![w] = step]

-----------------------------------------------------------------------------
(* prepare_output_directory.                                               *)

(* An error at any of the calls of the file system.                        *)
DiskFails(w) ==
  /\ pc[w] \in {"inspect", "make", "probe", "look", "create"}
  /\ Goto(w, "failed")
  /\ UNCHANGED <<setup, files, appeared, meddling>>

InspectDirectory(w) ==
  /\ pc[w] = "inspect"
  /\ Goto(w, CASE directory = "absent" -> "make" [] directory = "directory" -> "probe"
               [] directory = "file" -> "failed")
  /\ UNCHANGED <<setup, files, appeared, meddling>>

(* create_directories is content with a directory someone else just made.  *)
MakeDirectory(w) ==
  /\ pc[w] = "make"
  /\ directory' = "directory" /\ Goto(w, "probe")
  /\ UNCHANGED <<setup, target, temporary, probe, appeared, meddling>>

CreateProbe(w) ==
  /\ pc[w] = "probe"
  /\ probe' = [probe EXCEPT ![w] = TRUE] /\ Goto(w, "unprobe")
  /\ UNCHANGED <<setup, directory, target, temporary, appeared, meddling>>

(* The probe is removed, whether or not it could be written; a call that   *)
(* cannot remove it returns OutputProbeCleanupFailed.                      *)
RemoveProbe(w) ==
  /\ pc[w] = "unprobe"
  /\ \/ probe' = [probe EXCEPT ![w] = FALSE] /\ (Goto(w, "look") \/ Goto(w, "failed"))
     \/ Goto(w, "probe left") /\ UNCHANGED probe
  /\ UNCHANGED <<setup, directory, target, temporary, appeared, meddling>>

-----------------------------------------------------------------------------
(* write_png.                                                              *)

InspectTarget(w) ==
  /\ pc[w] = "look"
  /\ Goto(w, IF target.kind = "none" \/ (target.kind = "file" /\ mode[w] = "ReplaceExisting")
               THEN "create" ELSE "failed")
  /\ UNCHANGED <<setup, files, appeared, meddling>>

(* The image is encoded in memory before the temporary file is opened.     *)
CreateTemporary(w) ==
  /\ pc[w] = "create"
  /\ temporary' = [temporary EXCEPT ![w] = File(w, FALSE)] /\ Goto(w, "write")
  /\ UNCHANGED <<setup, directory, target, probe, appeared, meddling>>

(* Faulty: the private file is not removed.                                *)
Keep(w) == temporary

(* remove_private_file.                                                    *)
Discard(w) == [temporary EXCEPT ![w] = Nothing]

(* Faulty: the state of the stream is not looked at.                       *)
Unchecked(written) == TRUE

Flushed(written) == written

WriteTemporary(w) ==
  /\ pc[w] = "write"
  /\ \E written \in BOOLEAN :
       IF Flushed(written)
         THEN temporary' = [temporary EXCEPT ![w] = File(w, written)] /\ Goto(w, "recheck")
         ELSE temporary' = Discard(w) /\ Goto(w, "failed")
  /\ UNCHANGED <<setup, directory, target, probe, appeared, meddling>>

(* Faulty: what was found before the encoding still counts.                *)
Unblocked(w) == FALSE

Blocked(w) == target.kind = "folder" \/ (target.kind = "file" /\ mode[w] = "FailIfExists")

Recheck(w) ==
  /\ pc[w] = "recheck"
  /\ IF Blocked(w)
       THEN temporary' = Discard(w) /\ Goto(w, "failed") /\ UNCHANGED appeared
       ELSE /\ Goto(w, "move") /\ appeared' = [appeared EXCEPT ![w] = FALSE]
            /\ UNCHANGED temporary
  /\ UNCHANGED <<setup, directory, target, probe, meddling>>

Put(content) ==
  /\ target' = content
  /\ appeared' = [w \in Writers |-> appeared[w] \/ content # Nothing]

(* move_into_place: neither system moves a file over a folder, and only    *)
(* rename does not know of the mode.                                       *)
CanMove(w) ==
  \/ target.kind = "none"
  \/ target.kind = "file" /\ (windows => mode[w] = "ReplaceExisting")

Move(w) ==
  /\ pc[w] = "move" /\ CanMove(w)
  /\ Put(temporary[w]) /\ temporary' = [temporary EXCEPT ![w] = Nothing]
  /\ Goto(w, "succeeded")
  /\ UNCHANGED <<setup, directory, probe, meddling>>

(* The inspection of the recheck or the move fails.                        *)
GiveUp(w) ==
  /\ pc[w] \in {"recheck", "move"}
  /\ temporary' = Discard(w) /\ Goto(w, "failed")
  /\ UNCHANGED <<setup, directory, target, probe, appeared, meddling>>

Crash(w) ==
  /\ Running(w) /\ Goto(w, "crashed")
  /\ UNCHANGED <<setup, files, appeared, meddling>>

Meddle ==
  /\ meddling < MaxMeddling /\ meddling' = meddling + 1
  /\ directory = "directory"
  /\ \/ target.kind = "none" /\ (Put(File("other", TRUE)) \/ Put(Folder))
     \/ target.kind = "file" /\ Put(Nothing)
  /\ UNCHANGED <<setup, directory, temporary, probe, pc>>

Prepare(w) ==
  InspectDirectory(w) \/ MakeDirectory(w) \/ CreateProbe(w) \/ RemoveProbe(w)
Write(w) ==
  \/ InspectTarget(w) \/ CreateTemporary(w) \/ WriteTemporary(w) \/ Recheck(w)
  \/ Move(w) \/ GiveUp(w) \/ DiskFails(w)

Next == (\E w \in Writers : Prepare(w) \/ Write(w) \/ Crash(w)) \/ Meddle
Spec == Init /\ [][Next]_vars

-----------------------------------------------------------------------------
(* Properties.                                                             *)

(* Whoever crashes or fails wherever, the destination never holds a part   *)
(* of an image.                                                            *)
TargetWhole == target.whole

(* A writer that may not replace what exists replaces a file only if it    *)
(* appeared after the writer's recheck and the move cannot refuse it, as   *)
(* on POSIX; a folder is never replaced by a writer.                       *)
ReplacesAsAllowed ==
  [][\A w \in Writers :
       pc[w] = "move" /\ pc'[w] = "succeeded" =>
         /\ target.kind # "folder"
         /\ mode[w] = "FailIfExists" /\ target.kind = "file" => ~windows /\ appeared[w]]_vars

(* A call that returns leaves no private file behind, except the probe it  *)
(* reports it could not remove, and one that fails has not written the     *)
(* destination.                                                            *)
ReturnsCleanly ==
  \A w \in Writers :
    /\ ~Running(w) /\ pc[w] # "crashed" =>
         temporary[w] = Nothing /\ (probe[w] => pc[w] = "probe left")
    /\ pc[w] = "failed" => target.by # w
==============================================================================
