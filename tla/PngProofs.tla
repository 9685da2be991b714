------------------------------ MODULE PngProofs ------------------------------
(***************************************************************************)
(* The destination of write_png holds whole images only, is replaced only  *)
(* by those who may, and calls clean up behind them, for any number of     *)
(* writers, with crashes and failures of the disk anywhere.                *)
(***************************************************************************)
EXTENDS PngOutput, TLAPS

Steps == {"inspect", "make", "probe", "unprobe", "look", "create", "write", "recheck",
          "move", "succeeded", "failed", "probe left", "crashed"}
Object == [kind : {"none", "folder", "file"}, by : Writers \cup {"none", "other"},
           whole : BOOLEAN]

TypeInv ==
  /\ windows \in BOOLEAN /\ mode \in [Writers -> {"FailIfExists", "ReplaceExisting"}]
  /\ directory \in {"absent", "directory", "file"}
  /\ target \in Object /\ temporary \in [Writers -> Object]
  /\ probe \in [Writers -> BOOLEAN] /\ appeared \in [Writers -> BOOLEAN]
  /\ pc \in [Writers -> Steps]

(* What exists at a step of a writer, and what it may have written.        *)
WriterInv(w) ==
  /\ temporary[w] = Nothing \/ pc[w] \in {"write", "recheck", "move", "crashed"}
  /\ pc[w] \in {"recheck", "move"} => temporary[w] = File(w, TRUE)
  /\ probe[w] => pc[w] \in {"unprobe", "probe left", "crashed"}
  /\ target.by = w => pc[w] = "succeeded"

(* What a writer that may not replace finds at its move appeared meanwhile. *)
AppearedInv(w) ==
  pc[w] = "move" /\ mode[w] = "FailIfExists" /\ target.kind # "none" => appeared[w]

PngInv == /\ TypeInv /\ target.whole
          /\ \A w \in Writers : WriterInv(w) /\ AppearedInv(w)

-----------------------------------------------------------------------------
(* The invariant is inductive.                                             *)

(* The files of the model.                                                 *)
LEMMA Objects ==
  /\ Nothing \in Object /\ Folder \in Object
  /\ \A w \in Writers \cup {"other"}, b \in BOOLEAN : File(w, b) \in Object
  /\ Nothing.by = "none" /\ Folder.by = "other" /\ Nothing.whole /\ Folder.whole
  /\ Nothing.kind = "none"
  /\ \A w, b : File(w, b).by = w /\ File(w, b).whole = b /\ File(w, b).kind = "file"
BY DEF Nothing, Folder, File, Object

LEMMA PngInvInit == Init => PngInv
<1> SUFFICES ASSUME Init PROVE PngInv
  OBVIOUS
<1>1. target \in {Nothing, Folder, File("other", TRUE)}
  BY DEF Init
<1>2. target \in Object /\ target.whole /\ target.by \in {"none", "other"}
  BY <1>1, Objects
<1>3. TypeInv
  BY <1>2, Objects DEF Init, TypeInv, Steps
<1>4. \A w \in Writers : WriterInv(w) /\ AppearedInv(w)
  BY <1>2, WritersAssumption DEF Init, WriterInv, AppearedInv
<1>5. QED
  BY <1>2, <1>3, <1>4 DEF PngInv

(* A step of one writer that leaves the destination alone.                 *)
LEMMA QuietStep ==
  ASSUME PngInv, TypeInv', NEW w \in Writers, UNCHANGED <<mode, target>>,
         \A v \in Writers : v # w => UNCHANGED <<pc[v], temporary[v], probe[v], appeared[v]>>,
         pc[w] # "succeeded", WriterInv(w)', AppearedInv(w)'
  PROVE  PngInv'
<1>1. ASSUME NEW v \in Writers, v # w
      PROVE  WriterInv(v)' /\ AppearedInv(v)'
  <2>1. /\ pc'[v] = pc[v] /\ temporary'[v] = temporary[v]
        /\ probe'[v] = probe[v] /\ appeared'[v] = appeared[v]
    BY <1>1
  <2>2. WriterInv(v) /\ AppearedInv(v)
    BY DEF PngInv
  <2>3. QED
    BY <2>1, <2>2 DEF WriterInv, AppearedInv, Nothing, File
<1>2. QED
  BY <1>1 DEF PngInv

(* Something else, by `writer`, is put at the destination, or it is        *)
(* removed.                                                                *)
LEMMA PuttingStep ==
  ASSUME PngInv, TypeInv', NEW new \in Object, Put(new), new.whole,
         UNCHANGED <<windows, mode, probe>>,
         new.kind = "none" => new = Nothing,
         \A v \in Writers :
           \/ pc'[v] = pc[v] /\ temporary'[v] = temporary[v] /\ new.by # v
           \/ pc[v] = "move" /\ pc'[v] = "succeeded" /\ temporary'[v] = Nothing
  PROVE  PngInv'
<1>1. target' = new /\ target'.whole
  BY DEF Put
<1>2. ASSUME NEW v \in Writers
      PROVE  WriterInv(v)' /\ AppearedInv(v)'
  <2>1. new.kind # "none" => appeared'[v]
    <3>1. new.kind # "none" => new # Nothing
      BY Objects
    <3>2. appeared'[v] = (appeared[v] \/ new # Nothing)
      BY DEF Put
    <3>3. QED
      BY <3>1, <3>2
  <2>2. WriterInv(v)
    BY DEF PngInv
  <2>3. CASE pc'[v] = pc[v] /\ temporary'[v] = temporary[v] /\ new.by # v
    BY <1>1, <2>1, <2>2, <2>3 DEF WriterInv, AppearedInv, Nothing, File
  <2>4. CASE pc[v] = "move" /\ pc'[v] = "succeeded" /\ temporary'[v] = Nothing
    BY <1>1, <2>2, <2>4 DEF WriterInv, AppearedInv, Nothing
  <2>5. QED
    BY <2>3, <2>4
<1>3. QED
  BY <1>1, <1>2 DEF PngInv

LEMMA TypeStep ==
  ASSUME PngInv, [Next]_vars
  PROVE  TypeInv'
<1> USE DEF PngInv, TypeInv, Goto, setup, files, Steps
<1>1. ASSUME NEW w \in Writers,
             InspectDirectory(w) \/ MakeDirectory(w) \/ DiskFails(w) \/ InspectTarget(w) \/ Crash(w)
      PROVE  TypeInv'
  BY <1>1 DEF InspectDirectory, MakeDirectory, DiskFails, InspectTarget, Crash
<1>2. ASSUME NEW w \in Writers, CreateProbe(w) \/ RemoveProbe(w)
      PROVE  TypeInv'
  BY <1>2 DEF CreateProbe, RemoveProbe
<1>3. ASSUME NEW w \in Writers, CreateTemporary(w)
      PROVE  TypeInv'
  BY <1>3, Objects DEF CreateTemporary
<1>4. ASSUME NEW w \in Writers, WriteTemporary(w)
      PROVE  TypeInv'
  <2>1. PICK written \in BOOLEAN :
          \/ temporary' = [temporary EXCEPT ![w] = File(w, written)] /\ Goto(w, "recheck")
          \/ temporary' = [temporary EXCEPT ![w] = Nothing] /\ Goto(w, "failed")
    BY <1>4 DEF WriteTemporary, Discard
  <2>2. File(w, written) \in Object /\ Nothing \in Object
    BY Objects
  <2>3. temporary' \in [Writers -> Object]
    BY <2>1, <2>2
  <2>4. pc' \in [Writers -> Steps]
    BY <2>1
  <2>5. QED
    BY <1>4, <2>3, <2>4 DEF WriteTemporary
<1>5. ASSUME NEW w \in Writers, Recheck(w)
      PROVE  TypeInv'
  BY <1>5, Objects DEF Recheck, Discard
<1>6. ASSUME NEW w \in Writers, Move(w)
      PROVE  TypeInv'
  <2>1. target' = temporary[w] /\ appeared' \in [Writers -> BOOLEAN]
    BY <1>6 DEF Move, Put
  <2>2. QED
    BY <1>6, <2>1, Objects DEF Move
<1>7. ASSUME NEW w \in Writers, GiveUp(w)
      PROVE  TypeInv'
  BY <1>7, Objects DEF GiveUp, Discard
<1>8. ASSUME Meddle
      PROVE  TypeInv'
  <2>1. PICK new \in {File("other", TRUE), Folder, Nothing} : Put(new)
    BY <1>8 DEF Meddle
  <2>2. target' \in Object /\ appeared' \in [Writers -> BOOLEAN]
    <3>1. File("other", TRUE) \in Object
      BY Objects
    <3>2. new \in Object
      BY <2>1, <3>1, Objects
    <3>3. QED
      BY <2>1, <3>2 DEF Put
  <2>3. QED
    BY <1>8, <2>2 DEF Meddle
<1>9. CASE UNCHANGED vars
  BY <1>9 DEF vars
<1>10. QED
  BY <1>1, <1>2, <1>3, <1>4, <1>5, <1>6, <1>7, <1>8, <1>9 DEF Next, Prepare, Write

LEMMA PngInvNext ==
  ASSUME PngInv, [Next]_vars
  PROVE  PngInv'
<1>1. TypeInv'
  BY TypeStep
<1>2. /\ pc \in [Writers -> Steps] /\ temporary \in [Writers -> Object]
      /\ probe \in [Writers -> BOOLEAN] /\ appeared \in [Writers -> BOOLEAN]
      /\ \A w \in Writers : WriterInv(w) /\ AppearedInv(w)
  BY DEF PngInv, TypeInv
<1>3. ASSUME NEW w \in Writers, InspectDirectory(w) \/ MakeDirectory(w) \/ InspectTarget(w)
                               \/ DiskFails(w) \/ Crash(w)
     PROVE  PngInv'
  <2>1. /\ UNCHANGED <<mode, target>> /\ pc[w] # "succeeded"
        /\ UNCHANGED <<temporary, probe, appeared>>
        /\ \/ pc' = [pc EXCEPT ![w] = "crashed"]
           \/ /\ pc[w] \in {"inspect", "make", "probe", "look", "create"}
              /\ \E s \in {"make", "probe", "create", "failed"} : pc' = [pc EXCEPT ![w] = s]
    <3>1. CASE InspectDirectory(w)
      <4>1. directory \in {"absent", "directory", "file"}
        BY DEF PngInv, TypeInv
      <4>2. QED
        BY <3>1, <4>1 DEF InspectDirectory, Goto, setup, files
    <3>2. CASE MakeDirectory(w) \/ InspectTarget(w) \/ DiskFails(w)
      BY <3>2 DEF MakeDirectory, InspectTarget, DiskFails, Goto, setup, files
    <3>3. CASE Crash(w)
      BY <3>3 DEF Crash, Running, Goto, setup, files
    <3>4. QED
      BY <1>3, <3>1, <3>2, <3>3
  <2>2. \A v \in Writers : v # w => UNCHANGED <<pc[v], temporary[v], probe[v], appeared[v]>>
    BY <1>2, <2>1
  <2>3. WriterInv(w)' /\ AppearedInv(w)'
    BY <1>2, <2>1 DEF WriterInv, AppearedInv, Nothing, File
  <2>4. QED
    BY <1>1, <2>1, <2>2, <2>3, QuietStep
<1>4. ASSUME NEW w \in Writers, CreateProbe(w)
     PROVE  PngInv'
  <2>1. /\ UNCHANGED <<mode, target>> /\ pc[w] # "succeeded"
        /\ UNCHANGED <<temporary, appeared>> /\ probe' = [probe EXCEPT ![w] = TRUE]
        /\ pc[w] = "probe" /\ pc' = [pc EXCEPT ![w] = "unprobe"]
    BY <1>4 DEF CreateProbe, Goto, setup
  <2>2. \A v \in Writers : v # w => UNCHANGED <<pc[v], temporary[v], probe[v], appeared[v]>>
    BY <1>2, <2>1
  <2>3. WriterInv(w)' /\ AppearedInv(w)'
    BY <1>2, <2>1 DEF WriterInv, AppearedInv, Nothing, File
  <2>4. QED
    BY <1>1, <2>1, <2>2, <2>3, QuietStep
<1>5. ASSUME NEW w \in Writers, RemoveProbe(w)
     PROVE  PngInv'
  <2>1. /\ UNCHANGED <<mode, target>> /\ pc[w] # "succeeded"
        /\ UNCHANGED <<temporary, appeared>> /\ pc[w] = "unprobe"
        /\ \/ /\ probe' = [probe EXCEPT ![w] = FALSE]
              /\ \E s \in {"look", "failed"} : pc' = [pc EXCEPT ![w] = s]
           \/ probe' = probe /\ pc' = [pc EXCEPT ![w] = "probe left"]
    BY <1>5 DEF RemoveProbe, Goto, setup
  <2>2. \A v \in Writers : v # w => UNCHANGED <<pc[v], temporary[v], probe[v], appeared[v]>>
    BY <1>2, <2>1
  <2>3. WriterInv(w)' /\ AppearedInv(w)'
    BY <1>2, <2>1 DEF WriterInv, AppearedInv, Nothing, File
  <2>4. QED
    BY <1>1, <2>1, <2>2, <2>3, QuietStep
<1>6. ASSUME NEW w \in Writers, CreateTemporary(w)
     PROVE  PngInv'
  <2>1. /\ UNCHANGED <<mode, target>> /\ pc[w] # "succeeded"
        /\ UNCHANGED <<probe, appeared>> /\ pc[w] = "create"
        /\ temporary' = [temporary EXCEPT ![w] = File(w, FALSE)]
        /\ pc' = [pc EXCEPT ![w] = "write"]
    BY <1>6 DEF CreateTemporary, Goto, setup
  <2>2. \A v \in Writers : v # w => UNCHANGED <<pc[v], temporary[v], probe[v], appeared[v]>>
    BY <1>2, <2>1
  <2>3. WriterInv(w)' /\ AppearedInv(w)'
    BY <1>2, <2>1 DEF WriterInv, AppearedInv, Nothing, File
  <2>4. QED
    BY <1>1, <2>1, <2>2, <2>3, QuietStep
<1>7. ASSUME NEW w \in Writers, WriteTemporary(w)
     PROVE  PngInv'
  <2>1. /\ UNCHANGED <<mode, target>> /\ pc[w] # "succeeded"
        /\ UNCHANGED <<probe, appeared>> /\ pc[w] = "write"
        /\ \/ /\ temporary' = [temporary EXCEPT ![w] = File(w, TRUE)]
              /\ pc' = [pc EXCEPT ![w] = "recheck"]
           \/ /\ temporary' = [temporary EXCEPT ![w] = Nothing]
              /\ pc' = [pc EXCEPT ![w] = "failed"]
    BY <1>7 DEF WriteTemporary, Flushed, Discard, Goto, setup
  <2>2. \A v \in Writers : v # w => UNCHANGED <<pc[v], temporary[v], probe[v], appeared[v]>>
    BY <1>2, <2>1
  <2>3. WriterInv(w)' /\ AppearedInv(w)'
    BY <1>2, <2>1 DEF WriterInv, AppearedInv, Nothing, File
  <2>4. QED
    BY <1>1, <2>1, <2>2, <2>3, QuietStep
<1>8. ASSUME NEW w \in Writers, Recheck(w)
     PROVE  PngInv'
  <2>1. /\ UNCHANGED <<mode, target>> /\ pc[w] # "succeeded"
        /\ probe' = probe /\ pc[w] = "recheck"
        /\ \/ /\ temporary' = [temporary EXCEPT ![w] = Nothing]
              /\ pc' = [pc EXCEPT ![w] = "failed"] /\ appeared' = appeared
           \/ /\ ~Blocked(w) /\ pc' = [pc EXCEPT ![w] = "move"]
              /\ temporary' = temporary /\ appeared' = [appeared EXCEPT ![w] = FALSE]
    BY <1>8 DEF Recheck, Discard, Goto, setup
  <2>2. \A v \in Writers : v # w => UNCHANGED <<pc[v], temporary[v], probe[v], appeared[v]>>
    BY <1>2, <2>1
  <2>3. WriterInv(w)' /\ AppearedInv(w)'
    <3>1. target.kind \in {"none", "folder", "file"}
      BY DEF PngInv, TypeInv, Object
    <3>2. QED
      BY <1>2, <2>1, <3>1 DEF WriterInv, AppearedInv, Nothing, File, Blocked
  <2>4. QED
    BY <1>1, <2>1, <2>2, <2>3, QuietStep
<1>9. ASSUME NEW w \in Writers, GiveUp(w)
     PROVE  PngInv'
  <2>1. /\ UNCHANGED <<mode, target>> /\ pc[w] # "succeeded"
        /\ UNCHANGED <<probe, appeared>> /\ pc[w] \in {"recheck", "move"}
        /\ temporary' = [temporary EXCEPT ![w] = Nothing]
        /\ pc' = [pc EXCEPT ![w] = "failed"]
    BY <1>9 DEF GiveUp, Discard, Goto, setup
  <2>2. \A v \in Writers : v # w => UNCHANGED <<pc[v], temporary[v], probe[v], appeared[v]>>
    BY <1>2, <2>1
  <2>3. WriterInv(w)' /\ AppearedInv(w)'
    BY <1>2, <2>1 DEF WriterInv, AppearedInv, Nothing, File
  <2>4. QED
    BY <1>1, <2>1, <2>2, <2>3, QuietStep
<1>10. ASSUME NEW w \in Writers, Move(w)
       PROVE  PngInv'
  <2>1. /\ pc[w] = "move" /\ Put(temporary[w]) /\ UNCHANGED <<windows, mode, probe>>
        /\ temporary' = [temporary EXCEPT ![w] = Nothing]
        /\ pc' = [pc EXCEPT ![w] = "succeeded"]
    BY <1>10 DEF Move, Goto, setup
  <2>2. temporary[w] = File(w, TRUE)
    BY <1>2, <2>1 DEF WriterInv
  <2>3. /\ temporary[w] \in Object /\ temporary[w].whole
        /\ temporary[w].kind # "none" /\ temporary[w].by = w
    <3>1. File(w, TRUE) \in Object /\ File(w, TRUE).whole
          /\ File(w, TRUE).kind = "file" /\ File(w, TRUE).by = w
      BY Objects
    <3>2. QED
      BY <2>2, <3>1
  <2>4. ASSUME NEW v \in Writers
        PROVE  \/ pc'[v] = pc[v] /\ temporary'[v] = temporary[v] /\ temporary[w].by # v
               \/ pc[v] = "move" /\ pc'[v] = "succeeded" /\ temporary'[v] = Nothing
    BY <1>2, <2>1, <2>3
  <2>5. QED
    BY <1>1, <2>1, <2>3, <2>4, PuttingStep
<1>11. ASSUME Meddle
       PROVE  PngInv'
  <2>1. PICK new \in {File("other", TRUE), Folder, Nothing} : Put(new)
    BY <1>11 DEF Meddle
  <2>2. UNCHANGED <<windows, mode, temporary, probe, pc>>
    BY <1>11 DEF Meddle, setup
  <2>3. new \in Object /\ new.whole /\ new.by \in {"none", "other"}
        /\ (new.kind = "none" => new = Nothing)
    <3>1. /\ File("other", TRUE) \in Object /\ File("other", TRUE).whole
          /\ File("other", TRUE).by = "other" /\ File("other", TRUE).kind = "file"
      BY Objects
    <3>2. Folder.kind = "folder"
      BY DEF Folder
    <3>3. QED
      BY <2>1, <3>1, <3>2, Objects
  <2>4. \A v \in Writers : new.by # v
    BY <2>3, WritersAssumption
  <2>5. QED
    BY <1>1, <2>1, <2>2, <2>3, <2>4, PuttingStep
<1>12. CASE UNCHANGED vars
  BY <1>12 DEF vars, setup, files, PngInv, TypeInv, WriterInv, AppearedInv, Nothing, File, Object
<1>13. QED
  BY <1>3, <1>4, <1>5, <1>6, <1>7, <1>8, <1>9, <1>10, <1>11, <1>12 DEF Next, Prepare, Write

LEMMA PngInvHolds == Spec => []PngInv
<1>1. PngInv /\ [Next]_vars => PngInv'
  BY PngInvNext
<1>2. QED
  BY PngInvInit, <1>1, PTL DEF Spec

-----------------------------------------------------------------------------
(* Theorems.                                                               *)

(* The destination never holds a part of an image.                         *)
THEOREM TargetIsWhole == Spec => []TargetWhole
<1>1. PngInv => TargetWhole
  BY DEF PngInv, TargetWhole
<1>2. QED
  BY PngInvHolds, <1>1, PTL

(* A call that returns leaves nothing behind but the probe it reports, and *)
(* a call that fails has not written the destination.                      *)
THEOREM CallsReturnCleanly == Spec => []ReturnsCleanly
<1>1. PngInv => ReturnsCleanly
  BY DEF PngInv, WriterInv, ReturnsCleanly, Running
<1>2. QED
  BY PngInvHolds, <1>1, PTL

(* Nobody replaces a folder, and a file is replaced only by who may, or    *)
(* where the move cannot refuse one that appeared after the recheck.       *)
THEOREM WritersReplaceAsAllowed == Spec => ReplacesAsAllowed
<1>1. ASSUME PngInv, [Next]_vars, NEW w \in Writers, pc[w] = "move", pc'[w] = "succeeded"
      PROVE  /\ target.kind # "folder"
             /\ mode[w] = "FailIfExists" /\ target.kind = "file" => ~windows /\ appeared[w]
  <2>1. ASSUME NEW v \in Writers, Prepare(v) \/ Write(v) \/ Crash(v), ~Move(w)
        PROVE  pc'[w] # "succeeded"
    BY <1>1, <2>1 DEF PngInv, TypeInv, Prepare, Write, Crash, InspectDirectory, MakeDirectory,
         CreateProbe, RemoveProbe, InspectTarget, CreateTemporary, WriteTemporary, Recheck, Move,
         GiveUp, DiskFails, Goto
  <2>2. Meddle \/ UNCHANGED vars => pc' = pc
    BY DEF Meddle, vars
  <2>3. Move(w)
    BY <1>1, <2>1, <2>2 DEF Next
  <2>4. CanMove(w)
    BY <2>3 DEF Move
  <2>5. AppearedInv(w) /\ mode[w] \in {"FailIfExists", "ReplaceExisting"}
    BY <1>1 DEF PngInv, TypeInv
  <2>6. QED
    BY <1>1, <2>4, <2>5 DEF CanMove, AppearedInv
<1>2. PngInv /\ [Next]_vars =>
        [\A w \in Writers :
           pc[w] = "move" /\ pc'[w] = "succeeded" =>
             /\ target.kind # "folder"
             /\ mode[w] = "FailIfExists" /\ target.kind = "file" => ~windows /\ appeared[w]]_vars
  BY <1>1
<1>3. QED
  BY PngInvHolds, <1>2, PTL DEF Spec, ReplacesAsAllowed
==============================================================================
