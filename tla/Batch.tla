-------------------------------- MODULE Batch --------------------------------
(***************************************************************************)
(* What every back end promises the benchmark for the batches it is given: *)
(* each image is processed, progress counts up to the number of images and *)
(* never beyond what is processed, and a batch that fails has reported     *)
(* nothing.  CpuBatch and CudaBatch implement it.                          *)
(***************************************************************************)
EXTENDS Naturals, Sequences, FiniteSets

VARIABLES
  total,     \* images of the batch
  done,      \* the processed ones
  reported,  \* the counts the progress sink was called with
  outcome    \* "idle", "running", "succeeded" or "failed"

vars == <<total, done, reported, outcome>>

LastReport == IF reported = <<>> THEN 0 ELSE reported[Len(reported)]

Init == total = 0 /\ done = {} /\ reported = <<>> /\ outcome = "idle"

Begin ==
  /\ outcome # "running" /\ outcome' = "running"
  /\ total' \in Nat /\ done' = {} /\ reported' = <<>>

Process ==
  /\ outcome = "running"
  /\ done \subseteq done' /\ done' \subseteq 1 .. total
  /\ UNCHANGED <<total, reported, outcome>>

Report ==
  /\ outcome = "running"
  /\ \E n \in LastReport + 1 .. Cardinality(done) : reported' = Append(reported, n)
  /\ UNCHANGED <<total, done, outcome>>

Succeed ==
  /\ outcome = "running" /\ done = 1 .. total /\ LastReport = total
  /\ outcome' = "succeeded"
  /\ UNCHANGED <<total, done, reported>>

Fail ==
  /\ outcome = "running" /\ reported = <<>>
  /\ outcome' = "failed"
  /\ UNCHANGED <<total, done, reported>>

Next == Begin \/ Process \/ Report \/ Succeed \/ Fail
Spec == Init /\ [][Next]_vars
==============================================================================
