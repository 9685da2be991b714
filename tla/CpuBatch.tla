------------------------------- MODULE CpuBatch -------------------------------
(***************************************************************************)
(* One call of sequential::process_batch or openmp::process_batch.  OpenMP *)
(* gives whole images to its workers, or, when there are fewer images than *)
(* threads, the rows of one image after the other in two parallel loops.   *)
(* A row of an output image is what was done to it last.                   *)
(***************************************************************************)
EXTENDS Integers, FiniteSets, Sequences

CONSTANTS
  MaxImages,         \* bound: images of a batch
  MaxThreads,        \* bound: OpenMP threads
  OutputRows,        \* ProcessingConfig::output_height
  Margin,            \* ProcessingConfig::watermark_margin
  MarkHeight,        \* height of the watermark
  ProgressInterval   \* progress_interval, 10 in both back ends

ASSUME CountsAssumption == MaxImages \in Nat /\ MaxThreads \in Nat \ {0}
ASSUME RowsAssumption == OutputRows \in Nat \ {0} /\ Margin \in Nat /\ MarkHeight \in Nat \ {0}
ASSUME MarkFits == Margin + MarkHeight <= OutputRows
ASSUME IntervalAssumption == ProgressInterval \in Nat \ {0}

VARIABLES
  parallel,  \* OpenMP rather than Sequential
  total,     \* number of images
  threads,   \* requested threads, 1 for Sequential
  outcome,   \* "idle", "running", "succeeded" or "failed"
  out,       \* the output images: image -> row -> "blank", "resized", "marked", "spoilt"
  pc,        \* where each thread is
  image,     \* the image each thread works on
  todo,      \* the rows left to a thread in its current loop
  next,      \* the next image schedule(dynamic, 1) hands out
  tracker,   \* ProgressTracker: mutex owner, processed images, images of the interval
  samples    \* the calls of the progress sink

request == <<parallel, total, threads>>
work == <<out, image, todo, next>>
vars == <<request, outcome, work, pc, tracker, samples>>

Threads == 1 .. MaxThreads
Team == 1 .. threads
Master == 1
First(S) == CHOOSE x \in S : \A y \in S : x <= y
Origin == OutputRows - Margin - MarkHeight   \* the watermark's first row is below it
ByRows == parallel /\ threads > 1 /\ total < threads

(* schedule(static): at most one contiguous chunk per thread.              *)
Share(t, n) == {y \in 1 .. n : ((y - 1) * threads) \div n = t - 1}

Fork(step, n) ==
  /\ pc' = [t \in Threads |-> IF t \in Team THEN step ELSE "joined"]
  /\ todo' = [t \in Threads |-> IF t \in Team THEN Share(t, n) ELSE {}]

Init ==
  /\ parallel = FALSE /\ total = 0 /\ threads = 1 /\ outcome = "idle"
  /\ out = <<>> /\ next = 1 /\ samples = <<>>
  /\ pc = [t \in Threads |-> "joined"]
  /\ image = [t \in Threads |-> 0] /\ todo = [t \in Threads |-> {}]
  /\ tracker = [owner |-> 0, processed |-> 0, interval |-> {}]

Call ==
  /\ outcome = "idle" /\ outcome' = "running"
  /\ parallel' \in BOOLEAN /\ total' \in 0 .. MaxImages
  /\ threads' \in IF parallel' THEN 0 .. MaxThreads ELSE {1}
  /\ UNCHANGED <<work, pc, tracker, samples>>

(* prepare_batch and prepare_processing_batch: a call without threads or   *)
(* images, or with any unusable image, watermark or configuration.         *)
Reject ==
  /\ outcome = "running" /\ out = <<>>
  /\ outcome' = "failed"
  /\ UNCHANGED <<request, work, pc, tracker, samples>>

(* All output images exist before the first worker starts.                 *)
Prepare ==
  /\ outcome = "running" /\ out = <<>>
  /\ total > 0 /\ threads > 0
  /\ out' = [i \in 1 .. total |-> [y \in 1 .. OutputRows |-> "blank"]]
  /\ IF ByRows
       THEN Fork("resize", OutputRows) /\ image' = [t \in Threads |-> 1]
       ELSE /\ pc' = [t \in Threads |-> IF t \in Team THEN "claim" ELSE "joined"]
            /\ UNCHANGED <<image, todo>>
  /\ UNCHANGED <<request, outcome, next, tracker, samples>>

-----------------------------------------------------------------------------
(* The pixels.                                                             *)

(* Faulty: one worker too many finds an image left.                        *)
ClaimPastEnd(t) ==
  /\ pc[t] = "claim"
  /\ image' = [image EXCEPT ![t] = next] /\ next' = next + 1
  /\ pc' = [pc EXCEPT ![t] = IF next <= total + 1 THEN "resize" ELSE "joined"]
  /\ todo' = [todo EXCEPT ![t] = 1 .. OutputRows]
  /\ UNCHANGED <<request, outcome, out, tracker, samples>>

(* A worker takes its next image; process_image_serial does all its rows.  *)
Claim(t) ==
  /\ pc[t] = "claim"
  /\ IF next <= total
       THEN /\ image' = [image EXCEPT ![t] = next] /\ next' = next + 1
            /\ pc' = [pc EXCEPT ![t] = "resize"]
            /\ todo' = [todo EXCEPT ![t] = 1 .. OutputRows]
       ELSE pc' = [pc EXCEPT ![t] = "joined"] /\ UNCHANGED <<image, todo, next>>
  /\ UNCHANGED <<request, outcome, out, tracker, samples>>

ResizeRow(t) ==
  /\ pc[t] = "resize" /\ todo[t] # {}
  /\ LET y == First(todo[t])
     IN  /\ out' = [out EXCEPT ![image[t]][y] = "resized"]
         /\ todo' = [todo EXCEPT ![t] = @ \ {y}]
  /\ UNCHANGED <<request, outcome, pc, image, next, tracker, samples>>

(* Blending reads the pixels it replaces.                                  *)
MarkRow(t) ==
  /\ pc[t] = "mark" /\ todo[t] # {}
  /\ LET y == First(todo[t])
     IN  /\ out' = [out EXCEPT ![image[t]][Origin + y] =
                      IF @ = "resized" THEN "marked" ELSE "spoilt"]
         /\ todo' = [todo EXCEPT ![t] = @ \ {y}]
  /\ UNCHANGED <<request, outcome, pc, image, next, tracker, samples>>

(* A thread leaves its loop: to the barrier that ends a parallel loop, or  *)
(* to what process_image_serial does next.                                 *)
EndLoop(t) ==
  /\ pc[t] \in {"resize", "mark"} /\ todo[t] = {}
  /\ IF ByRows
       THEN pc' = [pc EXCEPT ![t] = IF @ = "resize" THEN "resized" ELSE "marked"]
            /\ UNCHANGED todo
       ELSE IF pc[t] = "resize"
       THEN pc' = [pc EXCEPT ![t] = "mark"] /\ todo' = [todo EXCEPT ![t] = 1 .. MarkHeight]
       ELSE pc' = [pc EXCEPT ![t] = "record"] /\ UNCHANGED todo
  /\ UNCHANGED <<request, outcome, out, image, next, tracker, samples>>

(* Faulty: the first loop has a nowait clause.                             *)
NoWait ==
  \E t \in Team :
    /\ pc[t] = "resized" /\ pc' = [pc EXCEPT ![t] = "mark"]
    /\ todo' = [todo EXCEPT ![t] = Share(t, MarkHeight)]

(* The implicit barrier after the first loop, and the fork of the second.  *)
Barrier == (\A t \in Team : pc[t] = "resized") /\ Fork("mark", MarkHeight)

(* The barrier after the second loop: the calling thread goes on alone.    *)
Join ==
  /\ \A t \in Team : pc[t] = "marked"
  /\ pc' = [t \in Threads |-> IF t = Master THEN "record" ELSE "joined"]
  /\ UNCHANGED todo

Synchronize ==
  /\ ByRows /\ outcome = "running" /\ out # <<>>
  /\ Barrier \/ Join
  /\ UNCHANGED <<request, outcome, out, image, next, tracker, samples>>

-----------------------------------------------------------------------------
(* The progress.                                                           *)

(* Faulty: the images after the last full interval are not reported.       *)
DueAtInterval(processed, interval) == Cardinality(interval) >= ProgressInterval

Due(processed, interval) ==
  Cardinality(interval) >= ProgressInterval \/ processed = total

(* What follows a recorded image.                                          *)
NextImage(t) ==
  IF ~ByRows
    THEN pc' = [pc EXCEPT ![t] = "claim"] /\ UNCHANGED <<image, todo>>
    ELSE IF image[t] < total
    THEN Fork("resize", OutputRows) /\ image' = [u \in Threads |-> image[t] + 1]
    ELSE pc' = [pc EXCEPT ![t] = "joined"] /\ UNCHANGED <<image, todo>>

(* Faulty: no lock_guard.                                                  *)
Unguarded == TRUE

MutexFree == tracker.owner = 0

(* ProgressTracker::record up to the call of the sink, under the mutex.    *)
Record(t) ==
  /\ parallel /\ pc[t] = "record" /\ MutexFree
  /\ LET processed == tracker.processed + 1
         interval == tracker.interval \cup {image[t]}
     IN  IF Due(processed, interval)
           THEN /\ tracker' = [owner |-> t, processed |-> processed, interval |-> interval]
                /\ pc' = [pc EXCEPT ![t] = "report"] /\ UNCHANGED <<image, todo>>
           ELSE /\ tracker' = [tracker EXCEPT !.processed = processed, !.interval = interval]
                /\ NextImage(t)
  /\ UNCHANGED <<request, outcome, out, next, samples>>

(* Faulty: the mutex stays locked.                                         *)
ResetLocked == [tracker EXCEPT !.interval = {}]

Reset == [tracker EXCEPT !.owner = 0, !.interval = {}]

(* The sink is called, whatever it throws is dropped, the mutex released.  *)
Report(t) ==
  /\ pc[t] = "report"
  /\ samples' = Append(samples, [processed |-> tracker.processed, timed |-> tracker.interval,
                                 divisor |-> Cardinality(tracker.interval)])
  /\ tracker' = Reset
  /\ NextImage(t)
  /\ UNCHANGED <<request, outcome, out, next>>

(* Sequential has no tracker: it decides by the index of the image.        *)
RecordSequential(t) ==
  /\ ~parallel /\ pc[t] = "record"
  /\ LET processed == image[t]
         interval == tracker.interval \cup {image[t]}
         remainder == processed % ProgressInterval
         due == remainder = 0 \/ processed = total
     IN  /\ tracker' = [tracker EXCEPT !.processed = processed,
                                       !.interval = IF due THEN {} ELSE interval]
         /\ samples' = IF due
              THEN Append(samples, [processed |-> processed, timed |-> interval, divisor |->
                                    IF remainder = 0 THEN ProgressInterval ELSE remainder])
              ELSE samples
         /\ NextImage(t)
  /\ UNCHANGED <<request, outcome, out, next>>

Return ==
  /\ outcome = "running" /\ out # <<>>
  /\ \A t \in Threads : pc[t] = "joined"
  /\ outcome' = "succeeded"
  /\ UNCHANGED <<request, work, pc, tracker, samples>>

Returned == outcome \in {"succeeded", "failed"} /\ UNCHANGED vars

Step(t) ==
  \/ Claim(t) \/ ResizeRow(t) \/ MarkRow(t) \/ EndLoop(t)
  \/ Record(t) \/ Report(t) \/ RecordSequential(t)
Caller == Call \/ Reject \/ Prepare \/ Synchronize \/ Return

Next == Caller \/ (\E t \in Threads : Step(t)) \/ Returned
Spec == Init /\ [][Next]_vars

(* The system schedules every thread, and a mutex it waits for is released *)
(* after one call of the sink.                                             *)
FairSpec == Spec /\ WF_vars(Caller) /\ \A t \in Threads : WF_vars(Step(t))

-----------------------------------------------------------------------------
(* Properties.                                                             *)

RowStates == {"blank", "resized", "marked", "spoilt"}
Sample == [processed : Nat, timed : SUBSET (1 .. MaxImages), divisor : Nat]

(* Every thread works on an image of the batch and on rows of it, and the  *)
(* mutex of the tracker has at most one owner.                             *)
TypeOK ==
  /\ parallel \in BOOLEAN /\ total \in 0 .. MaxImages /\ threads \in 0 .. MaxThreads
  /\ outcome \in {"idle", "running", "succeeded", "failed"}
  /\ out = <<>> \/ out \in [1 .. total -> [1 .. OutputRows -> RowStates]]
  /\ pc \in [Threads -> {"claim", "resize", "mark", "resized", "marked",
                         "record", "report", "joined"}]
  /\ image \in [Threads -> 0 .. total]
  /\ todo \in [Threads -> SUBSET (1 .. OutputRows)]
  /\ next \in 1 .. total + 1
  /\ tracker \in [owner : 0 .. MaxThreads, processed : Nat, interval : SUBSET (1 .. total)]
  /\ samples \in Seq(Sample)

Finished == [y \in 1 .. OutputRows |->
               IF y - Origin \in 1 .. MarkHeight THEN "marked" ELSE "resized"]

(* Whatever the schedule, no watermark row is blended with pixels that are *)
(* not resized yet or already marked, and a batch that succeeds has the    *)
(* pixels of the Sequential back end in every row.                         *)
PixelsAsSequential ==
  /\ \A i \in DOMAIN out : \A y \in 1 .. OutputRows : out[i][y] # "spoilt"
  /\ outcome = "succeeded" => \A i \in 1 .. total : out[i] = Finished

(* The time of every image is averaged in exactly one progress sample, by  *)
(* the number of images in it, and both back ends report at the same       *)
(* counts: each full interval and the end.                                 *)
SamplesAccountForImages ==
  \A k \in DOMAIN samples :
    LET s == samples[k]
        before == IF k = 1 THEN 0 ELSE samples[k - 1].processed
    IN  /\ Cardinality(s.timed) = s.divisor
        /\ s.divisor = s.processed - before
        /\ s.processed \in {k * ProgressInterval, total}
        /\ \A j \in 1 .. k - 1 : samples[j].timed \cap s.timed = {}

Promise == INSTANCE Batch WITH
  done <- {i \in DOMAIN out : out[i] = Finished},
  reported <- [k \in DOMAIN samples |-> samples[k].processed]

(* Both back ends keep the promise of Batch.                               *)
ImplementsBatch == Promise!Spec

(* No barrier and no mutex keeps a call from returning.                    *)
EveryCallReturns == <>(outcome \in {"succeeded", "failed"})
==============================================================================
