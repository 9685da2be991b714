------------------------------ MODULE CudaBatch ------------------------------
(***************************************************************************)
(* One cuda::Processor that is called for batch after batch, as the CUDA   *)
(* experiments of a run call it, on a device whose memory nobody else      *)
(* uses.  Its buffers live as long as the processor.  An image is its      *)
(* index in the batch; what a position of a buffer holds is the image that *)
(* was put there last.                                                     *)
(***************************************************************************)
EXTENDS Integers, Sequences, FiniteSets

CONSTANTS
  Requests,     \* the calls: number of images, bytes of the first i of them
                \* together, and the requested batch size
  DeviceMemory, \* bytes the buffers may take together
  MaxGridZ,     \* DeviceStatus::max_grid_z
  MarkPixels,   \* pixels of the watermark: three bytes of colour, one of alpha
  HeaderBytes,  \* sizeof(DeviceImageDescriptor)
  OutputBytes,  \* output_image_bytes
  MaxCalls      \* bound: calls of process_batch

Buffers == {"color", "alpha", "input", "descriptors", "output"}

ASSUME RequestsAssumption ==
  \A q \in Requests :
    /\ q.images \in Nat \ {0} /\ q.batch \in Nat
    /\ q.bytes \in [0 .. q.images -> Nat]
    /\ \A i, j \in 0 .. q.images : i <= j => q.bytes[i] <= q.bytes[j]
ASSUME SizesAssumption ==
  /\ DeviceMemory \in Nat /\ MaxGridZ \in Nat \ {0} /\ MaxCalls \in Nat
  /\ MarkPixels \in Nat /\ HeaderBytes \in Nat /\ OutputBytes \in Nat

VARIABLES
  request,    \* the call in progress, or the last one
  outcome,    \* "idle", "running", "succeeded" or "failed"
  calls,      \* calls so far
  pc,         \* the step of BatchExecutor::run
  attempt,    \* 1; 2 after the memory did not suffice; 3 after any other
              \* call of CUDA said so
  size,       \* effective_batch_size of the attempt
  begin,      \* images before the current chunk
  capacity,   \* DeviceBuffer::capacity_ of each buffer
  host,       \* host_input_ and host_descriptors_
  device,     \* contents of the device buffers input_, descriptors_ and output_
  outputs,    \* the output images of the attempt
  buffered,   \* progress_samples of the attempt
  reported,   \* the calls of the progress sink
  history     \* <<request, effective size or 0>> of the calls the device memory decided

callVars == <<request, calls, history>>
attemptVars == <<attempt, size>>
chunkVars == <<begin, host, device, outputs, buffered>>
vars == <<callVars, attemptVars, chunkVars, outcome, pc, capacity, reported>>

Count == request.images
Smaller(a, b) == IF a < b THEN a ELSE b

(* The bytes run asks reserve for at the chunk of `n` images after `from`. *)
Bytes(q, buffer, from, n) ==
  CASE buffer = "color" -> 3 * MarkPixels
    [] buffer = "alpha" -> MarkPixels
    [] buffer = "input" -> q.bytes[from + n] - q.bytes[from]
    [] buffer = "descriptors" -> HeaderBytes * n
    [] buffer = "output" -> OutputBytes * n

ChunkSize == Smaller(size, Count - begin)
Needed(buffer) == Bytes(request, buffer, begin, ChunkSize)

Allocated == capacity["color"] + capacity["alpha"] + capacity["input"]
             + capacity["descriptors"] + capacity["output"]

Overwrite(old, new) ==
  [i \in DOMAIN old \cup DOMAIN new |-> IF i \in DOMAIN new THEN new[i] ELSE old[i]]

Empty == [input |-> <<>>, descriptors |-> <<>>]

Init ==
  /\ request = [images |-> 0, bytes |-> [i \in {0} |-> 0], batch |-> 0] /\ calls = 0 /\ history = {}
  /\ outcome = "idle" /\ pc = "returned"
  /\ attempt = 1 /\ size = 0 /\ begin = 0
  /\ capacity = [b \in Buffers |-> 0]
  /\ host = Empty /\ device = [input |-> <<>>, descriptors |-> <<>>, output |-> <<>>]
  /\ outputs = <<>> /\ buffered = <<>> /\ reported = <<>>

-----------------------------------------------------------------------------
(* Processor::Impl::process_batch.                                         *)

Call ==
  /\ outcome # "running" /\ calls < MaxCalls
  /\ request' \in Requests
  /\ outcome' = "running" /\ calls' = calls + 1 /\ pc' = "check"
  /\ reported' = <<>>
  /\ UNCHANGED <<attemptVars, chunkVars, capacity, history>>

(* Faulty: the outputs of a failed attempt are kept in a member.           *)
KeptOutputs == outputs

FreshOutputs == <<>>

(* The locals of BatchExecutor::run at its start.                          *)
StartAttempt(n, effective) ==
  /\ attempt' = n /\ size' = effective /\ pc' = "color"
  /\ begin' = 0 /\ outputs' = FreshOutputs /\ buffered' = <<>>
  /\ UNCHANGED <<host, device>>

Fail == outcome' = "failed" /\ pc' = "returned"

(* A batch size of 0, or images that prepare_processing_batch rejects.     *)
Reject ==
  /\ pc = "check"
  /\ Fail
  /\ UNCHANGED <<callVars, attemptVars, chunkVars, capacity, reported>>

Accept ==
  /\ pc = "check" /\ request.batch > 0
  /\ StartAttempt(1, Smaller(request.batch, MaxGridZ))
  /\ UNCHANGED <<callVars, outcome, capacity, reported>>

(* Faulty: allocation failures are retried as long as there are any.       *)
AlwaysRetries == TRUE

Retries == attempt = 1 /\ size > 1
Fallback == IF size \div 2 > 1 THEN size \div 2 ELSE 1

(* Faulty: the buffers are released before the retry.                      *)
ReleasedBuffers == [b \in Buffers |-> 0]

KeptBuffers == capacity

Decides(result) ==
  history' = IF attempt = 3 THEN history ELSE history \cup {<<request, result>>}

(* RuntimeError with cudaErrorMemoryAllocation leaves run.                 *)
AllocationFailure ==
  /\ IF Retries
       THEN StartAttempt(2, Fallback) /\ UNCHANGED <<outcome, history>>
       ELSE Fail /\ Decides(0) /\ UNCHANGED <<attemptVars, chunkVars>>
  /\ capacity' = KeptBuffers
  /\ UNCHANGED <<request, calls, reported>>

(* Any other CUDA call fails, or memory of the host runs out: no retry.    *)
OtherFailure ==
  /\ outcome = "running" /\ pc \notin {"check", "report"}
  /\ Fail
  /\ UNCHANGED <<callVars, attemptVars, chunkVars, capacity, reported>>

(* Another CUDA call fails with cudaErrorMemoryAllocation, and the retry   *)
(* is the same.  Packing makes no such call; the watermark is copied to    *)
(* the device before the first chunk is packed.                            *)
OtherAllocationFailure ==
  /\ outcome = "running" /\ pc \notin {"check", "report"}
  /\ (pc = "pack" => begin = 0) /\ Retries
  /\ StartAttempt(3, Fallback)
  /\ UNCHANGED <<callVars, outcome, capacity, reported>>

-----------------------------------------------------------------------------
(* BatchExecutor::run.                                                     *)

After(step) ==
  CASE step = "color" -> "alpha"
    [] step = "alpha" -> "pack"
    [] step = "input" -> "descriptors"
    [] step = "descriptors" -> "output"
    [] step = "output" -> "upload"

(* DeviceBuffer::reserve: a buffer only grows, and its replacement is      *)
(* allocated while the old one is still there.                             *)
Reserve(b) ==
  /\ pc = b
  /\ IF Needed(b) <= capacity[b] \/ Allocated + Needed(b) <= DeviceMemory
       THEN /\ pc' = After(b)
            /\ capacity' = [capacity EXCEPT ![b] = IF @ < Needed(b) THEN Needed(b) ELSE @]
            /\ UNCHANGED <<callVars, attemptVars, chunkVars, outcome, reported>>
       ELSE AllocationFailure

(* Faulty: the descriptor vector is not cleared for the next chunk.        *)
Accumulated(position) ==
  [input |-> [i \in 1 .. ChunkSize |-> begin + i],
   descriptors |-> host.descriptors \o [i \in 1 .. ChunkSize |-> position[i]]]

(* pack_chunk: a descriptor holds where its image starts in the input.     *)
Packed(position) ==
  [input |-> [i \in 1 .. ChunkSize |-> begin + i],
   descriptors |-> [i \in 1 .. ChunkSize |-> position[i]]]

Pack ==
  /\ pc = "pack" /\ pc' = "input"
  /\ host' = Packed([i \in 1 .. ChunkSize |-> i])
  /\ UNCHANGED <<callVars, attemptVars, begin, device, outputs, buffered, outcome,
                 capacity, reported>>

Upload ==
  /\ pc = "upload" /\ pc' = "kernel"
  /\ device' = [device EXCEPT !.input = Overwrite(@, host.input),
                              !.descriptors = Overwrite(@, host.descriptors)]
  /\ UNCHANGED <<callVars, attemptVars, begin, host, outputs, buffered, outcome,
                 capacity, reported>>

(* One layer of the grid per image of the chunk.                           *)
Kernel ==
  /\ pc = "kernel" /\ pc' = "download"
  /\ device' = [device EXCEPT !.output =
       Overwrite(@, [i \in 1 .. ChunkSize |-> device.input[device.descriptors[i]]])]
  /\ UNCHANGED <<callVars, attemptVars, begin, host, outputs, buffered, outcome,
                 capacity, reported>>

(* Faulty: the sink is called as soon as a chunk is there.                 *)
ReportedAtOnce == Append(reported, begin + ChunkSize)

NotReported == reported

(* The chunk's part of the device output becomes output images; what is    *)
(* left over from a larger chunk before it stays on the device.            *)
Download ==
  /\ pc = "download"
  /\ outputs' = outputs \o [i \in 1 .. ChunkSize |-> device.output[i]]
  /\ buffered' = Append(buffered, begin + ChunkSize)
  /\ begin' = begin + size
  /\ pc' = IF begin + size < Count THEN "pack" ELSE "report"
  /\ reported' = NotReported
  /\ UNCHANGED <<callVars, attemptVars, host, device, outcome, capacity>>

Report ==
  /\ pc = "report" /\ Len(reported) < Len(buffered)
  /\ reported' = Append(reported, buffered[Len(reported) + 1])
  /\ UNCHANGED <<callVars, attemptVars, chunkVars, outcome, pc, capacity>>

Return ==
  /\ pc = "report" /\ Len(reported) = Len(buffered)
  /\ outcome' = "succeeded" /\ pc' = "returned" /\ Decides(size)
  /\ UNCHANGED <<request, calls, attemptVars, chunkVars, capacity, reported>>

Stopped == outcome # "running" /\ calls = MaxCalls /\ UNCHANGED vars

Processor ==
  \/ Reject \/ Accept \/ OtherFailure \/ OtherAllocationFailure \/ (\E b \in Buffers : Reserve(b))
  \/ Pack \/ Upload \/ Kernel \/ Download \/ Report \/ Return

Next == Call \/ Processor \/ Stopped
Spec == Init /\ [][Next]_vars
FairSpec == Spec /\ WF_vars(Processor)

-----------------------------------------------------------------------------
(* Properties.                                                             *)

ChunkSteps == Buffers \cup {"pack", "upload", "kernel", "download"}
Steps == ChunkSteps \cup {"check", "report", "returned"}

(* The buffers never take more than the device has, no chunk is empty, and *)
(* the host describes one chunk at a time.                                 *)
TypeOK ==
  /\ outcome \in {"idle", "running", "succeeded", "failed"} /\ pc \in Steps
  /\ calls \in 0 .. MaxCalls /\ attempt \in 1 .. 3 /\ size \in Nat
  /\ begin \in Nat /\ (pc \in ChunkSteps => begin < Count)
  /\ capacity \in [Buffers -> 0 .. DeviceMemory] /\ Allocated <= DeviceMemory
  /\ DOMAIN host.input = DOMAIN host.descriptors
  /\ \A S \in {outputs, buffered, reported} : S \in Seq(Nat)

(* Whatever buffers of earlier chunks, attempts and calls still hold, a    *)
(* call that succeeds returns one output per image, each of its own image. *)
OutputsOfOwnImages ==
  outcome = "succeeded" => outputs = [i \in 1 .. Count |-> i]

(* A request that is made again gets the effective batch size it got       *)
(* before, or fails again, whatever the processor was asked for in between *)
(* - as far as it is the size of the buffers that decides.  The runner     *)
(* relies on it when it fails an experiment whose repetitions differ in    *)
(* size.  Which size that is may depend on the calls before the first of   *)
(* these: buffers that are there already need not be allocated.            *)
EffectiveSizeStable ==
  \A x, y \in history : x[1] = y[1] => x[2] = y[2]

Promise == INSTANCE Batch WITH
  total <- Count,
  done <- IF pc = "report" \/ outcome = "succeeded" THEN 1 .. Count ELSE {}

(* A retried batch is reported once, and a batch that fails not at all.    *)
ImplementsBatch == Promise!Spec

(* Every call returns, after at most one retry.                            *)
EveryCallReturns == outcome = "running" ~> outcome # "running"
==============================================================================
