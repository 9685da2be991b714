----------------------------- MODULE CudaProofs ------------------------------
(***************************************************************************)
(* The CUDA processor for any requests, any device memory and any number   *)
(* of calls: a request that is repeated gets the same effective batch size *)
(* again, whatever chunks, attempts and calls in between left in the       *)
(* buffers; each output is that of its own image; progress is reported in  *)
(* order; and the processor keeps the promise of Batch.                    *)
(***************************************************************************)
EXTENDS CudaBatch, FiniteSetTheorems, SequenceTheorems, TLAPS

-----------------------------------------------------------------------------
(* What a batch asks of the device's memory.                               *)

Capacities == [Buffers -> Nat]
Total(c) == c["color"] + c["alpha"] + c["input"] + c["descriptors"] + c["output"]

First(q) == Smaller(q.batch, MaxGridZ)
Half(n) == IF n \div 2 > 1 THEN n \div 2 ELSE 1

(* The chunks of an attempt with batch size s start at these images.       *)
Starts(q, s) == {from \in 0 .. q.images - 1 : \E n \in Nat : from = n * s}
Asked(q, s, b, from) == Bytes(q, b, from, Smaller(s, q.images - from))

(* With capacities c, an attempt with batch size s gets all it asks for,   *)
(* or is refused something, whatever else it is given before.              *)
Fits(c, q, s) == \A b \in Buffers, from \in Starts(q, s) : Asked(q, s, b, from) <= c[b]
Refused(c, q, s) ==
  \E b \in Buffers, from \in Starts(q, s) :
    Asked(q, s, b, from) > c[b] /\ Total(c) + Asked(q, s, b, from) > DeviceMemory

(* Why a call ended with this effective size, or with 0 for none.          *)
Decided(c, q, e) ==
  /\ e \in Nat
  /\ e > 0 => /\ Fits(c, q, e)
              /\ \/ e = First(q)
                 \/ First(q) > 1 /\ Refused(c, q, First(q)) /\ e = Half(First(q))
  /\ e = 0 => /\ Refused(c, q, First(q))
              /\ First(q) > 1 => Refused(c, q, Half(First(q)))

(* Capacities that grow as reserve lets them grow.                         *)
Grows(c, d) ==
  \/ d = c
  \/ \E b \in Buffers, n \in Nat :
       n > c[b] /\ Total(c) + n <= DeviceMemory /\ d = [c EXCEPT ![b] = n]

LEMMA RequestType ==
  ASSUME NEW q \in Requests
  PROVE  /\ q.images \in Nat \ {0} /\ q.batch \in Nat
         /\ First(q) \in Nat /\ (q.batch > 0 => First(q) > 0)
BY RequestsAssumption, SizesAssumption DEF First, Smaller

LEMMA HalfType ==
  ASSUME NEW n \in Nat
  PROVE  Half(n) \in Nat /\ Half(n) > 0
BY DEF Half

(* What is asked for is a number of bytes; the watermark's part is the     *)
(* same for every chunk.                                                   *)
LEMMA AskedType ==
  ASSUME NEW q \in Requests, NEW s \in Nat, NEW b \in Buffers, NEW from \in Starts(q, s)
  PROVE  /\ Asked(q, s, b, from) \in Nat
         /\ b \in {"color", "alpha"} =>
              \A f \in Starts(q, s) : Asked(q, s, b, f) = Asked(q, s, b, from)
<1> DEFINE n == Smaller(s, q.images - from)
<1>1. /\ q.images \in Nat \ {0} /\ from \in 0 .. q.images - 1
      /\ q.bytes \in [0 .. q.images -> Nat]
      /\ \A i, j \in 0 .. q.images : i <= j => q.bytes[i] <= q.bytes[j]
  BY RequestsAssumption DEF Starts
<1>2. n \in Nat /\ from + n \in 0 .. q.images /\ from \in 0 .. q.images
  BY <1>1 DEF Smaller
<1>3. /\ q.bytes[from + n] \in Nat /\ q.bytes[from] \in Nat
      /\ q.bytes[from] <= q.bytes[from + n]
  BY <1>1, <1>2, SMTT(30)
<1> HIDE DEF n
<1>4. HeaderBytes * n \in Nat /\ OutputBytes * n \in Nat /\ 3 * MarkPixels \in Nat
  BY <1>2, SizesAssumption
<1>5. /\ b = "color" => Bytes(q, b, from, n) = 3 * MarkPixels
      /\ b = "alpha" => Bytes(q, b, from, n) = MarkPixels
      /\ b = "input" => Bytes(q, b, from, n) = q.bytes[from + n] - q.bytes[from]
      /\ b = "descriptors" => Bytes(q, b, from, n) = HeaderBytes * n
      /\ b = "output" => Bytes(q, b, from, n) = OutputBytes * n
  BY DEF Bytes
<1>6. Bytes(q, b, from, n) \in Nat
  BY <1>3, <1>4, <1>5, SizesAssumption DEF Buffers
<1>7. b \in {"color", "alpha"} =>
        \A f \in Starts(q, s) : Asked(q, s, b, f) = Asked(q, s, b, from)
  BY DEF Asked, Bytes
<1>8. QED
  BY <1>6, <1>7 DEF Asked, n

(* The first chunk starts at the first image, the next one `s` further,    *)
(* and none in between.                                                    *)
LEMMA StartsAdvance ==
  ASSUME NEW q \in Requests, NEW s \in Nat \ {0}, NEW from \in Starts(q, s)
  PROVE  /\ 0 \in Starts(q, s)
         /\ from + s < q.images => from + s \in Starts(q, s)
         /\ \A f \in Starts(q, s) : f < from + s => f <= from
<1>1. q.images \in Nat \ {0}
  BY RequestType
<1>2. PICK n \in Nat : from = n * s
  BY DEF Starts
<1>3. 0 \in Starts(q, s)
  <2>1. 0 = 0 * s
    OBVIOUS
  <2>2. QED
    BY <1>1, <2>1 DEF Starts
<1>4. ASSUME from + s < q.images
      PROVE  from + s \in Starts(q, s)
  <2>1. from + s = (n + 1) * s
    BY <1>2
  <2>2. from + s \in 0 .. q.images - 1
    BY <1>1, <1>4 DEF Starts
  <2>3. \E m \in Nat : from + s = m * s
    <3>1. n + 1 \in Nat
      OBVIOUS
    <3>2. QED
      BY <2>1, <3>1
  <2>4. QED
    BY <2>2, <2>3 DEF Starts
<1>5. ASSUME NEW f \in Starts(q, s), f < from + s
      PROVE  f <= from
  <2>1. PICK m \in Nat : f = m * s
    BY DEF Starts
  <2>2. m * s < (n + 1) * s
    BY <1>2, <1>5, <2>1
  <2>3. m < n + 1
    <3>1. SUFFICES ASSUME m >= n + 1 PROVE FALSE
      OBVIOUS
    <3>2. PICK d \in Nat : m = n + 1 + d
      <4>1. m - (n + 1) \in Nat /\ m = n + 1 + (m - (n + 1))
        BY <3>1
      <4>2. QED
        BY <4>1
    <3>3. m * s = (n + 1) * s + d * s /\ d * s >= 0
      BY <3>2
    <3>4. (n + 1) * s \in Nat /\ m * s \in Nat /\ d * s \in Nat
      OBVIOUS
    <3>5. QED
      BY <2>2, <3>3, <3>4
  <2>4. PICK d \in Nat : n = m + d
    <3>1. n - m \in Nat /\ n = m + (n - m)
      BY <2>3
    <3>2. QED
      BY <3>1
  <2>5. n * s = m * s + d * s /\ d * s \in Nat /\ m * s \in Nat
    BY <2>4
  <2>6. QED
    BY <1>2, <2>1, <2>5
<1>6. QED
  BY <1>3, <1>4, <1>5

(* What fits keeps fitting and what is refused stays refused: the buffers  *)
(* only grow, and take nothing that would have to be there for the refused *)
(* request.                                                                *)
LEMMA DecisionsStay ==
  ASSUME NEW c \in Capacities, NEW d, Grows(c, d), NEW q \in Requests, NEW s \in Nat
  PROVE  /\ d \in Capacities
         /\ Fits(c, q, s) => Fits(d, q, s)
         /\ Refused(c, q, s) => Refused(d, q, s)
<1>1. CASE d = c
  BY <1>1
<1>2. CASE \E b \in Buffers, n \in Nat :
             n > c[b] /\ Total(c) + n <= DeviceMemory /\ d = [c EXCEPT ![b] = n]
  <2>1. PICK b \in Buffers, n \in Nat :
          n > c[b] /\ Total(c) + n <= DeviceMemory /\ d = [c EXCEPT ![b] = n]
    BY <1>2
  <2>2. /\ d \in Capacities
        /\ \A x \in Buffers : d[x] = (IF x = b THEN n ELSE c[x]) /\ c[x] \in Nat
    BY <2>1 DEF Capacities
  <2>3. /\ Total(c) \in Nat /\ Total(d) \in Nat /\ DeviceMemory \in Nat
        /\ Total(c) <= Total(d)
    BY <2>1, <2>2, SizesAssumption DEF Total, Buffers
  <2>4. ASSUME Fits(c, q, s)
        PROVE  Fits(d, q, s)
    <3>1. SUFFICES ASSUME NEW x \in Buffers, NEW from \in Starts(q, s)
                   PROVE  Asked(q, s, x, from) <= d[x]
      BY DEF Fits
    <3>2. Asked(q, s, x, from) \in Nat /\ Asked(q, s, x, from) <= c[x]
      BY <2>4, AskedType DEF Fits
    <3>3. QED
      BY <2>1, <2>2, <3>2
  <2>5. ASSUME Refused(c, q, s)
        PROVE  Refused(d, q, s)
    <3>1. PICK x \in Buffers, from \in Starts(q, s) :
            Asked(q, s, x, from) > c[x] /\ Total(c) + Asked(q, s, x, from) > DeviceMemory
      BY <2>5 DEF Refused
    <3>2. Asked(q, s, x, from) \in Nat
      BY AskedType
    <3>3. Asked(q, s, x, from) > d[x] /\ Total(d) + Asked(q, s, x, from) > DeviceMemory
      BY <2>1, <2>2, <2>3, <3>1, <3>2
    <3>4. QED
      BY <3>3 DEF Refused
  <2>6. QED
    BY <2>2, <2>4, <2>5
<1>3. QED
  BY <1>1, <1>2 DEF Grows

(* Whatever was decided stays decided.                                     *)
LEMMA DecidedStays ==
  ASSUME NEW c \in Capacities, NEW d, Grows(c, d), NEW q \in Requests, NEW e, Decided(c, q, e)
  PROVE  Decided(d, q, e)
<1>1. e \in Nat /\ First(q) \in Nat /\ Half(First(q)) \in Nat
  BY RequestType, HalfType DEF Decided
<1>2. QED
  BY <1>1, DecisionsStay DEF Decided

(* A call can be decided in one way only.                                  *)
LEMMA DecidedOnce ==
  ASSUME NEW c \in Capacities, NEW q \in Requests, NEW e, NEW f,
         Decided(c, q, e), Decided(c, q, f)
  PROVE  e = f
<1>1. ASSUME NEW s \in Nat, Fits(c, q, s), Refused(c, q, s)
      PROVE  FALSE
  <2>1. PICK b \in Buffers, from \in Starts(q, s) : Asked(q, s, b, from) > c[b]
    BY <1>1 DEF Refused
  <2>2. Asked(q, s, b, from) <= c[b] /\ c[b] \in Nat /\ Asked(q, s, b, from) \in Nat
    BY <1>1, AskedType DEF Fits, Capacities
  <2>3. QED
    BY <2>1, <2>2
<1>2. e \in Nat /\ f \in Nat /\ First(q) \in Nat /\ Half(First(q)) \in Nat
  BY RequestType, HalfType DEF Decided
<1>3. QED
  BY <1>1, <1>2 DEF Decided

-----------------------------------------------------------------------------
(* Types.                                                                  *)

Record == {"input", "descriptors", "output"}

TypeInv ==
  /\ outcome \in {"idle", "running", "succeeded", "failed"} /\ pc \in Steps
  /\ outcome = "running" <=> pc # "returned"
  /\ outcome # "idle" => request \in Requests
  /\ Count \in Nat /\ calls \in 0 .. MaxCalls
  /\ attempt \in 1 .. 3 /\ size \in Nat
  /\ begin \in Nat /\ (pc \in ChunkSteps => begin < Count)
  /\ capacity \in Capacities /\ Allocated <= DeviceMemory
  /\ DOMAIN device = Record

(* The buffers a chunk already has at a step.                              *)
Reserved ==
  CASE pc = "color" -> {}
    [] pc = "alpha" -> {"color"}
    [] pc \in {"pack", "input"} -> {"color", "alpha"}
    [] pc = "descriptors" -> {"color", "alpha", "input"}
    [] pc = "output" -> Buffers \ {"output"}
    [] OTHER -> Buffers

(* The size of an attempt is the first one, or half of it: of the second   *)
(* attempt because the first was refused its memory.                       *)
AttemptInv ==
  /\ request.batch > 0 /\ size > 0
  /\ \/ attempt = 1 /\ size = First(request)
     \/ /\ attempt \in {2, 3} /\ size = Half(First(request)) /\ First(request) > 1
        /\ attempt = 2 => Refused(capacity, request, First(request))

(* What the buffers are large enough for.                                  *)
MemoryInv ==
  /\ pc \in ChunkSteps \cup {"report"} => AttemptInv
  /\ pc \in ChunkSteps =>
       /\ begin \in Starts(request, size)
       /\ \A b \in Buffers, from \in Starts(request, size) :
            from < begin => Asked(request, size, b, from) <= capacity[b]
       /\ \A b \in Reserved : Asked(request, size, b, begin) <= capacity[b]
  /\ pc = "report" => Fits(capacity, request, size)
  /\ \A x \in history : x[1] \in Requests /\ Decided(capacity, x[1], x[2])

(* The three ends of a reservation.                                        *)
Denied(b) ==
  /\ pc = b /\ Needed(b) > capacity[b] /\ Total(capacity) + Needed(b) > DeviceMemory
  /\ UNCHANGED <<request, calls, host, device, capacity, reported>>

Granted(b) ==
  /\ pc = b /\ pc' = After(b) /\ Needed(b) <= capacity'[b]
  /\ capacity' \in Capacities /\ Grows(capacity, capacity')
  /\ \A x \in Buffers : capacity[x] <= capacity'[x]
  /\ Total(capacity') <= DeviceMemory
  /\ UNCHANGED <<request, calls, history, attempt, size, begin, host, device, outputs,
                 buffered, outcome, reported>>

Retried(b) ==
  /\ Denied(b) /\ attempt = 1 /\ size > 1
  /\ attempt' = 2 /\ size' = Half(size) /\ pc' = "color" /\ begin' = 0
  /\ outputs' = <<>> /\ buffered' = <<>> /\ UNCHANGED <<outcome, history>>

Refuse(b) ==
  /\ Denied(b) /\ ~(attempt = 1 /\ size > 1)
  /\ outcome' = "failed" /\ pc' = "returned" /\ Decides(0)
  /\ UNCHANGED <<attempt, size, begin, outputs, buffered>>

(* A retry for another reason than the size of the buffers.                *)
LEMMA OtherRetry ==
  ASSUME TypeInv, OtherAllocationFailure
  PROVE  /\ pc \in ChunkSteps /\ attempt = 1 /\ size > 1
         /\ attempt' = 3 /\ size' = Half(size) /\ pc' = "color" /\ begin' = 0
         /\ outputs' = <<>> /\ buffered' = <<>>
         /\ UNCHANGED <<request, calls, history, outcome, host, device, capacity, reported>>
BY DEF OtherAllocationFailure, TypeInv, Steps, Retries, StartAttempt, FreshOutputs, Fallback, Half,
       callVars

LEMMA TotalIsAllocated == Allocated = Total(capacity) /\ Allocated' = Total(capacity')
BY DEF Allocated, Total

(* The size of a chunk and what it needs.                                  *)
LEMMA ChunkType ==
  ASSUME TypeInv, pc \in ChunkSteps
  PROVE  /\ request \in Requests /\ Count \in Nat \ {0} /\ ChunkSize \in Nat
         /\ begin + ChunkSize <= Count
         /\ size > 0 => ChunkSize > 0
         /\ begin + size < Count => ChunkSize = size
         /\ begin + size >= Count => begin + ChunkSize = Count
         /\ \A b : Needed(b) = Asked(request, size, b, begin)
<1>1. request \in Requests /\ begin \in Nat /\ begin < Count /\ size \in Nat
  BY DEF TypeInv, ChunkSteps, Buffers
<1>2. Count \in Nat \ {0}
  BY <1>1, RequestType DEF Count
<1>3. QED
  BY <1>1, <1>2 DEF ChunkSize, Smaller, Needed, Asked, Count

LEMMA ReserveEnds ==
  ASSUME TypeInv, NEW b \in Buffers, begin \in Starts(request, size), Reserve(b)
  PROVE  Granted(b) \/ Retried(b) \/ Refuse(b)
<1>1. pc = b /\ pc \in ChunkSteps
  BY DEF Reserve, ChunkSteps
<1>2. /\ request \in Requests /\ Needed(b) = Asked(request, size, b, begin)
      /\ size \in Nat
  BY <1>1, ChunkType DEF TypeInv
<1>3. Needed(b) \in Nat
  BY <1>2, AskedType
<1>4. /\ capacity \in Capacities /\ \A x \in Buffers : capacity[x] \in Nat
      /\ Total(capacity) \in Nat /\ Total(capacity) <= DeviceMemory
  BY TotalIsAllocated DEF TypeInv, Capacities, Total, Buffers
<1>5. CASE Needed(b) <= capacity[b]
  <2>1. capacity' = capacity
    <3>1. capacity' = [capacity EXCEPT ![b] = IF @ < Needed(b) THEN Needed(b) ELSE @]
      BY <1>5 DEF Reserve
    <3>2. (IF capacity[b] < Needed(b) THEN Needed(b) ELSE capacity[b]) = capacity[b]
      BY <1>3, <1>4, <1>5
    <3>3. capacity' = [capacity EXCEPT ![b] = capacity[b]]
      BY <3>1, <3>2
    <3>4. QED
      BY <1>4, <3>3 DEF Capacities
  <2>2. QED
    BY <1>1, <1>4, <1>5, <2>1 DEF Reserve, Granted, Grows, callVars, attemptVars, chunkVars
<1>6. CASE ~(Needed(b) <= capacity[b]) /\ Allocated + Needed(b) <= DeviceMemory
  <2>1. Needed(b) > capacity[b] /\ Total(capacity) + Needed(b) <= DeviceMemory
    BY <1>3, <1>4, <1>6, TotalIsAllocated
  <2>2. capacity' = [capacity EXCEPT ![b] = Needed(b)]
    <3>1. capacity' = [capacity EXCEPT ![b] = IF @ < Needed(b) THEN Needed(b) ELSE @]
      BY <1>6 DEF Reserve
    <3>2. QED
      BY <1>3, <1>4, <2>1, <3>1
  <2>3. /\ capacity' \in Capacities
        /\ \A x \in Buffers : capacity'[x] = (IF x = b THEN Needed(b) ELSE capacity[x])
    BY <1>3, <1>4, <2>2 DEF Capacities
  <2>4. \A x \in Buffers : capacity[x] <= capacity'[x]
    BY <1>3, <1>4, <2>1, <2>3
  <2>5. Total(capacity') <= Total(capacity) + Needed(b)
    BY <1>3, <1>4, <2>3 DEF Total, Buffers
  <2>6. Total(capacity') <= DeviceMemory
    <3>1. Total(capacity') \in Nat /\ DeviceMemory \in Nat
      BY <2>3, SizesAssumption DEF Total, Capacities, Buffers
    <3>2. QED
      BY <1>3, <1>4, <2>1, <2>5, <3>1
  <2>7. Grows(capacity, capacity')
    BY <1>3, <2>1, <2>2 DEF Grows
  <2>8. /\ pc' = After(b)
        /\ UNCHANGED <<callVars, attemptVars, chunkVars, outcome, reported>>
    BY <1>6 DEF Reserve
  <2>9. Needed(b) <= capacity'[b]
    BY <1>3, <2>3
  <2>10. QED
    BY <1>1, <2>3, <2>4, <2>6, <2>7, <2>8, <2>9
       DEF Granted, callVars, attemptVars, chunkVars
<1>7. CASE ~(Needed(b) <= capacity[b] \/ Allocated + Needed(b) <= DeviceMemory)
  <2>1. AllocationFailure
    BY <1>7 DEF Reserve
  <2>2. Needed(b) > capacity[b] /\ Total(capacity) + Needed(b) > DeviceMemory
    BY <1>3, <1>4, <1>7, TotalIsAllocated, SizesAssumption
  <2>3. CASE Retries
    BY <1>1, <2>1, <2>2, <2>3 DEF AllocationFailure, Retries, StartAttempt, Fallback, Half,
       FreshOutputs, KeptBuffers, Retried, Denied
  <2>4. CASE ~Retries
    BY <1>1, <2>1, <2>2, <2>4 DEF AllocationFailure, Retries, Fail, KeptBuffers, attemptVars,
       chunkVars, Refuse, Denied
  <2>5. QED
    BY <2>3, <2>4
<1>8. QED
  BY <1>5, <1>6, <1>7

LEMMA CudaInit == Init => TypeInv /\ MemoryInv
<1> SUFFICES ASSUME Init PROVE TypeInv /\ MemoryInv
  OBVIOUS
<1>1. Count = 0 /\ capacity \in Capacities /\ Total(capacity) = 0
  BY DEF Init, Count, Capacities, Total, Buffers
<1>2. TypeInv
  BY <1>1, SizesAssumption, TotalIsAllocated DEF Init, TypeInv, Steps, ChunkSteps, Buffers, Record
<1>3. MemoryInv
  BY DEF Init, MemoryInv, ChunkSteps, Buffers
<1>4. QED
  BY <1>2, <1>3

(* The steps that leave the memory, and what was decided, alone.           *)
LEMMA CapacityStep ==
  ASSUME TypeInv, MemoryInv, [Next]_vars
  PROVE  /\ capacity' \in Capacities /\ Grows(capacity, capacity') /\ Allocated' <= DeviceMemory
         /\ \A b \in Buffers : Reserve(b) => Granted(b) \/ Retried(b) \/ Refuse(b)
         /\ (\A b \in Buffers : ~Granted(b)) => capacity' = capacity
<1>1. ASSUME NEW b \in Buffers, Reserve(b)
      PROVE  Granted(b) \/ Retried(b) \/ Refuse(b)
  <2>1. begin \in Starts(request, size)
    BY <1>1 DEF MemoryInv, Reserve, ChunkSteps
  <2>2. QED
    BY <1>1, <2>1, ReserveEnds
<1>2. ASSUME NEW b \in Buffers, Granted(b)
      PROVE  capacity' \in Capacities /\ Grows(capacity, capacity') /\ Allocated' <= DeviceMemory
  BY <1>2, TotalIsAllocated DEF Granted
<1>3. ASSUME \A b \in Buffers : ~Granted(b)
      PROVE  capacity' = capacity
  <2>1. \A b \in Buffers : Reserve(b) => Retried(b) \/ Refuse(b)
    BY <1>1, <1>3
  <2>2. \A b \in Buffers : Retried(b) \/ Refuse(b) => capacity' = capacity
    BY DEF Retried, Refuse, Denied
  <2>3. QED
    BY <2>1, <2>2 DEF Next, Processor, Call, Reject, Accept, OtherFailure,
       OtherAllocationFailure, Pack, Upload, Kernel, Download, Report, Return, Stopped, vars
<1>4. capacity' = capacity => Grows(capacity, capacity') /\ Total(capacity') = Total(capacity)
  BY DEF Grows
<1>5. QED
  BY <1>1, <1>2, <1>3, <1>4, TotalIsAllocated DEF TypeInv

LEMMA CudaTypes ==
  ASSUME TypeInv, MemoryInv, [Next]_vars
  PROVE  TypeInv'
<1>1. capacity' \in Capacities /\ Allocated' <= DeviceMemory
  BY CapacityStep
<1>2. /\ pc \in ChunkSteps => request \in Requests
      /\ \A q \in Requests : q.images \in Nat \ {0} /\ First(q) \in Nat
      /\ \A n \in Nat : Half(n) \in Nat
  BY ChunkType, RequestType, HalfType
<1> USE DEF TypeInv, Count, Steps, ChunkSteps, Buffers
<1>3. CASE Call
  <2>1. /\ request' \in Requests /\ outcome' = "running" /\ pc' = "check"
        /\ calls < MaxCalls /\ calls' = calls + 1
        /\ UNCHANGED <<attempt, size, begin, device>>
    BY <1>3 DEF Call, attemptVars, chunkVars
  <2>2. calls' \in 0 .. MaxCalls
    BY <2>1, SizesAssumption
  <2>3. QED
    BY <1>1, <1>2, <2>1, <2>2
<1>4. CASE Reject \/ OtherFailure
  <2>1. /\ pc # "returned" /\ outcome' = "failed" /\ pc' = "returned"
        /\ UNCHANGED <<request, calls, attempt, size, begin, device>>
    BY <1>4 DEF Reject, OtherFailure, Fail, callVars, attemptVars, chunkVars
  <2>2. request \in Requests
    BY <2>1
  <2>3. QED
    BY <1>1, <2>1, <2>2
<1>5. CASE Accept
  <2>1. /\ pc = "check" /\ pc' = "color" /\ attempt' = 1 /\ size' = First(request) /\ begin' = 0
        /\ UNCHANGED <<request, calls, outcome, device>>
    BY <1>5 DEF Accept, StartAttempt, First, callVars
  <2>2. request \in Requests
    BY <2>1
  <2>3. QED
    BY <1>1, <1>2, <2>1, <2>2
<1>6. ASSUME NEW b \in Buffers, Reserve(b)
      PROVE  TypeInv'
  <2>1. Granted(b) \/ Retried(b) \/ Refuse(b)
    BY <1>6, CapacityStep
  <2>2. CASE Granted(b)
    <3>1. pc' \in ChunkSteps
      BY <1>6, <2>2 DEF Granted, After
    <3>2. pc \in ChunkSteps /\ pc' # "returned" /\ pc' \in Steps
      BY <1>6, <2>2, <3>1 DEF Granted
    <3>3. UNCHANGED <<request, calls, outcome, attempt, size, begin, device>>
      BY <2>2 DEF Granted
    <3>4. begin < Count
      BY <3>2
    <3>5. QED
      BY <1>1, <3>2, <3>3, <3>4
  <2>3. CASE Retried(b)
    <3>1. /\ pc = b /\ pc' = "color" /\ attempt' = 2 /\ size' = Half(size) /\ begin' = 0
          /\ UNCHANGED <<request, calls, outcome, device>>
      BY <2>3 DEF Retried, Denied
    <3>2. pc \in ChunkSteps /\ pc # "returned" /\ request \in Requests
      BY <1>2, <3>1
    <3>3. QED
      BY <1>1, <1>2, <3>1, <3>2
  <2>4. CASE Refuse(b)
    BY <1>1, <1>6, <2>4 DEF Refuse, Denied
  <2>5. QED
    BY <2>1, <2>2, <2>3, <2>4
<1>7. CASE Pack
  BY <1>1, <1>7 DEF Pack, callVars, attemptVars
<1>8. CASE OtherAllocationFailure
  <2>1. /\ pc \in ChunkSteps /\ pc' = "color" /\ attempt' = 3 /\ size' = Half(size) /\ begin' = 0
        /\ UNCHANGED <<request, calls, outcome, device>>
    BY <1>8, OtherRetry
  <2>2. request \in Requests /\ request.images \in Nat \ {0} /\ Half(size) \in Nat
    BY <1>2, <2>1
  <2>3. QED
    BY <1>1, <2>1, <2>2
<1>9. CASE Upload \/ Kernel
  <2>1. DOMAIN device' = DOMAIN device
    BY <1>9 DEF Upload, Kernel
  <2>2. QED
    BY <1>1, <1>9, <2>1 DEF Upload, Kernel, callVars, attemptVars
<1>10. CASE Download
  BY <1>1, <1>10 DEF Download, callVars, attemptVars
<1>11. CASE Report \/ Return
  BY <1>1, <1>11 DEF Report, Return, callVars, attemptVars, chunkVars
<1>12. CASE Stopped \/ UNCHANGED vars
  BY <1>1, <1>12 DEF Stopped, vars, callVars, attemptVars, chunkVars
<1>13. QED
  BY <1>3, <1>4, <1>5, <1>6, <1>7, <1>8, <1>9, <1>10, <1>11, <1>12 DEF Next, Processor

-----------------------------------------------------------------------------
(* The effective batch size.                                               *)

(* What the past calls decided stays decided, whatever grows.              *)
LEMMA HistoryStays ==
  ASSUME TypeInv, MemoryInv, [Next]_vars
  PROVE  \A x \in history : x[1] \in Requests /\ Decided(capacity', x[1], x[2])
<1>1. capacity \in Capacities /\ Grows(capacity, capacity')
  BY CapacityStep DEF TypeInv
<1>2. QED
  BY <1>1, DecidedStays DEF MemoryInv

LEMMA MemoryStep ==
  ASSUME TypeInv, MemoryInv, [Next]_vars
  PROVE  MemoryInv'
<1>1. /\ capacity \in Capacities /\ capacity' \in Capacities
      /\ Grows(capacity, capacity')
      /\ \A x \in history : x[1] \in Requests /\ Decided(capacity', x[1], x[2])
  BY CapacityStep, HistoryStays DEF TypeInv
<1>2. CASE Call \/ Reject \/ OtherFailure
  <2>1. pc' \in {"check", "returned"} /\ history' = history
    BY <1>2 DEF Call, Reject, OtherFailure, Fail, callVars
  <2>2. QED
    BY <1>1, <2>1 DEF MemoryInv, ChunkSteps, Buffers
<1>3. CASE Accept
  <2>1. /\ pc' = "color" /\ attempt' = 1 /\ size' = First(request) /\ begin' = 0
        /\ request' = request /\ history' = history /\ request.batch > 0
        /\ request \in Requests
    BY <1>3 DEF Accept, StartAttempt, First, callVars, TypeInv
  <2>2. First(request) \in Nat /\ First(request) > 0 /\ request.images \in Nat \ {0}
    BY <2>1, RequestType
  <2>3. 0 \in Starts(request, First(request))
    <3>1. 0 = 0 * First(request)
      BY <2>2
    <3>2. QED
      BY <2>2, <3>1 DEF Starts
  <2>4. AttemptInv'
    BY <2>1, <2>2 DEF AttemptInv
  <2>5. \A f \in Starts(request, First(request)) : ~(f < 0)
    BY <2>2 DEF Starts
  <2>6. Reserved' = {}
    BY <2>1 DEF Reserved
  <2>7. QED
    BY <1>1, <2>1, <2>3, <2>4, <2>5, <2>6 DEF MemoryInv
<1>4. ASSUME NEW b \in Buffers, Granted(b)
      PROVE  MemoryInv'
  <2>1. /\ pc = b /\ pc' = After(b) /\ Needed(b) <= capacity'[b]
        /\ \A x \in Buffers : capacity[x] <= capacity'[x]
        /\ UNCHANGED <<request, history, attempt, size, begin>>
    BY <1>4 DEF Granted
  <2>2. pc \in ChunkSteps /\ pc' \in ChunkSteps /\ pc' # "report"
    BY <2>1 DEF ChunkSteps, Buffers, After
  <2>3. request \in Requests /\ size \in Nat /\ Needed(b) = Asked(request, size, b, begin)
        /\ First(request) \in Nat /\ begin \in Starts(request, size)
    BY <2>2, ChunkType, RequestType DEF TypeInv, MemoryInv
  <2>4. AttemptInv'
    <3>1. Refused(capacity, request, First(request)) => Refused(capacity', request, First(request))
      BY <1>1, <2>3, DecisionsStay
    <3>2. QED
      BY <2>1, <2>2, <3>1 DEF MemoryInv, AttemptInv
  <2>5. Reserved' = Reserved \cup {b} /\ Reserved \subseteq Buffers
    <3>1. b = "color" => Reserved = {} /\ Reserved' = {"color"}
      BY <2>1 DEF Reserved, After
    <3>2. b = "alpha" => Reserved = {"color"} /\ Reserved' = {"color", "alpha"}
      BY <2>1 DEF Reserved, After
    <3>3. b = "input" => Reserved = {"color", "alpha"} /\ Reserved' = {"color", "alpha", "input"}
      BY <2>1 DEF Reserved, After
    <3>4. b = "descriptors" => /\ Reserved = {"color", "alpha", "input"}
                               /\ Reserved' = Buffers \ {"output"}
      BY <2>1 DEF Reserved, After
    <3>5. b = "output" => Reserved = Buffers \ {"output"} /\ Reserved' = Buffers
      BY <2>1 DEF Reserved, After
    <3>6. QED
      BY <3>1, <3>2, <3>3, <3>4, <3>5 DEF Buffers
  <2>6. \A x \in Buffers : capacity[x] \in Nat /\ capacity'[x] \in Nat
    BY <1>1 DEF Capacities
  <2>7. ASSUME NEW x \in Buffers, NEW from \in Starts(request, size), from < begin
        PROVE  Asked(request, size, x, from) <= capacity'[x]
    <3>1. Asked(request, size, x, from) <= capacity[x]
      BY <2>2, <2>7 DEF MemoryInv
    <3>2. Asked(request, size, x, from) \in Nat
      BY <2>3, AskedType
    <3>3. QED
      BY <2>1, <2>6, <3>1, <3>2
  <2>8. ASSUME NEW x \in Reserved'
        PROVE  Asked(request, size, x, begin) <= capacity'[x]
    <3>1. CASE x = b
      BY <2>1, <2>3, <3>1
    <3>2. CASE x \in Reserved
      <4>1. Asked(request, size, x, begin) <= capacity[x] /\ x \in Buffers
        BY <2>2, <2>5, <3>2 DEF MemoryInv
      <4>2. Asked(request, size, x, begin) \in Nat
        BY <2>3, <4>1, AskedType
      <4>3. QED
        BY <2>1, <2>6, <4>1, <4>2
    <3>3. QED
      BY <2>5, <2>8, <3>1, <3>2
  <2>9. QED
    BY <1>1, <2>1, <2>2, <2>3, <2>4, <2>7, <2>8 DEF MemoryInv
<1>5. ASSUME NEW b \in Buffers, Denied(b)
      PROVE  /\ request \in Requests /\ pc \in ChunkSteps /\ AttemptInv
             /\ Refused(capacity, request, size)
  <2>1. pc \in ChunkSteps
    BY <1>5 DEF Denied, ChunkSteps
  <2>2. begin \in Starts(request, size) /\ AttemptInv
    BY <2>1 DEF MemoryInv
  <2>3. Asked(request, size, b, begin) > capacity[b]
        /\ Total(capacity) + Asked(request, size, b, begin) > DeviceMemory
    BY <1>5, <2>1, ChunkType DEF Denied
  <2>4. QED
    BY <2>1, <2>2, <2>3, ChunkType DEF Refused
<1>6. ASSUME NEW n \in {2, 3}, pc \in ChunkSteps, AttemptInv, attempt = 1, size > 1,
             n = 2 => Refused(capacity, request, size),
             attempt' = n, size' = Half(size), pc' = "color", begin' = 0,
             UNCHANGED <<request, history, capacity>>
      PROVE  MemoryInv'
  <2>1. /\ request \in Requests /\ size = First(request) /\ First(request) \in Nat
        /\ request.images \in Nat \ {0}
    BY <1>6, ChunkType, RequestType DEF AttemptInv
  <2>2. Half(size) \in Nat /\ Half(size) > 0
    BY <2>1, HalfType
  <2>3. 0 \in Starts(request, Half(size)) /\ \A f \in Starts(request, Half(size)) : ~(f < 0)
    <3>1. 0 = 0 * Half(size)
      BY <2>2
    <3>2. QED
      BY <2>1, <3>1 DEF Starts
  <2>4. AttemptInv'
    BY <1>6, <2>1, <2>2 DEF AttemptInv
  <2>5. Reserved' = {}
    BY <1>6 DEF Reserved
  <2>6. QED
    BY <1>1, <1>6, <2>3, <2>4, <2>5 DEF MemoryInv
<1>7. ASSUME NEW b \in Buffers, Retried(b) \/ Refuse(b)
      PROVE  MemoryInv'
  <2>1. Denied(b)
    BY <1>7 DEF Retried, Refuse
  <2>2. /\ request \in Requests /\ pc \in ChunkSteps /\ AttemptInv
        /\ Refused(capacity, request, size) /\ capacity' = capacity
    BY <1>5, <2>1 DEF Denied
  <2>3. CASE Retried(b)
    BY <1>6, <2>2, <2>3 DEF Retried, Denied
  <2>4. CASE Refuse(b)
    <3>1. /\ ~(attempt = 1 /\ size > 1) /\ pc' = "returned"
          /\ history' = IF attempt = 3 THEN history ELSE history \cup {<<request, 0>>}
      BY <2>4 DEF Refuse, Decides
    <3>2. First(request) \in Nat
      BY <2>2, RequestType
    <3>3. attempt # 3 => Decided(capacity, request, 0)
      BY <2>2, <3>1, <3>2 DEF Decided, AttemptInv
    <3>4. QED
      BY <1>1, <2>2, <3>1, <3>3 DEF MemoryInv, ChunkSteps, Buffers
  <2>5. QED
    BY <1>7, <2>3, <2>4
<1>8. CASE OtherAllocationFailure
  <2>1. AttemptInv
    BY <1>8, OtherRetry DEF MemoryInv
  <2>2. QED
    BY <1>6, <1>8, <2>1, OtherRetry
<1>9. CASE Pack \/ Upload \/ Kernel
  <2>1. /\ UNCHANGED <<request, history, attempt, size, begin, capacity>>
        /\ pc \in ChunkSteps /\ pc' \in ChunkSteps /\ pc' # "report"
    BY <1>9 DEF Pack, Upload, Kernel, callVars, attemptVars, ChunkSteps, Buffers
  <2>2. Reserved' = Reserved
    BY <1>9 DEF Pack, Upload, Kernel, Reserved
  <2>3. AttemptInv'
    BY <2>1 DEF MemoryInv, AttemptInv
  <2>4. QED
    BY <1>1, <2>1, <2>2, <2>3 DEF MemoryInv
<1>10. CASE Download
  <2>1. /\ pc = "download" /\ begin' = begin + size /\ capacity' = capacity
        /\ UNCHANGED <<request, history, attempt, size>>
        /\ pc' = IF begin + size < Count THEN "pack" ELSE "report"
    BY <1>10 DEF Download, callVars, attemptVars
  <2>2. pc \in ChunkSteps /\ Reserved = Buffers
    BY <2>1 DEF ChunkSteps, Reserved
  <2>3. /\ request \in Requests /\ AttemptInv /\ size \in Nat \ {0}
        /\ begin \in Starts(request, size) /\ begin \in Nat /\ Count \in Nat
        /\ Count = request.images
    BY <2>2, ChunkType DEF MemoryInv, AttemptInv, TypeInv, Count
  <2>4. AttemptInv'
    BY <2>1, <2>3 DEF AttemptInv
  <2>5. ASSUME NEW b \in Buffers, NEW from \in Starts(request, size), from < begin + size
        PROVE  Asked(request, size, b, from) <= capacity[b]
    <3>1. from <= begin
      BY <2>3, <2>5, StartsAdvance
    <3>2. from = begin \/ from < begin
      BY <2>3, <3>1 DEF Starts
    <3>3. QED
      BY <2>2, <3>2 DEF MemoryInv
  <2>6. CASE begin + size < Count
    <3>1. pc' = "pack" /\ Reserved' = {"color", "alpha"}
      BY <2>1, <2>6 DEF Reserved
    <3>2. begin + size \in Starts(request, size)
      BY <2>3, <2>6, StartsAdvance
    <3>3. ASSUME NEW b \in {"color", "alpha"}
          PROVE  Asked(request, size, b, begin + size) <= capacity[b]
      <4>1. Asked(request, size, b, begin) <= capacity[b] /\ b \in Buffers
        BY <2>2 DEF MemoryInv, Buffers
      <4>2. Asked(request, size, b, begin + size) = Asked(request, size, b, begin)
        BY <2>3, <3>2, <4>1, AskedType
      <4>3. QED
        BY <4>1, <4>2
    <3>4. QED
      BY <1>1, <2>1, <2>4, <2>5, <3>1, <3>2, <3>3 DEF MemoryInv
  <2>7. CASE ~(begin + size < Count)
    <3>1. pc' = "report" /\ pc' \notin ChunkSteps
      BY <2>1, <2>7 DEF ChunkSteps, Buffers
    <3>2. \A from \in Starts(request, size) : from < begin + size
      BY <2>3, <2>7 DEF Starts
    <3>3. Fits(capacity, request, size)
      BY <2>5, <3>2 DEF Fits
    <3>4. QED
      BY <1>1, <2>1, <2>4, <3>1, <3>3 DEF MemoryInv
  <2>8. QED
    BY <2>6, <2>7
<1>11. CASE Report \/ Stopped \/ UNCHANGED vars
  <2>1. UNCHANGED <<request, history, attempt, size, begin, capacity, pc>>
    BY <1>11 DEF Report, Stopped, vars, callVars, attemptVars, chunkVars
  <2>2. Reserved' = Reserved
    BY <2>1 DEF Reserved
  <2>3. AttemptInv' <=> AttemptInv
    BY <2>1 DEF AttemptInv
  <2>4. QED
    BY <1>1, <2>1, <2>2, <2>3 DEF MemoryInv
<1>12. CASE Return
  <2>1. /\ pc = "report" /\ pc' = "returned" /\ capacity' = capacity
        /\ history' = IF attempt = 3 THEN history ELSE history \cup {<<request, size>>}
    BY <1>12 DEF Return, Decides
  <2>2. request \in Requests /\ AttemptInv /\ Fits(capacity, request, size) /\ size \in Nat
    BY <2>1 DEF TypeInv, MemoryInv
  <2>3. attempt # 3 => Decided(capacity, request, size)
    BY <2>2 DEF Decided, AttemptInv
  <2>4. QED
    BY <1>1, <2>1, <2>2, <2>3 DEF MemoryInv, ChunkSteps, Buffers
<1>13. ASSUME NEW b \in Buffers, Reserve(b)
       PROVE  MemoryInv'
  BY <1>4, <1>7, <1>13, CapacityStep
<1>14. QED
  BY <1>2, <1>3, <1>8, <1>9, <1>10, <1>11, <1>12, <1>13 DEF Next, Processor

LEMMA MemoryHolds == Spec => [](TypeInv /\ MemoryInv)
<1>1. TypeInv /\ MemoryInv /\ [Next]_vars => TypeInv' /\ MemoryInv'
  BY CudaTypes, MemoryStep
<1>2. QED
  BY CudaInit, <1>1, PTL DEF Spec

(* A request that is made again gets the effective batch size it got       *)
(* before, or fails again, whatever other requests come in between.        *)
THEOREM EffectiveSizeIsStable == Spec => []EffectiveSizeStable
<1>1. TypeInv /\ MemoryInv => EffectiveSizeStable
  BY DecidedOnce DEF TypeInv, MemoryInv, EffectiveSizeStable
<1>2. QED
  BY MemoryHolds, <1>1, PTL

-----------------------------------------------------------------------------
(* Outputs and progress.                                                   *)

Identity(n) == [i \in 1 .. n |-> i]

(* Where the images of the chunk are at each step.                         *)
DataInv ==
  /\ DOMAIN host.input = DOMAIN host.descriptors
  /\ pc \in {"input", "descriptors", "output", "upload"} =>
       /\ host.input = [i \in 1 .. ChunkSize |-> begin + i]
       /\ host.descriptors = Identity(ChunkSize)
  /\ pc = "kernel" =>
       \A i \in 1 .. ChunkSize : device.input[i] = begin + i /\ device.descriptors[i] = i
  /\ pc = "download" => \A i \in 1 .. ChunkSize : device.output[i] = begin + i
  /\ outputs \in Seq(Nat)
  /\ pc \in ChunkSteps => outputs = Identity(begin)
  /\ pc = "report" \/ outcome = "succeeded" => outputs = Identity(Count)

Rising(s) == \A i, j \in 1 .. Len(s) : i < j => s[i] < s[j]

(* Progress is buffered until the last chunk is done, then reported in     *)
(* order.                                                                  *)
ProgressInv ==
  /\ buffered \in Seq(Nat) /\ reported \in Seq(Nat)
  /\ pc \notin {"report", "returned"} => reported = <<>>
  /\ pc \in ChunkSteps => \A i \in 1 .. Len(buffered) : buffered[i] \in 1 .. begin
  /\ pc \in ChunkSteps \cup {"report"} => Rising(buffered)
  /\ pc = "report" =>
       /\ Len(buffered) > 0 /\ buffered[Len(buffered)] = Count
       /\ \A i \in 1 .. Len(buffered) : buffered[i] \in 1 .. Count
       /\ Len(reported) <= Len(buffered)
       /\ \A i \in 1 .. Len(reported) : reported[i] = buffered[i]

-----------------------------------------------------------------------------
(* Sequences.                                                              *)

(* The elements of two sequences put together.                             *)
LEMMA ConcatElements ==
  ASSUME NEW a \in Seq(Nat), NEW s \in Seq(Nat)
  PROVE  /\ Len(a \o s) = Len(a) + Len(s) /\ a \o s \in Seq(Nat)
         /\ \A i \in 1 .. Len(a) + Len(s) :
              (a \o s)[i] = (IF i <= Len(a) THEN a[i] ELSE s[i - Len(a)])
BY ConcatProperties

(* The images of the next chunk continue those of the chunks before it.    *)
LEMMA IdentityContinues ==
  ASSUME NEW m \in Nat, NEW n \in Nat
  PROVE  /\ Identity(m) \o [i \in 1 .. n |-> m + i] = Identity(m + n)
         /\ Identity(m + n) \in Seq(Nat)
<1> DEFINE a == Identity(m)
<1> DEFINE s == [i \in 1 .. n |-> m + i]
<1> DEFINE b == Identity(m + n)
<1>1. a \in Seq(Nat) /\ Len(a) = m /\ \A i \in 1 .. m : a[i] = i
  BY DEF Identity
<1>2. s \in Seq(Nat) /\ Len(s) = n /\ \A i \in 1 .. n : s[i] = m + i
  OBVIOUS
<1>3. b \in Seq(Nat) /\ Len(b) = m + n /\ \A i \in 1 .. m + n : b[i] = i
  BY DEF Identity
<1> HIDE DEF a, b, s
<1>4. Len(a \o s) = m + n /\ a \o s \in Seq(Nat)
      /\ \A i \in 1 .. m + n : (a \o s)[i] = (IF i <= m THEN a[i] ELSE s[i - m])
  BY <1>1, <1>2, ConcatElements
<1>5. ASSUME NEW i \in 1 .. m + n
      PROVE  (a \o s)[i] = b[i]
  <2>1. CASE i <= m
    <3>1. i \in 1 .. m
      BY <2>1
    <3>2. QED
      BY <1>1, <1>3, <1>4, <2>1, <3>1
  <2>2. CASE ~(i <= m)
    <3>1. i - m \in 1 .. n /\ m + (i - m) = i
      BY <2>2
    <3>2. s[i - m] = i
      BY <1>2, <3>1
    <3>3. QED
      BY <1>3, <1>4, <2>2, <3>2
  <2>3. QED
    BY <2>1, <2>2
<1>6. a \o s = b
  BY <1>3, <1>4, <1>5, SeqEqual
<1>7. QED
  BY <1>3, <1>6 DEF a, b, s

(* Appending to a sequence of numbers.                                     *)
LEMMA AppendType ==
  ASSUME NEW s \in Seq(Nat), NEW x \in Nat, NEW t, t = Append(s, x)
  PROVE  /\ t \in Seq(Nat) /\ Len(t) = Len(s) + 1 /\ Len(s) \in Nat
         /\ t[Len(s) + 1] = x /\ \A i \in 1 .. Len(s) : t[i] = s[i] /\ s[i] \in Nat
OBVIOUS

(* A count above all the others may follow them.                           *)
LEMMA RisingAppend ==
  ASSUME NEW s \in Seq(Nat), NEW x \in Nat, NEW m \in Nat, Rising(s), m < x,
         \A i \in 1 .. Len(s) : s[i] \in 1 .. m, NEW t, t = Append(s, x)
  PROVE  Rising(t) /\ \A i \in 1 .. Len(t) : t[i] \in 1 .. x
<1>1. /\ Len(t) = Len(s) + 1 /\ Len(s) \in Nat /\ t[Len(s) + 1] = x
      /\ \A i \in 1 .. Len(s) : t[i] = s[i] /\ s[i] \in Nat
  BY AppendType
<1>2. \A i \in 1 .. Len(t) : i = Len(s) + 1 \/ i \in 1 .. Len(s)
  BY <1>1
<1>3. ASSUME NEW i \in 1 .. Len(t)
      PROVE  t[i] \in 1 .. x
  BY <1>1, <1>2
<1>4. ASSUME NEW i \in 1 .. Len(t), NEW j \in 1 .. Len(t), i < j
      PROVE  t[i] < t[j]
  <2>1. i \in 1 .. Len(s)
    BY <1>1, <1>4
  <2>2. CASE j = Len(s) + 1
    BY <1>1, <2>1, <2>2
  <2>3. CASE j \in 1 .. Len(s)
    BY <1>1, <1>4, <2>1, <2>3 DEF Rising
  <2>4. QED
    BY <1>2, <2>2, <2>3
<1>5. QED
  BY <1>3, <1>4 DEF Rising

-----------------------------------------------------------------------------
(* The outputs.                                                            *)

LEMMA DataInit == Init => DataInv /\ ProgressInv
<1> SUFFICES ASSUME Init PROVE DataInv /\ ProgressInv
  OBVIOUS
<1>1. <<>> \in Seq(Nat)
  OBVIOUS
<1>2. QED
  BY <1>1 DEF Init, DataInv, ProgressInv, ChunkSteps, Buffers, Empty, Rising

LEMMA EmptyIdentity == Identity(0) = <<>> /\ <<>> \in Seq(Nat)
<1>1. Identity(0) \in Seq(Nat) /\ Len(Identity(0)) = 0
  BY DEF Identity
<1>2. QED
  BY <1>1

LEMMA DataStep ==
  ASSUME TypeInv, MemoryInv, DataInv, [Next]_vars
  PROVE  DataInv'
<1> USE DEF ChunkSteps, Buffers
<1>1. CASE Call \/ Reject \/ OtherFailure
  <2>1. pc' \in {"check", "returned"} /\ outcome' # "succeeded" /\ UNCHANGED <<host, outputs>>
    BY <1>1 DEF Call, Reject, OtherFailure, Fail, chunkVars
  <2>2. QED
    BY <2>1 DEF DataInv
<1>2. ASSUME begin' = 0, outputs' = <<>>, pc' = "color", host' = host, outcome' = outcome,
             outcome = "running"
      PROVE  DataInv'
  BY <1>2, EmptyIdentity DEF DataInv
<1>3. CASE Accept
  BY <1>2, <1>3 DEF Accept, StartAttempt, FreshOutputs, TypeInv
<1>4. CASE OtherAllocationFailure
  BY <1>2, <1>4, OtherRetry DEF TypeInv
<1>5. ASSUME NEW b \in Buffers, Reserve(b)
      PROVE  DataInv'
  <2>1. Granted(b) \/ Retried(b) \/ Refuse(b)
    BY <1>5, CapacityStep
  <2>2. CASE Granted(b)
    <3>1. /\ pc = b /\ pc' = After(b)
          /\ UNCHANGED <<request, size, begin, host, device, outputs, outcome>>
      BY <2>2 DEF Granted
    <3>2. ChunkSize' = ChunkSize
      BY <3>1 DEF ChunkSize, Count
    <3>3. outcome = "running" /\ pc' \in {"alpha", "pack", "descriptors", "output", "upload"}
      BY <3>1 DEF TypeInv, After
    <3>4. pc' \in {"descriptors", "output", "upload"} => pc \in {"input", "descriptors", "output"}
      BY <3>1 DEF After
    <3>5. QED
      BY <3>1, <3>2, <3>3, <3>4 DEF DataInv
  <2>3. CASE Retried(b)
    BY <1>2, <2>3 DEF Retried, Denied, TypeInv
  <2>4. CASE Refuse(b)
    BY <2>4 DEF Refuse, Denied, DataInv
  <2>5. QED
    BY <2>1, <2>2, <2>3, <2>4
<1>6. CASE Pack
  <2>1. /\ pc = "pack" /\ pc' = "input" /\ UNCHANGED <<request, size, begin, outputs, outcome>>
        /\ host' = [input |-> [i \in 1 .. ChunkSize |-> begin + i],
                    descriptors |-> [i \in 1 .. ChunkSize |-> [j \in 1 .. ChunkSize |-> j][i]]]
    BY <1>6 DEF Pack, Packed, callVars, attemptVars
  <2>2. ChunkSize' = ChunkSize
    BY <2>1 DEF ChunkSize, Count
  <2>3. /\ host'.input = [i \in 1 .. ChunkSize |-> begin + i]
        /\ host'.descriptors = Identity(ChunkSize)
    BY <2>1 DEF Identity
  <2>4. DOMAIN host'.input = DOMAIN host'.descriptors
    BY <2>3 DEF Identity
  <2>5. QED
    BY <2>1, <2>2, <2>3, <2>4 DEF DataInv, TypeInv
<1>7. CASE Upload
  <2>1. /\ pc = "upload" /\ pc' = "kernel"
        /\ UNCHANGED <<request, size, begin, host, outputs, outcome>>
        /\ device' = [device EXCEPT !.input = Overwrite(device.input, host.input),
                                    !.descriptors = Overwrite(device.descriptors, host.descriptors)]
    BY <1>7 DEF Upload, callVars, attemptVars
  <2>2. ChunkSize' = ChunkSize
    BY <2>1 DEF ChunkSize, Count
  <2>3. /\ device'.input = Overwrite(device.input, host.input)
        /\ device'.descriptors = Overwrite(device.descriptors, host.descriptors)
    BY <2>1 DEF TypeInv, Record
  <2>4. /\ host.input = [i \in 1 .. ChunkSize |-> begin + i]
        /\ host.descriptors = Identity(ChunkSize)
    BY <2>1 DEF DataInv
  <2>5. \A i \in 1 .. ChunkSize : device'.input[i] = begin + i /\ device'.descriptors[i] = i
    BY <2>3, <2>4 DEF Overwrite, Identity
  <2>6. QED
    BY <2>1, <2>2, <2>5 DEF DataInv, TypeInv
<1>8. CASE Kernel
  <2>1. /\ pc = "kernel" /\ pc' = "download"
        /\ UNCHANGED <<request, size, begin, host, outputs, outcome>>
        /\ device' = [device EXCEPT !.output = Overwrite(device.output,
             [i \in 1 .. ChunkSize |-> device.input[device.descriptors[i]]])]
    BY <1>8 DEF Kernel, callVars, attemptVars
  <2>2. ChunkSize' = ChunkSize
    BY <2>1 DEF ChunkSize, Count
  <2>3. device'.output =
          Overwrite(device.output, [i \in 1 .. ChunkSize |-> device.input[device.descriptors[i]]])
    BY <2>1 DEF TypeInv, Record
  <2>4. \A i \in 1 .. ChunkSize : device'.output[i] = device.input[device.descriptors[i]]
    BY <2>3 DEF Overwrite
  <2>5. \A i \in 1 .. ChunkSize : device'.output[i] = begin + i
    BY <2>1, <2>4 DEF DataInv
  <2>6. QED
    BY <2>1, <2>2, <2>5 DEF DataInv, TypeInv
<1>9. CASE Download
  <2>1. /\ pc = "download" /\ begin' = begin + size
        /\ UNCHANGED <<request, size, host, outcome>>
        /\ outputs' = outputs \o [i \in 1 .. ChunkSize |-> device.output[i]]
        /\ pc' = IF begin + size < Count THEN "pack" ELSE "report"
    BY <1>9 DEF Download, callVars, attemptVars
  <2>2. /\ ChunkSize \in Nat /\ begin \in Nat /\ Count \in Nat
        /\ begin + size < Count => ChunkSize = size
        /\ begin + size >= Count => begin + ChunkSize = Count
        /\ size \in Nat
    BY <2>1, ChunkType DEF TypeInv
  <2>3. [i \in 1 .. ChunkSize |-> device.output[i]] = [i \in 1 .. ChunkSize |-> begin + i]
    BY <2>1 DEF DataInv
  <2>4. outputs' = Identity(begin + ChunkSize) /\ outputs' \in Seq(Nat)
    <3>1. outputs = Identity(begin)
      BY <2>1 DEF DataInv
    <3>2. outputs' = Identity(begin) \o [i \in 1 .. ChunkSize |-> begin + i]
      BY <2>1, <2>3, <3>1
    <3>3. Identity(begin) \o [i \in 1 .. ChunkSize |-> begin + i] = Identity(begin + ChunkSize)
          /\ Identity(begin + ChunkSize) \in Seq(Nat)
      <4> DEFINE n == ChunkSize
      <4>1. n \in Nat /\ begin \in Nat
        BY <2>2
      <4> HIDE DEF n
      <4>2. Identity(begin) \o [i \in 1 .. n |-> begin + i] = Identity(begin + n)
            /\ Identity(begin + n) \in Seq(Nat)
        BY <4>1, IdentityContinues
      <4>3. QED
        BY <4>2 DEF n
    <3>4. QED
      BY <3>2, <3>3
  <2>5. outcome' = "running" /\ Count' = Count
    BY <2>1 DEF TypeInv, Count
  <2>6. CASE begin + size < Count
    <3>1. outputs' = Identity(begin') /\ pc' = "pack"
      BY <2>1, <2>2, <2>4, <2>6
    <3>2. QED
      BY <2>1, <2>4, <2>5, <3>1 DEF DataInv
  <2>7. CASE ~(begin + size < Count)
    <3>1. outputs' = Identity(Count) /\ pc' = "report"
      <4>1. begin + ChunkSize = Count
        BY <2>2, <2>7
      <4>2. QED
        BY <2>1, <2>4, <2>7, <4>1
    <3>2. QED
      BY <2>1, <2>4, <2>5, <3>1 DEF DataInv
  <2>8. QED
    BY <2>6, <2>7
<1>10. CASE Report \/ Return
  BY <1>10 DEF Report, Return, callVars, attemptVars, chunkVars, DataInv, TypeInv, Count
<1>11. CASE Stopped \/ UNCHANGED vars
  <2>1. UNCHANGED <<pc, outcome, request, size, begin, host, device, outputs>>
    BY <1>11 DEF Stopped, vars, callVars, attemptVars, chunkVars
  <2>2. ChunkSize' = ChunkSize /\ Count' = Count
    BY <2>1 DEF ChunkSize, Count
  <2>3. QED
    BY <2>1, <2>2 DEF DataInv
<1>12. QED
  BY <1>1, <1>3, <1>4, <1>5, <1>6, <1>7, <1>8, <1>9, <1>10, <1>11 DEF Next, Processor

-----------------------------------------------------------------------------
(* Progress.                                                               *)

LEMMA ProgressStep ==
  ASSUME TypeInv, MemoryInv, ProgressInv, [Next]_vars
  PROVE  ProgressInv'
<1> USE DEF ChunkSteps, Buffers
<1>1. <<>> \in Seq(Nat) /\ Len(<<>>) = 0 /\ Rising(<<>>)
  BY DEF Rising
<1>2. CASE Call
  BY <1>1, <1>2 DEF Call, chunkVars, ProgressInv
<1>3. CASE Reject \/ OtherFailure
  BY <1>3 DEF Reject, OtherFailure, Fail, chunkVars, ProgressInv
<1>4. ASSUME pc \notin {"report", "returned"}, pc' = "color", buffered' = <<>>, reported' = reported
      PROVE  ProgressInv'
  BY <1>1, <1>4 DEF ProgressInv
<1>5. CASE Accept
  BY <1>4, <1>5 DEF Accept, StartAttempt
<1>6. CASE OtherAllocationFailure
  BY <1>4, <1>6, OtherRetry
<1>7. ASSUME pc \in ChunkSteps, pc' \in ChunkSteps, UNCHANGED <<begin, buffered, reported>>
      PROVE  ProgressInv'
  BY <1>7 DEF ProgressInv
<1>8. ASSUME NEW b \in Buffers, Reserve(b)
      PROVE  ProgressInv'
  <2>1. Granted(b) \/ Retried(b) \/ Refuse(b)
    BY <1>8, CapacityStep
  <2>2. CASE Granted(b)
    BY <1>7, <1>8, <2>2 DEF Granted, After
  <2>3. CASE Retried(b)
    BY <1>4, <1>8, <2>3 DEF Retried, Denied
  <2>4. CASE Refuse(b)
    BY <2>4 DEF Refuse, Denied, ProgressInv
  <2>5. QED
    BY <2>1, <2>2, <2>3, <2>4
<1>9. CASE Pack \/ Upload \/ Kernel
  BY <1>7, <1>9 DEF Pack, Upload, Kernel
<1>10. CASE Download
  <2>1. /\ pc = "download" /\ begin' = begin + size
        /\ buffered' = Append(buffered, begin + ChunkSize)
        /\ pc' = IF begin + size < Count THEN "pack" ELSE "report"
        /\ UNCHANGED <<request, size, reported>>
    BY <1>10 DEF Download, NotReported, callVars, attemptVars
  <2>2. size \in Nat /\ size > 0 /\ begin \in Nat
    BY <2>1 DEF TypeInv, MemoryInv, AttemptInv
  <2>3. /\ ChunkSize \in Nat /\ ChunkSize > 0 /\ Count \in Nat
        /\ begin + size < Count => ChunkSize = size
        /\ begin + size >= Count => begin + ChunkSize = Count
    BY <2>1, <2>2, ChunkType
  <2>4. /\ buffered \in Seq(Nat) /\ Rising(buffered) /\ reported = <<>>
        /\ \A i \in 1 .. Len(buffered) : buffered[i] \in 1 .. begin
    BY <2>1 DEF ProgressInv
  <2>5. begin + ChunkSize \in Nat /\ begin < begin + ChunkSize
    BY <2>2, <2>3
  <2>6. /\ buffered' \in Seq(Nat) /\ Len(buffered') > 0
        /\ buffered'[Len(buffered')] = begin + ChunkSize
    BY <2>1, <2>4, <2>5, AppendType
  <2>7. Rising(buffered') /\ \A i \in 1 .. Len(buffered') : buffered'[i] \in 1 .. begin + ChunkSize
    BY <2>1, <2>2, <2>4, <2>5, RisingAppend
  <2>8. CASE begin + size < Count
    <3>1. pc' = "pack" /\ begin' = begin + ChunkSize
      BY <2>1, <2>3, <2>8
    <3>2. QED
      BY <2>1, <2>4, <2>6, <2>7, <3>1 DEF ProgressInv
  <2>9. CASE ~(begin + size < Count)
    <3>1. begin + ChunkSize = Count
      BY <2>2, <2>3, <2>9
    <3>2. pc' = "report" /\ Count' = Count
      BY <2>1, <2>9 DEF Count
    <3>3. Len(reported') <= Len(buffered') /\ \A i \in 1 .. Len(reported') : FALSE
      BY <1>1, <2>1, <2>4, <2>6
    <3>4. reported' \in Seq(Nat)
      BY <1>1, <2>1, <2>4
    <3>5. QED
      BY <2>6, <2>7, <3>1, <3>2, <3>3, <3>4 DEF ProgressInv
  <2>10. QED
    BY <2>8, <2>9
<1>11. CASE Report
  <2>1. /\ pc = "report" /\ Len(reported) < Len(buffered)
        /\ reported' = Append(reported, buffered[Len(reported) + 1])
        /\ UNCHANGED <<request, buffered, pc>>
    BY <1>11 DEF Report, callVars, chunkVars
  <2>2. /\ buffered \in Seq(Nat) /\ reported \in Seq(Nat) /\ Rising(buffered)
        /\ \A i \in 1 .. Len(reported) : reported[i] = buffered[i]
    BY <2>1 DEF ProgressInv
  <2>3. Len(reported) \in Nat /\ Len(buffered) \in Nat /\ buffered[Len(reported) + 1] \in Nat
    BY <2>1, <2>2
  <2>4. /\ reported' \in Seq(Nat) /\ Len(reported') = Len(reported) + 1
        /\ reported'[Len(reported) + 1] = buffered[Len(reported) + 1]
        /\ \A i \in 1 .. Len(reported) : reported'[i] = reported[i]
    BY <2>1, <2>2, <2>3, AppendType
  <2>5. \A i \in 1 .. Len(reported') : reported'[i] = buffered[i]
    <3>1. \A i \in 1 .. Len(reported') : i = Len(reported) + 1 \/ i \in 1 .. Len(reported)
      BY <2>3, <2>4
    <3>2. QED
      BY <2>2, <2>4, <3>1
  <2>6. Len(reported') <= Len(buffered)
    BY <2>1, <2>3, <2>4
  <2>7. Count' = Count
    BY <2>1 DEF Count
  <2>8. QED
    BY <2>1, <2>4, <2>5, <2>6, <2>7 DEF ProgressInv
<1>12. CASE Return
  BY <1>12 DEF Return, chunkVars, ProgressInv
<1>13. CASE Stopped \/ UNCHANGED vars
  <2>1. UNCHANGED <<pc, request, begin, buffered, reported>>
    BY <1>13 DEF Stopped, vars, callVars, chunkVars
  <2>2. Count' = Count
    BY <2>1 DEF Count
  <2>3. QED
    BY <2>1, <2>2 DEF ProgressInv
<1>14. QED
  BY <1>2, <1>3, <1>5, <1>6, <1>8, <1>9, <1>10, <1>11, <1>12, <1>13 DEF Next, Processor

CudaInv == TypeInv /\ MemoryInv /\ DataInv /\ ProgressInv

LEMMA CudaInvHolds == Spec => []CudaInv
<1>1. Init => CudaInv
  BY CudaInit, DataInit DEF CudaInv
<1>2. CudaInv /\ [Next]_vars => CudaInv'
  BY CudaTypes, MemoryStep, DataStep, ProgressStep DEF CudaInv
<1>3. QED
  BY <1>1, <1>2, PTL DEF Spec

-----------------------------------------------------------------------------
(* Theorems.                                                               *)

(* The buffers never take more than the device has, chunks are not empty   *)
(* and the variables have their types.                                     *)
THEOREM CudaTypeCorrect == Spec => []TypeOK
<1>1. CudaInv => TypeOK
  <2> SUFFICES ASSUME CudaInv PROVE TypeOK
    OBVIOUS
  <2>1. capacity \in Capacities /\ Allocated <= DeviceMemory
    BY DEF CudaInv, TypeInv
  <2>2. \A b \in Buffers : capacity[b] \in 0 .. DeviceMemory
    BY <2>1, SizesAssumption DEF Allocated, Capacities, Buffers
  <2>3. capacity \in [Buffers -> 0 .. DeviceMemory]
    BY <2>1, <2>2 DEF Capacities
  <2>4. \A S \in {outputs, buffered, reported} : S \in Seq(Nat)
    BY DEF CudaInv, DataInv, ProgressInv
  <2>5. QED
    BY <2>1, <2>3, <2>4 DEF CudaInv, TypeInv, DataInv, TypeOK
<1>2. QED
  BY CudaInvHolds, <1>1, PTL

(* A batch that succeeds returns the outputs of its own images.            *)
THEOREM OutputsAreOfOwnImages == Spec => []OutputsOfOwnImages
<1>1. CudaInv => OutputsOfOwnImages
  BY DEF CudaInv, DataInv, OutputsOfOwnImages, Identity
<1>2. QED
  BY CudaInvHolds, <1>1, PTL

-----------------------------------------------------------------------------
(* The processor keeps the promise of Batch.                               *)

Done == IF pc = "report" \/ outcome = "succeeded" THEN 1 .. Count ELSE {}

LEMMA PromiseVars == Promise!vars = <<Count, Done, reported, outcome>>
BY DEF Promise!vars, Done

LEMMA PromiseStep ==
  ASSUME CudaInv, [Next]_vars
  PROVE  [Promise!Next]_(Promise!vars)
<1> USE DEF ChunkSteps, Buffers
<1>1. TypeInv /\ ProgressInv /\ (outcome = "running" <=> pc # "returned")
  BY DEF CudaInv, TypeInv
<1>2. CASE Call
  <2>1. /\ outcome # "running" /\ outcome' = "running" /\ request' \in Requests
        /\ pc' = "check" /\ reported' = <<>>
    BY <1>2 DEF Call
  <2>2. Count' \in Nat
    BY <2>1, RequestType DEF Count
  <2>3. Done' = {}
    BY <2>1 DEF Done
  <2>4. Promise!Begin
    BY <2>1, <2>2, <2>3 DEF Promise!Begin, Done
  <2>5. QED
    BY <2>4 DEF Promise!Next
<1>3. ASSUME outcome = "running", pc # "report", outcome' = "failed", pc' = "returned",
             UNCHANGED <<request, reported>>
      PROVE  Promise!Next
  <2>1. reported = <<>> /\ Done = {} /\ Done' = {} /\ Count' = Count
    BY <1>1, <1>3 DEF ProgressInv, Done, Count
  <2>2. Promise!Fail
    BY <1>3, <2>1 DEF Promise!Fail, Done
  <2>3. QED
    BY <2>2 DEF Promise!Next
<1>4. CASE Reject \/ OtherFailure
  BY <1>1, <1>3, <1>4 DEF Reject, OtherFailure, Fail, callVars
<1>5. ASSUME pc # "report", pc' # "report", outcome = "running", UNCHANGED <<request, reported, outcome>>
      PROVE  UNCHANGED Promise!vars
  BY <1>5, PromiseVars DEF Promise!vars, Count
<1>6. CASE Accept
  BY <1>1, <1>5, <1>6 DEF Accept, StartAttempt, callVars
<1>7. CASE OtherAllocationFailure
  BY <1>1, <1>5, <1>7, OtherRetry DEF TypeInv
<1>8. ASSUME NEW b \in Buffers, Reserve(b)
      PROVE  [Promise!Next]_(Promise!vars)
  <2>1. Granted(b) \/ Retried(b) \/ Refuse(b)
    BY <1>8, CapacityStep DEF CudaInv
  <2>2. CASE Granted(b)
    BY <1>1, <1>5, <1>8, <2>2 DEF Granted, After
  <2>3. CASE Retried(b)
    BY <1>1, <1>5, <1>8, <2>3 DEF Retried, Denied
  <2>4. CASE Refuse(b)
    BY <1>1, <1>3, <1>8, <2>4 DEF Refuse, Denied
  <2>5. QED
    BY <2>1, <2>2, <2>3, <2>4
<1>9. CASE Pack \/ Upload \/ Kernel
  BY <1>1, <1>5, <1>9 DEF Pack, Upload, Kernel, callVars
<1>10. CASE Download
  <2>1. pc = "download" /\ outcome = "running" /\ UNCHANGED <<request, reported, outcome>>
    BY <1>1, <1>10 DEF Download, callVars, NotReported
  <2>2. Done = {} /\ Count' = Count /\ Done' \subseteq 1 .. Count
    BY <2>1 DEF Done, Count
  <2>3. Promise!Process
    BY <2>1, <2>2 DEF Promise!Process, Done
  <2>4. QED
    BY <2>3 DEF Promise!Next
<1>11. CASE Report
  <2>1. /\ pc = "report" /\ outcome = "running" /\ Len(reported) < Len(buffered)
        /\ reported' = Append(reported, buffered[Len(reported) + 1])
        /\ UNCHANGED <<request, outcome, pc>>
    BY <1>1, <1>11 DEF Report, callVars
  <2>2. /\ buffered \in Seq(Nat) /\ reported \in Seq(Nat) /\ Rising(buffered)
        /\ \A i \in 1 .. Len(reported) : reported[i] = buffered[i]
        /\ \A i \in 1 .. Len(buffered) : buffered[i] \in 1 .. Count
    BY <1>1, <2>1 DEF ProgressInv
  <2>3. Len(reported) \in Nat /\ Len(reported) + 1 \in 1 .. Len(buffered) /\ Count \in Nat
    BY <1>1, <2>1, <2>2 DEF TypeInv
  <2>4. Promise!LastReport < buffered[Len(reported) + 1] /\ Promise!LastReport \in Nat
    <3>1. CASE reported = <<>>
      BY <2>2, <2>3, <3>1 DEF Promise!LastReport
    <3>2. CASE reported # <<>>
      <4>1. Len(reported) \in 1 .. Len(reported) /\ Len(reported) \in 1 .. Len(buffered)
        BY <2>2, <2>3, <3>2
      <4>2. Promise!LastReport = buffered[Len(reported)]
        BY <2>2, <3>2, <4>1 DEF Promise!LastReport
      <4>3. buffered[Len(reported)] < buffered[Len(reported) + 1]
        BY <2>2, <2>3, <4>1 DEF Rising
      <4>4. QED
        BY <2>2, <4>1, <4>2, <4>3, SMTT(30)
    <3>3. QED
      BY <3>1, <3>2
  <2>5. Cardinality(1 .. Count) = Count
    BY <2>3, FS_Interval
  <2>6. buffered[Len(reported) + 1] \in Promise!LastReport + 1 .. Cardinality(Done)
    <3>1. Done = 1 .. Count
      BY <2>1 DEF Done
    <3>2. buffered[Len(reported) + 1] \in 1 .. Count
      BY <2>2, <2>3
    <3>3. QED
      BY <2>3, <2>4, <2>5, <3>1, <3>2
  <2>7. Done' = Done /\ Count' = Count
    BY <2>1 DEF Done, Count
  <2>8. Promise!Report
    <3>1. \E n \in Promise!LastReport + 1 .. Cardinality(Done) : reported' = Append(reported, n)
      BY <2>1, <2>6
    <3>2. UNCHANGED <<Count, Done, outcome>>
      BY <2>1, <2>7
    <3>3. \A S : Promise!Cardinality(S) = Cardinality(S)
      BY DEF Promise!Cardinality, Cardinality
    <3>4. QED
      BY <2>1, <3>1, <3>2, <3>3 DEF Promise!Report, Promise!LastReport, Done
  <2>9. QED
    BY <2>8 DEF Promise!Next
<1>12. CASE Return
  <2>1. /\ pc = "report" /\ outcome = "running" /\ outcome' = "succeeded"
        /\ Len(reported) = Len(buffered) /\ UNCHANGED <<request, reported>>
    BY <1>1, <1>12 DEF Return
  <2>2. /\ reported \in Seq(Nat) /\ Len(buffered) > 0 /\ buffered[Len(buffered)] = Count
        /\ \A i \in 1 .. Len(reported) : reported[i] = buffered[i]
    BY <1>1, <2>1 DEF ProgressInv
  <2>3. Promise!LastReport = Count
    <3>1. reported # <<>> /\ Len(reported) \in 1 .. Len(reported)
      BY <2>1, <2>2
    <3>2. QED
      BY <2>1, <2>2, <3>1 DEF Promise!LastReport
  <2>4. Done = 1 .. Count /\ Done' = 1 .. Count /\ Count' = Count
    BY <2>1 DEF Done, Count
  <2>5. Promise!Succeed
    BY <2>1, <2>3, <2>4 DEF Promise!Succeed, Done
  <2>6. QED
    BY <2>5 DEF Promise!Next
<1>13. CASE Stopped \/ UNCHANGED vars
  <2>1. UNCHANGED <<pc, outcome, request, reported>>
    BY <1>13 DEF Stopped, vars, callVars
  <2>2. Done' = Done /\ Count' = Count
    BY <2>1 DEF Done, Count
  <2>3. QED
    BY <2>1, <2>2, PromiseVars DEF Promise!vars
<1>14. QED
  BY <1>2, <1>4, <1>6, <1>7, <1>8, <1>9, <1>10, <1>11, <1>12, <1>13 DEF Next, Processor

(* A retried batch is reported once and a failed one not at all: CudaBatch *)
(* implements Batch.                                                       *)
THEOREM CudaImplementsBatch == Spec => ImplementsBatch
<1>1. Init => Promise!Init
  BY DEF Init, Promise!Init, Count
<1>2. CudaInv /\ [Next]_vars => [Promise!Next]_(Promise!vars)
  BY PromiseStep
<1>3. QED
  BY <1>1, <1>2, CudaInvHolds, PTL DEF Spec, ImplementsBatch, Promise!Spec
==============================================================================
