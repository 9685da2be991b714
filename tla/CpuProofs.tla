------------------------------ MODULE CpuProofs ------------------------------
(***************************************************************************)
(* The CPU back ends for any number of images, rows and threads, under any *)
(* schedule: OpenMP leaves the pixels that Sequential leaves, both report  *)
(* each image in one progress sample, and both implement Batch.            *)
(***************************************************************************)
EXTENDS CpuBatch, FiniteSetTheorems, WellFoundedInduction, TLAPS

-----------------------------------------------------------------------------
(* Rows.                                                                   *)

Rows == 1 .. OutputRows
MarkRows == 1 .. MarkHeight

(* An image of which the rows Y are not resized yet, and one of which the  *)
(* rows Y of the watermark are not blended yet.                            *)
ResizedBut(Y) == [y \in Rows |-> IF y \in Y THEN "blank" ELSE "resized"]
MarkedBut(Y) == [y \in Rows |-> IF y - Origin \in MarkRows \ Y THEN "marked" ELSE "resized"]
Blank == [y \in Rows |-> "blank"]

LEMMA SizeFacts ==
  /\ OutputRows \in Nat /\ MarkHeight \in Nat /\ Origin \in Nat
  /\ Origin + MarkHeight <= OutputRows
  /\ MarkRows \subseteq Rows
  /\ \A y \in MarkRows : Origin + y \in Rows
BY RowsAssumption, MarkFits DEF Origin, Rows, MarkRows

(* How an image passes from one loop to the next.                          *)
LEMMA LoopEnds ==
  /\ Blank = ResizedBut(Rows)
  /\ ResizedBut({}) = MarkedBut(MarkRows)
  /\ MarkedBut({}) = Finished
BY DEF Blank, ResizedBut, MarkedBut, Finished, Rows, MarkRows

(* What a step of a loop does to the image.                                *)
LEMMA RowResized ==
  ASSUME NEW Y \in SUBSET Rows, NEW y \in Y
  PROVE  [ResizedBut(Y) EXCEPT ![y] = "resized"] = ResizedBut(Y \ {y})
BY DEF ResizedBut

LEMMA RowMarked ==
  ASSUME NEW Y \in SUBSET MarkRows, NEW y \in Y
  PROVE  /\ MarkedBut(Y)[Origin + y] = "resized"
         /\ [MarkedBut(Y) EXCEPT ![Origin + y] = "marked"] = MarkedBut(Y \ {y})
<1>1. Origin \in Nat /\ y \in Nat /\ y \in MarkRows /\ Origin + y \in Rows
  BY SizeFacts DEF MarkRows
<1>2. (Origin + y) - Origin = y
  BY <1>1
<1>3. MarkedBut(Y)[Origin + y] = "resized"
  BY <1>1, <1>2 DEF MarkedBut
<1>4. ASSUME NEW x \in Rows
      PROVE  [MarkedBut(Y) EXCEPT ![Origin + y] = "marked"][x] = MarkedBut(Y \ {y})[x]
  <2>1. CASE x = Origin + y
    BY <1>1, <1>2, <2>1 DEF MarkedBut
  <2>2. CASE x # Origin + y
    <3>1. x - Origin # y
      BY <1>1, <2>2 DEF Rows
    <3>2. QED
      BY <2>2, <3>1 DEF MarkedBut
  <2>3. QED
    BY <2>1, <2>2
<1>5. QED
  BY <1>3, <1>4 DEF MarkedBut

(* A loop starts with its first row.                                       *)
LEMMA FirstIsMember ==
  ASSUME NEW S \in SUBSET Nat, S # {}
  PROVE  First(S) \in S
<1> DEFINE R == OpToRel(<, Nat)
<1>1. \A x, y \in Nat : x < y => <<x, y>> \in R
  BY DEF OpToRel
<1>2. IsWellFoundedOn(R, Nat)
  BY NatLessThanWellFounded
<1> HIDE DEF R
<1>3. \E x \in S : \A y \in S : ~ (<<y, x>> \in R)
  BY <1>2, WFMin
<1>4. \E x \in S : \A y \in S : x <= y
  <2>1. PICK x \in S : \A y \in S : ~ (<<y, x>> \in R)
    BY <1>3
  <2>2. ASSUME NEW y \in S PROVE x <= y
    <3>1. x \in Nat /\ y \in Nat /\ ~ (y < x)
      BY <1>1, <2>1
    <3>2. QED
      BY <3>1
  <2>3. QED
    BY <2>2
<1>5. QED
  BY <1>4 DEF First

(* schedule(static) gives each of the n iterations to exactly one thread.  *)
LEMMA ShareOfOne ==
  ASSUME NEW n \in Nat, NEW y \in 1 .. n, threads \in Nat \ {0}
  PROVE  /\ \E t \in Team : y \in Share(t, n)
         /\ \A t, u \in Team : y \in Share(t, n) /\ y \in Share(u, n) => t = u
<1> DEFINE q == ((y - 1) * threads) \div n
<1>1. q \in 0 .. threads - 1
  <2>1. (y - 1) * threads \in Nat /\ (y - 1) * threads < n * threads
    <3>1. (y - 1) * threads + threads <= n * threads
      <4>1. PICK d \in Nat : n = (y - 1) + 1 + d
        <5>1. n - y \in Nat /\ n = (y - 1) + 1 + (n - y)
          OBVIOUS
        <5>2. QED
          BY <5>1
      <4>2. n * threads = (y - 1) * threads + threads + d * threads /\ d * threads \in Nat
        BY <4>1
      <4>3. QED
        BY <4>2
    <3>2. QED
      BY <3>1
  <2>2. n \in Nat \ {0}
    OBVIOUS
  <2> DEFINE a == (y - 1) * threads
  <2>3. a \in Nat /\ a < n * threads
    BY <2>1
  <2> HIDE DEF a
  <2>4. a \div n \in Int /\ n * (a \div n) <= a /\ a < n * (a \div n) + n
    BY <2>2, <2>3
  <2> DEFINE r == a \div n
  <2>5. r \in Int /\ n * r <= a /\ a < n * r + n
    BY <2>4
  <2> HIDE DEF r
  <2>6. r >= 0
    <3>1. SUFFICES ASSUME r < 0 PROVE FALSE
      BY <2>5
    <3>2. n * r + n <= 0
      <4>1. PICK e \in Nat : r = -1 - e
        <5>1. -1 - r \in Nat /\ r = -1 - (-1 - r)
          BY <2>5, <3>1
        <5>2. QED
          BY <5>1
      <4>2. n * r = -n - n * e /\ n * e \in Nat
        BY <2>2, <4>1
      <4>3. QED
        BY <2>2, <4>2
    <3>3. QED
      BY <2>2, <2>3, <2>5, <3>2
  <2>7. r < threads
    <3>1. SUFFICES ASSUME r >= threads PROVE FALSE
      BY <2>5
    <3>2. PICK e \in Nat : r = threads + e
      <4>1. r - threads \in Nat /\ r = threads + (r - threads)
        BY <2>5, <3>1
      <4>2. QED
        BY <4>1
    <3>3. n * r = n * threads + n * e /\ n * e \in Nat /\ n * threads \in Nat
      BY <2>2, <3>2
    <3>4. QED
      BY <2>3, <2>5, <3>3
  <2>8. QED
    BY <2>5, <2>6, <2>7 DEF r, a
<1> HIDE DEF q
<1>2. \A t : y \in Share(t, n) <=> q = t - 1
  BY DEF Share, q
<1>3. q + 1 \in Team /\ q = (q + 1) - 1
  BY <1>1 DEF Team
<1>4. \A t \in Team : t \in Nat
  BY DEF Team
<1>5. QED
  BY <1>1, <1>2, <1>3, <1>4

-----------------------------------------------------------------------------
(* Types.                                                                  *)

PcSteps == {"claim", "resize", "mark", "resized", "marked", "record", "report", "joined"}

(* Nothing has happened before the output images exist.                    *)
Fresh ==
  /\ next = 1 /\ samples = <<>> /\ tracker = [owner |-> 0, processed |-> 0, interval |-> {}]
  /\ image = [t \in Threads |-> 0] /\ pc = [t \in Threads |-> "joined"]
  /\ outcome # "succeeded"

(* A thread that is neither at its loop's head nor idle has an image.      *)
Held == \A t \in Threads : pc[t] \notin {"claim", "joined"} => image[t] # 0

TypeInv ==
  /\ TypeOK
  /\ out = <<>> => Fresh
  /\ out # <<>> => total \in Nat \ {0} /\ threads \in Nat \ {0} /\ outcome # "idle"
  /\ total \in Nat /\ threads \in Nat
  /\ Held

LEMMA ThreadFacts ==
  /\ Threads \subseteq Nat /\ Master \in Threads
  /\ TypeInv /\ out # <<>> => Team \subseteq Threads /\ Master \in Team /\ out \in [1 .. total -> [Rows -> RowStates]]
BY CountsAssumption DEF Threads, Team, Master, TypeInv, TypeOK, Rows

LEMMA ShareType ==
  ASSUME NEW t, NEW n \in {OutputRows, MarkHeight}
  PROVE  Share(t, n) \in SUBSET Rows /\ Share(t, n) \in SUBSET (1 .. n)
BY SizeFacts DEF Share, Rows, MarkRows

(* The steps that fork the team.                                           *)
LEMMA ForkType ==
  ASSUME NEW step \in PcSteps, NEW n \in {OutputRows, MarkHeight}, Fork(step, n)
  PROVE  pc' \in [Threads -> PcSteps] /\ todo' \in [Threads -> SUBSET (1 .. OutputRows)]
BY ShareType DEF Fork, PcSteps, Rows

LEMMA NextImageType ==
  ASSUME TypeInv, NEW t \in Threads, NextImage(t)
  PROVE  /\ pc' \in [Threads -> PcSteps] /\ todo' \in [Threads -> SUBSET (1 .. OutputRows)]
         /\ image' \in [Threads -> 0 .. total] /\ Held'
<1>1. /\ Held /\ pc \in [Threads -> PcSteps] /\ todo \in [Threads -> SUBSET (1 .. OutputRows)]
      /\ image \in [Threads -> 0 .. total] /\ total \in Nat
  BY DEF TypeInv, TypeOK, PcSteps
<1>2. CASE ~ByRows
  BY <1>1, <1>2 DEF NextImage, PcSteps, Held
<1>3. CASE ByRows /\ image[t] < total
  <2>1. Fork("resize", OutputRows) /\ image' = [u \in Threads |-> image[t] + 1]
    BY <1>3 DEF NextImage
  <2>2. image[t] + 1 \in 0 .. total /\ image[t] + 1 # 0
    BY <1>1, <1>3
  <2>3. image' \in [Threads -> 0 .. total] /\ Held'
    BY <2>1, <2>2 DEF Held
  <2>4. QED
    BY <2>1, <2>3, ForkType DEF PcSteps
<1>4. CASE ByRows /\ ~(image[t] < total)
  BY <1>1, <1>4 DEF NextImage, PcSteps, Held
<1>5. QED
  BY <1>2, <1>3, <1>4

LEMMA SampleType ==
  ASSUME TypeInv, NEW p \in Nat, NEW d \in Nat, NEW s \in SUBSET (1 .. total)
  PROVE  Append(samples, [processed |-> p, timed |-> s, divisor |-> d]) \in Seq(Sample)
<1>1. total \in 0 .. MaxImages /\ samples \in Seq(Sample)
  BY DEF TypeInv, TypeOK
<1>2. s \in SUBSET (1 .. MaxImages)
  BY <1>1, CountsAssumption
<1>3. [processed |-> p, timed |-> s, divisor |-> d] \in Sample
  BY <1>2 DEF Sample
<1>4. QED
  BY <1>1, <1>3

LEMMA CpuTypesInit == Init => TypeInv
<1> SUFFICES ASSUME Init PROVE TypeInv
  OBVIOUS
<1>1. /\ parallel = FALSE /\ total = 0 /\ threads = 1 /\ outcome = "idle"
      /\ out = <<>> /\ next = 1 /\ samples = <<>>
      /\ pc = [t \in Threads |-> "joined"]
      /\ image = [t \in Threads |-> 0] /\ todo = [t \in Threads |-> {}]
      /\ tracker = [owner |-> 0, processed |-> 0, interval |-> {}]
  BY DEF Init
<1>2. MaxImages \in Nat /\ MaxThreads \in Nat \ {0}
  BY CountsAssumption
<1>3. tracker \in [owner : 0 .. MaxThreads, processed : Nat, interval : SUBSET (1 .. total)]
  BY <1>1, <1>2
<1>4. total \in 0 .. MaxImages /\ threads \in 0 .. MaxThreads /\ next \in 1 .. total + 1
  BY <1>1, <1>2
<1>5. /\ pc \in [Threads -> PcSteps] /\ image \in [Threads -> 0 .. total]
      /\ todo \in [Threads -> SUBSET Rows]
  BY <1>1 DEF PcSteps
<1>6. samples \in Seq(Sample)
  BY <1>1
<1>7. TypeOK
  BY <1>1, <1>3, <1>4, <1>5, <1>6 DEF TypeOK, PcSteps, Rows
<1>8. Held
  BY <1>1 DEF Held
<1>9. QED
  BY <1>1, <1>7, <1>8 DEF TypeInv, Fresh

(* The images of a batch are not the empty list.                           *)
LEMMA NotEmpty ==
  ASSUME NEW n \in Nat \ {0}, NEW S, NEW f \in [1 .. n -> S]
  PROVE  f # <<>>
<1>1. 1 \in DOMAIN f
  OBVIOUS
<1>2. DOMAIN <<>> = 1 .. 0
  OBVIOUS
<1>3. 1 \notin 1 .. 0
  OBVIOUS
<1>4. QED
  BY <1>1, <1>2, <1>3

LEMMA CpuTypes ==
  ASSUME TypeInv, [Next]_vars
  PROVE  TypeInv'
<1> DEFINE TrackerType == [owner : 0 .. MaxThreads, processed : Nat, interval : SUBSET (1 .. total)]
<1>1. /\ parallel \in BOOLEAN /\ total \in 0 .. MaxImages /\ threads \in 0 .. MaxThreads
      /\ outcome \in {"idle", "running", "succeeded", "failed"}
      /\ out = <<>> \/ out \in [1 .. total -> [Rows -> RowStates]]
      /\ pc \in [Threads -> PcSteps] /\ image \in [Threads -> 0 .. total]
      /\ todo \in [Threads -> SUBSET Rows] /\ next \in 1 .. total + 1
      /\ tracker \in TrackerType /\ samples \in Seq(Sample)
      /\ total \in Nat /\ threads \in Nat /\ Held
  BY DEF TypeInv, TypeOK, PcSteps, Rows
<1>2. ASSUME NEW t \in Threads, pc[t] # "joined"
      PROVE  out # <<>>
  BY <1>2 DEF TypeInv, Fresh
<1>3. ASSUME out # <<>>, out' \in [1 .. total -> [Rows -> RowStates]], UNCHANGED <<request, outcome>>,
             pc' \in [Threads -> PcSteps], image' \in [Threads -> 0 .. total],
             todo' \in [Threads -> SUBSET Rows], next' \in 1 .. total + 1,
             tracker' \in TrackerType, samples' \in Seq(Sample), Held'
      PROVE  TypeInv'
  <2>1. total \in Nat \ {0} /\ threads \in Nat \ {0} /\ outcome # "idle"
    BY <1>3 DEF TypeInv
  <2>3. out' # <<>>
    BY <1>3, <2>1, NotEmpty
  <2>4. TypeOK'
    BY <1>1, <1>3 DEF TypeOK, request, PcSteps, Rows
  <2>5. QED
    BY <1>3, <2>1, <2>3, <2>4 DEF TypeInv, request
<1>4. CASE Call
  <2>1. /\ outcome = "idle" /\ outcome' = "running" /\ parallel' \in BOOLEAN
        /\ total' \in 0 .. MaxImages /\ threads' \in 0 .. MaxThreads
        /\ UNCHANGED <<out, image, todo, next, pc, tracker, samples>>
    BY <1>4, CountsAssumption DEF Call, work
  <2>2. out = <<>> /\ Fresh
    BY <2>1 DEF TypeInv
  <2>3. total' \in Nat /\ threads' \in Nat
    BY <2>1, CountsAssumption
  <2>4. image' \in [Threads -> 0 .. total'] /\ next' \in 1 .. total' + 1
    <3>1. image' = [t \in Threads |-> 0] /\ next' = 1
      BY <2>1, <2>2 DEF Fresh
    <3>2. \A n \in Nat : 0 \in 0 .. n /\ 1 \in 1 .. n + 1
      OBVIOUS
    <3>3. QED
      BY <2>3, <3>1, <3>2
  <2>5. tracker' \in [owner : 0 .. MaxThreads, processed : Nat, interval : SUBSET (1 .. total')]
    BY <2>1, <2>2, CountsAssumption DEF Fresh
  <2>6. TypeOK'
    BY <1>1, <2>1, <2>2, <2>4, <2>5 DEF TypeOK, PcSteps, Rows
  <2>7. QED
    BY <1>1, <2>1, <2>2, <2>3, <2>6 DEF TypeInv, Fresh, Held
<1>5. CASE Reject
  <2>1. /\ out = <<>> /\ outcome' = "failed"
        /\ UNCHANGED <<parallel, total, threads, out, image, todo, next, pc, tracker, samples>>
    BY <1>5 DEF Reject, request, work
  <2>2. TypeOK'
    BY <1>1, <2>1 DEF TypeOK, PcSteps, Rows
  <2>3. QED
    BY <1>1, <2>1, <2>2 DEF TypeInv, Fresh, Held
<1>6. CASE Prepare
  <2>1. /\ outcome = "running" /\ total > 0 /\ threads > 0
        /\ out' = [i \in 1 .. total |-> Blank]
        /\ UNCHANGED <<parallel, total, threads, outcome, next, tracker, samples>>
    BY <1>6 DEF Prepare, request, Blank, Rows
  <2>2. out' \in [1 .. total -> [Rows -> RowStates]]
    BY <2>1 DEF Blank, RowStates
  <2>3. /\ pc' \in [Threads -> PcSteps] /\ todo' \in [Threads -> SUBSET Rows]
        /\ image' \in [Threads -> 0 .. total] /\ Held'
    <3>1. CASE ByRows
      <4>1. Fork("resize", OutputRows) /\ image' = [t \in Threads |-> 1]
        BY <1>6, <3>1 DEF Prepare
      <4>2. 1 \in 0 .. total
        BY <1>1, <2>1
      <4>3. image' \in [Threads -> 0 .. total] /\ Held'
        BY <4>1, <4>2 DEF Held
      <4>4. QED
        BY <4>1, <4>3, ForkType DEF PcSteps, Rows
    <3>2. CASE ~ByRows
      BY <1>1, <1>6, <3>2 DEF Prepare, PcSteps, Held
    <3>3. QED
      BY <3>1, <3>2
  <2>4. TypeOK'
    BY <1>1, <2>1, <2>2, <2>3 DEF TypeOK, PcSteps, Rows
  <2>5. total \in Nat \ {0} /\ threads \in Nat \ {0}
    BY <1>1, <2>1
  <2>6. out' # <<>>
    BY <2>2, <2>5, NotEmpty
  <2>7. QED
    BY <2>1, <2>3, <2>4, <2>5, <2>6 DEF TypeInv
<1>7. CASE Synchronize
  <2>1. out # <<>> /\ UNCHANGED <<request, outcome, out, image, next, tracker, samples>>
    BY <1>7 DEF Synchronize
  <2>2. pc' \in [Threads -> PcSteps] /\ todo' \in [Threads -> SUBSET Rows] /\ Held'
    <3> Team \subseteq Threads /\ Master \in Team
      BY <2>1, ThreadFacts
    <3>1. CASE Barrier
      <4>1. \A t \in Team : image[t] # 0
        BY <1>1, <3>1 DEF Barrier, Held
      <4>2. Held'
        BY <2>1, <3>1, <4>1 DEF Barrier, Fork, Held
      <4>3. QED
        BY <3>1, <4>2, ForkType DEF Barrier, PcSteps, Rows
    <3>2. CASE Join
      <4>1. image[Master] # 0
        BY <1>1, <3>2 DEF Join, Held
      <4>2. QED
        BY <1>1, <2>1, <3>2, <4>1 DEF Join, PcSteps, Held
    <3>3. QED
      BY <1>7, <3>1, <3>2 DEF Synchronize
  <2>3. QED
    BY <1>1, <1>3, <2>1, <2>2
<1>8. CASE Return
  <2>1. /\ out # <<>> /\ outcome' = "succeeded"
        /\ UNCHANGED <<parallel, total, threads, out, image, todo, next, pc, tracker, samples>>
    BY <1>8 DEF Return, request, work
  <2>2. TypeOK'
    BY <1>1, <2>1 DEF TypeOK, PcSteps, Rows
  <2>3. QED
    BY <1>1, <2>1, <2>2 DEF TypeInv, Held
<1>9. ASSUME NEW t \in Threads, Claim(t)
      PROVE  TypeInv'
  <2>1. out # <<>> /\ UNCHANGED <<request, outcome, out, tracker, samples>>
    BY <1>2, <1>9 DEF Claim
  <2>2. /\ pc' \in [Threads -> PcSteps] /\ todo' \in [Threads -> SUBSET Rows]
        /\ image' \in [Threads -> 0 .. total] /\ next' \in 1 .. total + 1 /\ Held'
    <3>1. CASE next <= total
      <4>1. /\ image' = [image EXCEPT ![t] = next] /\ next' = next + 1
            /\ pc' = [pc EXCEPT ![t] = "resize"] /\ todo' = [todo EXCEPT ![t] = Rows]
        BY <1>9, <3>1 DEF Claim, Rows
      <4>2. next \in 0 .. total /\ next + 1 \in 1 .. total + 1 /\ next # 0
        BY <1>1, <3>1
      <4>3. QED
        BY <1>1, <4>1, <4>2 DEF PcSteps, Held
    <3>2. CASE ~(next <= total)
      BY <1>1, <1>9, <3>2 DEF Claim, PcSteps, Held
    <3>3. QED
      BY <3>1, <3>2
  <2>3. QED
    BY <1>1, <1>3, <2>1, <2>2
<1>10. ASSUME NEW t \in Threads, ResizeRow(t) \/ MarkRow(t)
       PROVE  TypeInv'
  <2>1. out # <<>> /\ UNCHANGED <<request, outcome, pc, image, next, tracker, samples>>
    BY <1>2, <1>10 DEF ResizeRow, MarkRow
  <2>2. \E y, r, x : /\ out' = [out EXCEPT ![image[t]][x] = r] /\ r \in RowStates
                     /\ todo' = [todo EXCEPT ![t] = todo[t] \ {y}]
    <3>1. CASE ResizeRow(t)
      BY <3>1 DEF ResizeRow, RowStates
    <3>2. CASE MarkRow(t)
      <4>1. \E y, x : /\ out' = [out EXCEPT ![image[t]][x] = IF @ = "resized" THEN "marked" ELSE "spoilt"]
                      /\ todo' = [todo EXCEPT ![t] = todo[t] \ {y}]
        BY <3>2 DEF MarkRow
      <4>2. QED
        BY <4>1 DEF RowStates
    <3>3. QED
      BY <1>10, <3>1, <3>2
  <2>3. out' \in [1 .. total -> [Rows -> RowStates]]
    <3>1. PICK y, r, x : out' = [out EXCEPT ![image[t]][x] = r] /\ r \in RowStates
      BY <2>2
    <3>2. out \in [1 .. total -> [Rows -> RowStates]]
      BY <1>1, <2>1
    <3>3. ASSUME image[t] \in 1 .. total
          PROVE  [out[image[t]] EXCEPT ![x] = r] \in [Rows -> RowStates]
      BY <3>1, <3>2, <3>3
    <3>4. QED
      BY <3>1, <3>2, <3>3
  <2>4. todo' \in [Threads -> SUBSET Rows]
    BY <1>1, <2>2
  <2>5. QED
    BY <1>1, <1>3, <2>1, <2>3, <2>4 DEF Held
<1>11. ASSUME NEW t \in Threads, EndLoop(t)
       PROVE  TypeInv'
  <2>1. out # <<>> /\ UNCHANGED <<request, outcome, out, image, next, tracker, samples>>
    BY <1>2, <1>11 DEF EndLoop
  <2>2. /\ \E step \in PcSteps : pc' = [pc EXCEPT ![t] = step]
        /\ todo' = todo \/ todo' = [todo EXCEPT ![t] = MarkRows]
    BY <1>11 DEF EndLoop, PcSteps, MarkRows
  <2>3. pc' \in [Threads -> PcSteps] /\ todo' \in [Threads -> SUBSET Rows]
    BY <1>1, <2>2, SizeFacts
  <2>4. image[t] # 0
    BY <1>1, <1>11 DEF EndLoop, Held
  <2>5. Held'
    BY <1>1, <2>1, <2>2, <2>4 DEF Held
  <2>6. QED
    BY <1>1, <1>3, <2>1, <2>3, <2>5
<1>12. ASSUME NEW t \in Threads, Record(t)
       PROVE  TypeInv'
  <2>1. out # <<>> /\ UNCHANGED <<request, outcome, out, next, samples>> /\ pc[t] = "record"
    BY <1>2, <1>12 DEF Record
  <2> DEFINE processed == tracker.processed + 1
             interval == tracker.interval \cup {image[t]}
  <2>2. processed \in Nat /\ interval \in SUBSET (1 .. total) /\ t \in 0 .. MaxThreads
    <3>1. image[t] # 0 /\ image[t] \in 0 .. total
      BY <1>1, <2>1 DEF Held
    <3>2. image[t] \in 1 .. total
      BY <1>1, <3>1
    <3>3. QED
      BY <1>1, <3>2, CountsAssumption DEF Threads
  <2>3. CASE Due(processed, interval)
    <3>1. /\ tracker' = [owner |-> t, processed |-> processed, interval |-> interval]
          /\ pc' = [pc EXCEPT ![t] = "report"] /\ UNCHANGED <<image, todo>>
      BY <1>12, <2>3 DEF Record
    <3> HIDE DEF processed, interval
    <3>2. tracker' \in TrackerType
      BY <2>2, <3>1
    <3>3. pc' \in [Threads -> PcSteps] /\ Held'
      BY <1>1, <2>1, <3>1 DEF PcSteps, Held
    <3>4. QED
      BY <1>1, <1>3, <2>1, <3>1, <3>2, <3>3
  <2>4. CASE ~Due(processed, interval)
    <3>1. /\ tracker' = [tracker EXCEPT !.processed = processed, !.interval = interval]
          /\ NextImage(t)
      BY <1>12, <2>4 DEF Record
    <3> HIDE DEF processed, interval
    <3>2. tracker' \in TrackerType
      BY <1>1, <2>2, <3>1
    <3>3. QED
      BY <1>1, <1>3, <2>1, <3>1, <3>2, NextImageType DEF Rows
  <2>5. QED
    BY <2>3, <2>4
<1>13. ASSUME NEW t \in Threads, Report(t)
       PROVE  TypeInv'
  <2>1. /\ out # <<>> /\ UNCHANGED <<request, outcome, out, next>> /\ NextImage(t)
        /\ tracker' = [tracker EXCEPT !.owner = 0, !.interval = {}]
    BY <1>2, <1>13 DEF Report, Reset
  <2>2. tracker' \in TrackerType
    <3>1. 0 \in 0 .. MaxThreads /\ {} \in SUBSET (1 .. total)
      BY CountsAssumption
    <3>2. QED
      BY <1>1, <2>1, <3>1
  <2>3. samples' \in Seq(Sample)
    <3>1. samples' = Append(samples, [processed |-> tracker.processed, timed |-> tracker.interval,
                                      divisor |-> Cardinality(tracker.interval)])
      BY <1>13 DEF Report
    <3>2. Cardinality(tracker.interval) \in Nat
      <4>1. tracker.interval \subseteq 1 .. total /\ 1 \in Int /\ total \in Int
        BY <1>1
      <4>2. QED
        BY <4>1, FS_Interval, FS_Subset, FS_CardinalityType
    <3>3. tracker.processed \in Nat /\ tracker.interval \in SUBSET (1 .. total)
      BY <1>1
    <3>4. QED
      BY <3>1, <3>2, <3>3, SampleType
  <2>4. QED
    BY <1>1, <1>3, <2>1, <2>2, <2>3, NextImageType DEF Rows
<1>14. ASSUME NEW t \in Threads, RecordSequential(t)
       PROVE  TypeInv'
  <2>1. /\ out # <<>> /\ UNCHANGED <<request, outcome, out, next>> /\ NextImage(t)
        /\ pc[t] = "record"
    BY <1>2, <1>14 DEF RecordSequential
  <2> DEFINE interval == tracker.interval \cup {image[t]}
             remainder == image[t] % ProgressInterval
  <2>2. image[t] \in Nat /\ interval \in SUBSET (1 .. total)
    <3>1. image[t] # 0 /\ image[t] \in 0 .. total
      BY <1>1, <2>1 DEF Held
    <3>2. image[t] \in 1 .. total
      BY <1>1, <3>1
    <3>3. QED
      BY <1>1, <3>2
  <2>3. remainder \in Nat /\ ProgressInterval \in Nat
    BY <2>2, IntervalAssumption
  <2>4. \E s \in SUBSET (1 .. total) :
          tracker' = [tracker EXCEPT !.processed = image[t], !.interval = s]
    <3>1. \E s \in {{}, interval} :
            tracker' = [tracker EXCEPT !.processed = image[t], !.interval = s]
      BY <1>14 DEF RecordSequential
    <3>2. QED
      BY <2>2, <3>1
  <2>5. tracker' \in TrackerType
    BY <1>1, <2>2, <2>4
  <2>6. \/ samples' = samples
        \/ \E d \in {ProgressInterval, remainder} :
             samples' = Append(samples, [processed |-> image[t], timed |-> interval, divisor |-> d])
    BY <1>14 DEF RecordSequential
  <2> HIDE DEF interval, remainder
  <2>7. \A d \in {ProgressInterval, remainder} : d \in Nat
    BY <2>3
  <2>8. samples' \in Seq(Sample)
    <3>1. CASE samples' = samples
      BY <1>1, <3>1
    <3>2. CASE \E d \in {ProgressInterval, remainder} :
             samples' = Append(samples, [processed |-> image[t], timed |-> interval, divisor |-> d])
      BY <2>2, <2>7, <3>2, SampleType
    <3>3. QED
      BY <2>6, <3>1, <3>2
  <2>9. QED
    BY <1>1, <1>3, <2>1, <2>5, <2>8, NextImageType DEF Rows
<1>15. CASE Returned \/ UNCHANGED vars
  <2>1. UNCHANGED <<parallel, total, threads, outcome, out, image, todo, next, pc, tracker, samples>>
    BY <1>15 DEF Returned, vars, request, work
  <2>2. TypeOK'
    BY <1>1, <2>1 DEF TypeOK, PcSteps, Rows
  <2>3. QED
    BY <1>1, <2>1, <2>2 DEF TypeInv, Fresh, Held
<1>16. QED
  BY <1>4, <1>5, <1>6, <1>7, <1>8, <1>9, <1>10, <1>11, <1>12, <1>13, <1>14, <1>15
     DEF Next, Caller, Step

(* Theorem.  The types hold in every state the back end reaches.           *)
THEOREM CpuTypeCorrect == Spec => []TypeOK
<1>1. TypeInv => TypeOK
  BY DEF TypeInv
<1>2. QED
  BY <1>1, CpuTypesInit, CpuTypes, PTL DEF Spec
-----------------------------------------------------------------------------
(* Whole images: what the workers hold and what they have left.            *)

Active(t) == pc[t] \in {"resize", "mark", "record", "report"}

(* Images from next on are untouched; the others are finished or held by   *)
(* exactly one worker, which is as far in them as its todo says.           *)
ImagesInv ==
  /\ \A t \in Threads : pc[t] \notin {"resized", "marked"}
  /\ \A t \in Threads : Active(t) => image[t] \in 1 .. next - 1
  /\ \A t, u \in Threads : Active(t) /\ Active(u) /\ image[t] = image[u] => t = u
  /\ \A i \in 1 .. total :
       \/ i >= next /\ out[i] = Blank
       \/ i < next /\ out[i] = Finished
       \/ \E t \in Threads : Active(t) /\ image[t] = i
  /\ \A t \in Threads :
       /\ pc[t] = "resize" => out[image[t]] = ResizedBut(todo[t])
       /\ pc[t] = "mark" => todo[t] \subseteq MarkRows /\ out[image[t]] = MarkedBut(todo[t])
       /\ pc[t] \in {"record", "report"} => out[image[t]] = Finished
  /\ \A t \in Team : pc[t] = "joined" => next = total + 1

(* Rows: the team is on one image, the ones before it are finished.        *)
Current == image[Master]
Left == UNION {todo[t] : t \in Team}

Resizing ==
  /\ \A t \in Team : /\ pc[t] \in {"resize", "resized"}
                     /\ todo[t] \subseteq Share(t, OutputRows)
                     /\ pc[t] = "resized" => todo[t] = {}
  /\ out[Current] = ResizedBut(Left)

Marking ==
  /\ \A t \in Team : /\ pc[t] \in {"mark", "marked"}
                     /\ todo[t] \subseteq Share(t, MarkHeight)
                     /\ pc[t] = "marked" => todo[t] = {}
  /\ out[Current] = MarkedBut(Left)

Recording ==
  /\ pc[Master] \in {"record", "report"}
  /\ \A t \in Team \ {Master} : pc[t] = "joined"
  /\ out[Current] = Finished

Done ==
  /\ \A t \in Team : pc[t] = "joined"
  /\ Current = total /\ out[Current] = Finished

RowsInv ==
  /\ \A t \in Threads : image[t] = Current
  /\ Current \in 1 .. total
  /\ \A i \in 1 .. total : /\ i < Current => out[i] = Finished
                           /\ i > Current => out[i] = Blank
  /\ \A t \in Threads \ Team : pc[t] = "joined"
  /\ Resizing \/ Marking \/ Recording \/ Done

PixelInv ==
  /\ TypeInv
  /\ out # <<>> /\ ~ByRows => ImagesInv
  /\ out # <<>> /\ ByRows => RowsInv
  /\ outcome = "succeeded" => \A t \in Threads : pc[t] = "joined"

(* No partly processed image has a spoilt row.                             *)
LEMMA NeverSpoilt ==
  ASSUME NEW Y, NEW y \in Rows
  PROVE  Blank[y] # "spoilt" /\ Finished[y] # "spoilt"
         /\ ResizedBut(Y)[y] # "spoilt" /\ MarkedBut(Y)[y] # "spoilt"
BY DEF Blank, Finished, ResizedBut, MarkedBut, Rows

LEMMA PixelsFromInv == PixelInv => PixelsAsSequential
<1> SUFFICES ASSUME PixelInv PROVE PixelsAsSequential
  OBVIOUS
<1>1. CASE out = <<>>
  <2>1. DOMAIN out = {} /\ outcome # "succeeded"
    BY <1>1 DEF PixelInv, TypeInv, Fresh
  <2>2. QED
    BY <2>1 DEF PixelsAsSequential
<1>2. CASE out # <<>>
  <2>1. DOMAIN out = 1 .. total /\ Team \subseteq Threads /\ Master \in Team /\ total \in Nat
    BY <1>2, ThreadFacts DEF PixelInv, TypeInv
  <2>2. next \in Nat /\ image[Master] \in Nat
    BY <2>1 DEF PixelInv, TypeInv, TypeOK
  <2>3. ASSUME NEW i \in 1 .. total
        PROVE  /\ \A y \in Rows : out[i][y] # "spoilt"
               /\ outcome = "succeeded" => out[i] = Finished
    <3>1. CASE ~ByRows
      <4>1. ImagesInv
        BY <1>2, <3>1 DEF PixelInv
      <4>2. \/ i >= next /\ out[i] = Blank
            \/ i < next /\ out[i] = Finished
            \/ \E t \in Threads : Active(t) /\ image[t] = i
        BY <2>3, <4>1 DEF ImagesInv
      <4>3. \A t \in Threads :
              /\ pc[t] = "resize" => out[image[t]] = ResizedBut(todo[t])
              /\ pc[t] = "mark" => todo[t] \subseteq MarkRows /\ out[image[t]] = MarkedBut(todo[t])
              /\ pc[t] \in {"record", "report"} => out[image[t]] = Finished
        BY <4>1 DEF ImagesInv
      <4>4. \A y \in Rows : out[i][y] # "spoilt"
        BY <4>2, <4>3, NeverSpoilt DEF Active
      <4>5. ASSUME outcome = "succeeded" PROVE out[i] = Finished
        <5>1. \A t \in Threads : pc[t] = "joined"
          BY <4>5 DEF PixelInv
        <5>2. next = total + 1
          BY <2>1, <4>1, <5>1 DEF ImagesInv
        <5>3. ~ (i >= next)
          BY <2>1, <2>3, <5>2
        <5>4. QED
          BY <4>2, <5>1, <5>3 DEF Active
      <4>6. QED
        BY <4>4, <4>5
    <3>2. CASE ByRows
      <4>1. RowsInv
        BY <1>2, <3>2 DEF PixelInv
      <4>7. Current \in 1 .. total
        BY <4>1 DEF RowsInv
      <4>8. (i < Current => out[i] = Finished) /\ (i > Current => out[i] = Blank)
        BY <2>3, <4>1 DEF RowsInv
      <4>9. Resizing \/ Marking \/ Recording \/ Done
        BY <4>1 DEF RowsInv
      <4>2. i < Current \/ i > Current \/ i = Current
        BY <2>3, <4>7
      <4>3. out[Current] \in {ResizedBut(Left), MarkedBut(Left), Finished}
        BY <4>9 DEF Resizing, Marking, Recording, Done
      <4>4. \A y \in Rows : out[i][y] # "spoilt"
        BY <4>2, <4>3, <4>8, NeverSpoilt
      <4>5. ASSUME outcome = "succeeded" PROVE out[i] = Finished
        <5>1. \A t \in Threads : pc[t] = "joined"
          BY <4>5 DEF PixelInv
        <5>2. Current = total /\ out[Current] = Finished
          BY <2>1, <4>9, <5>1 DEF Resizing, Marking, Recording, Done
        <5>3. i < Current \/ i = Current
          BY <2>1, <2>3, <5>2
        <5>4. QED
          BY <4>8, <5>2, <5>3
      <4>6. QED
        BY <4>4, <4>5
    <3>3. QED
      BY <3>1, <3>2
  <2>4. QED
    BY <2>1, <2>3 DEF PixelsAsSequential, Rows
<1>3. QED
  BY <1>1, <1>2

LEMMA PixelInit == Init => PixelInv
BY CpuTypesInit DEF Init, PixelInv

(* A step of the worker t on its own image.                                *)
LEMMA WorkerStep ==
  ASSUME TypeInv, out # <<>>, ImagesInv, NEW t \in Threads, Active(t),
         NEW step \in {"resize", "mark", "record", "report", "claim"}, NEW Y, NEW V,
         UNCHANGED <<request, image, next>>,
         pc' = [pc EXCEPT ![t] = step], todo' = [todo EXCEPT ![t] = Y],
         out' = [out EXCEPT ![image[t]] = V],
         step = "resize" => V = ResizedBut(Y),
         step = "mark" => Y \subseteq MarkRows /\ V = MarkedBut(Y),
         step \in {"record", "report", "claim"} => V = Finished
  PROVE  ImagesInv'
<1>1. /\ pc \in [Threads -> PcSteps] /\ todo \in [Threads -> SUBSET Rows]
      /\ out \in [1 .. total -> [Rows -> RowStates]] /\ image \in [Threads -> 0 .. total]
      /\ next \in 1 .. total + 1 /\ total \in Nat /\ Team \subseteq Threads
  BY ThreadFacts DEF TypeInv, TypeOK, PcSteps, Rows
<1>2. /\ pc'[t] = step /\ todo'[t] = Y /\ image' = image /\ next' = next
      /\ total' = total /\ threads' = threads
      /\ \A u \in Threads \ {t} : pc'[u] = pc[u] /\ todo'[u] = todo[u]
  BY <1>1 DEF request
<1>3. image[t] \in 1 .. next - 1 /\ image[t] \in 1 .. total
  <2>1. image[t] \in 1 .. next - 1
    BY DEF ImagesInv
  <2>2. QED
    BY <1>1, <2>1
<1>4. out'[image[t]] = V /\ \A i \in 1 .. total : i # image[t] => out'[i] = out[i]
  BY <1>1, <1>3
<1>5. \A u \in Threads \ {t} : Active(u)' = Active(u) /\ (Active(u) => image[u] # image[t])
  BY <1>2 DEF Active, ImagesInv
<1>6. \A u \in Threads \ {t} : Active(u) => image[u] \in 1 .. total /\ out'[image[u]] = out[image[u]]
  <2>1. ASSUME NEW u \in Threads \ {t}, Active(u)
        PROVE  image[u] \in 1 .. total /\ out'[image[u]] = out[image[u]]
    <3>1. image[u] \in 1 .. next - 1
      BY <2>1 DEF ImagesInv
    <3>2. image[u] \in 1 .. total
      BY <1>1, <3>1
    <3>3. QED
      BY <1>4, <1>5, <2>1, <3>2
  <2>2. QED
    BY <2>1
<1>7. \A u \in Threads : pc'[u] \notin {"resized", "marked"}
  BY <1>2 DEF ImagesInv
<1>8. \A u \in Threads : Active(u)' => image'[u] \in 1 .. next' - 1
  BY <1>2, <1>3, <1>5 DEF ImagesInv
<1>9. \A u, v \in Threads : Active(u)' /\ Active(v)' /\ image'[u] = image'[v] => u = v
  BY <1>2, <1>5 DEF ImagesInv
<1>10. ASSUME NEW i \in 1 .. total'
       PROVE  \/ i >= next' /\ out'[i] = Blank
              \/ i < next' /\ out'[i] = Finished
              \/ \E u \in Threads : Active(u)' /\ image'[u] = i
  <2>1. i \in 1 .. total
    BY <1>2
  <2>2. CASE i = image[t]
    <3>1. CASE step = "claim"
      <4>1. out'[i] = Finished
        BY <1>4, <2>2, <3>1
      <4>2. i < next
        BY <1>1, <1>3, <2>2
      <4>3. QED
        BY <1>2, <4>1, <4>2
    <3>2. CASE step # "claim"
      BY <1>2, <2>2, <3>2 DEF Active
    <3>3. QED
      BY <3>1, <3>2
  <2>3. CASE i # image[t]
    <3>1. out'[i] = out[i]
      BY <1>4, <2>1, <2>3
    <3>2. \/ i >= next /\ out[i] = Blank
          \/ i < next /\ out[i] = Finished
          \/ \E u \in Threads : Active(u) /\ image[u] = i
      BY <2>1 DEF ImagesInv
    <3>3. ASSUME NEW u \in Threads, Active(u), image[u] = i
          PROVE  Active(u)' /\ image'[u] = i
      BY <1>2, <1>5, <2>3, <3>3
    <3>4. QED
      BY <1>2, <3>1, <3>2, <3>3
  <2>4. QED
    BY <2>2, <2>3
<1>11. ASSUME NEW u \in Threads
       PROVE  /\ pc'[u] = "resize" => out'[image'[u]] = ResizedBut(todo'[u])
              /\ pc'[u] = "mark" => todo'[u] \subseteq MarkRows /\ out'[image'[u]] = MarkedBut(todo'[u])
              /\ pc'[u] \in {"record", "report"} => out'[image'[u]] = Finished
  <2>1. CASE u = t
    BY <1>2, <1>4, <2>1
  <2>2. CASE u # t
    <3>1. pc'[u] = pc[u] /\ todo'[u] = todo[u] /\ image'[u] = image[u]
      BY <1>2, <2>2
    <3>2. /\ pc[u] = "resize" => out[image[u]] = ResizedBut(todo[u])
          /\ pc[u] = "mark" => todo[u] \subseteq MarkRows /\ out[image[u]] = MarkedBut(todo[u])
          /\ pc[u] \in {"record", "report"} => out[image[u]] = Finished
      BY DEF ImagesInv
    <3>3. pc[u] \in {"resize", "mark", "record", "report"} => out'[image[u]] = out[image[u]]
      BY <1>6, <2>2 DEF Active
    <3>4. QED
      BY <3>1, <3>2, <3>3
  <2>3. QED
    BY <2>1, <2>2
<1>12. \A u \in Team' : pc'[u] = "joined" => next' = total' + 1
  <2>1. Team' = Team
    BY <1>2 DEF Team
  <2>2. QED
    BY <1>1, <1>2, <2>1 DEF ImagesInv
<1>13. QED
  BY <1>7, <1>8, <1>9, <1>10, <1>11, <1>12 DEF ImagesInv

(* A worker takes the next image, or finds that none is left.              *)
LEMMA ClaimStep ==
  ASSUME TypeInv, out # <<>>, ImagesInv, NEW t \in Threads, Claim(t)
  PROVE  ImagesInv'
<1>1. /\ pc \in [Threads -> PcSteps] /\ todo \in [Threads -> SUBSET Rows]
      /\ out \in [1 .. total -> [Rows -> RowStates]] /\ image \in [Threads -> 0 .. total]
      /\ next \in 1 .. total + 1 /\ total \in Nat /\ Team \subseteq Threads
  BY ThreadFacts DEF TypeInv, TypeOK, PcSteps, Rows
<1>2. /\ out' = out /\ total' = total /\ threads' = threads /\ pc[t] = "claim" /\ ~Active(t)
      /\ Team' = Team
  BY DEF Claim, request, Active, Team
<1>3. CASE next <= total
  <2>1. /\ pc'[t] = "resize" /\ todo'[t] = Rows /\ image'[t] = next /\ next' = next + 1
        /\ \A u \in Threads \ {t} : pc'[u] = pc[u] /\ todo'[u] = todo[u] /\ image'[u] = image[u]
    BY <1>1, <1>3 DEF Claim, Rows
  <2>2. next \in 1 .. total
    BY <1>1, <1>3
  <2>3. \A u \in Threads \ {t} : Active(u)' = Active(u)
    BY <2>1 DEF Active
  <2>4. out[next] = ResizedBut(todo'[t])
    <3>1. \/ next >= next /\ out[next] = Blank
          \/ next < next /\ out[next] = Finished
          \/ \E u \in Threads : Active(u) /\ image[u] = next
      BY <2>2 DEF ImagesInv
    <3>2. \A u \in Threads : Active(u) => image[u] \in 1 .. next - 1
      BY DEF ImagesInv
    <3>3. out[next] = Blank
      BY <1>1, <3>1, <3>2
    <3>4. QED
      BY <2>1, <3>3, LoopEnds
  <2>5. \A u \in Threads : pc'[u] \notin {"resized", "marked"}
    BY <2>1 DEF ImagesInv
  <2>6. \A u \in Threads : Active(u)' => image'[u] \in 1 .. next' - 1
    <3>1. \A u \in Threads : Active(u) => image[u] \in 1 .. next - 1
      BY DEF ImagesInv
    <3>2. QED
      BY <1>1, <2>1, <2>3, <3>1
  <2>7. ASSUME NEW u \in Threads, NEW v \in Threads, Active(u)', Active(v)', image'[u] = image'[v]
        PROVE  u = v
    <3>1. \A w \in Threads \ {t} : Active(w) => image[w] # next
      BY <1>1 DEF ImagesInv
    <3>2. QED
      BY <2>1, <2>3, <2>7, <3>1 DEF ImagesInv
  <2>8. ASSUME NEW i \in 1 .. total'
        PROVE  \/ i >= next' /\ out'[i] = Blank
               \/ i < next' /\ out'[i] = Finished
               \/ \E u \in Threads : Active(u)' /\ image'[u] = i
    <3>1. i \in 1 .. total /\ i \in Nat /\ next \in Nat
      BY <1>1, <1>2
    <3>2. \/ i >= next /\ out[i] = Blank
          \/ i < next /\ out[i] = Finished
          \/ \E u \in Threads : Active(u) /\ image[u] = i
      BY <3>1 DEF ImagesInv
    <3>3. CASE i = next
      BY <2>1, <3>3 DEF Active
    <3>4. CASE i # next /\ ~ \E u \in Threads : Active(u) /\ image[u] = i
      BY <1>2, <2>1, <3>1, <3>2, <3>4
    <3>5. CASE \E u \in Threads : Active(u) /\ image[u] = i
      BY <1>2, <2>1, <2>3, <3>5
    <3>6. QED
      BY <3>3, <3>4, <3>5
  <2>9. ASSUME NEW u \in Threads
        PROVE  /\ pc'[u] = "resize" => out'[image'[u]] = ResizedBut(todo'[u])
               /\ pc'[u] = "mark" => todo'[u] \subseteq MarkRows /\ out'[image'[u]] = MarkedBut(todo'[u])
               /\ pc'[u] \in {"record", "report"} => out'[image'[u]] = Finished
    <3>1. CASE u = t
      BY <1>2, <2>1, <2>4, <3>1
    <3>2. CASE u # t
      BY <1>2, <2>1, <3>2 DEF ImagesInv
    <3>3. QED
      BY <3>1, <3>2
  <2>10. \A u \in Team' : pc'[u] = "joined" => next' = total' + 1
    <3>1. \A u \in Team : pc[u] # "joined"
      BY <1>1, <2>2 DEF ImagesInv
    <3>2. QED
      BY <1>1, <1>2, <2>1, <3>1
  <2>11. QED
    BY <2>5, <2>6, <2>7, <2>8, <2>9, <2>10 DEF ImagesInv
<1>4. CASE ~(next <= total)
  <2>1. /\ pc'[t] = "joined" /\ todo' = todo /\ image' = image /\ next' = next
        /\ \A u \in Threads \ {t} : pc'[u] = pc[u]
    BY <1>1, <1>4 DEF Claim
  <2>2. next = total + 1
    BY <1>1, <1>4
  <2>3. \A u \in Threads : Active(u)' = Active(u)
    BY <1>2, <2>1 DEF Active
  <2>4. \A u \in Threads : pc'[u] \notin {"resized", "marked"}
    BY <2>1 DEF ImagesInv
  <2>5. /\ \A u \in Threads : Active(u)' => image'[u] \in 1 .. next' - 1
        /\ \A u, v \in Threads : Active(u)' /\ Active(v)' /\ image'[u] = image'[v] => u = v
    BY <2>1, <2>3 DEF ImagesInv
  <2>6. \A i \in 1 .. total' :
          \/ i >= next' /\ out'[i] = Blank
          \/ i < next' /\ out'[i] = Finished
          \/ \E u \in Threads : Active(u)' /\ image'[u] = i
    BY <1>2, <2>1, <2>3 DEF ImagesInv
  <2>7. ASSUME NEW u \in Threads
        PROVE  /\ pc'[u] = "resize" => out'[image'[u]] = ResizedBut(todo'[u])
               /\ pc'[u] = "mark" => todo'[u] \subseteq MarkRows /\ out'[image'[u]] = MarkedBut(todo'[u])
               /\ pc'[u] \in {"record", "report"} => out'[image'[u]] = Finished
    BY <1>2, <2>1 DEF ImagesInv
  <2>8. \A u \in Team' : pc'[u] = "joined" => next' = total' + 1
    BY <1>2, <2>1, <2>2
  <2>9. QED
    BY <2>4, <2>5, <2>6, <2>7, <2>8 DEF ImagesInv
<1>5. QED
  BY <1>3, <1>4

(* What the row loops do to the image, whoever runs them.                  *)
LEMMA ResizeStep ==
  ASSUME TypeInv, out # <<>>, NEW t \in Threads, ResizeRow(t), image[t] \in 1 .. total
  PROVE  \E y \in todo[t] :
           /\ todo' = [todo EXCEPT ![t] = todo[t] \ {y}]
           /\ \A Y \in SUBSET Rows : y \in Y /\ out[image[t]] = ResizedBut(Y) =>
                out' = [out EXCEPT ![image[t]] = ResizedBut(Y \ {y})]
<1> DEFINE y == First(todo[t])
<1>1. todo[t] \subseteq Rows /\ todo[t] # {} /\ Rows \subseteq Nat
  BY DEF TypeInv, TypeOK, Rows, ResizeRow
<1>2. y \in todo[t]
  BY <1>1, FirstIsMember
<1>3. /\ out' = [out EXCEPT ![image[t]][y] = "resized"]
      /\ todo' = [todo EXCEPT ![t] = todo[t] \ {y}]
  BY DEF ResizeRow
<1> HIDE DEF y
<1>4. out' = [out EXCEPT ![image[t]] = [out[image[t]] EXCEPT ![y] = "resized"]]
  BY <1>3
<1>5. \A Y \in SUBSET Rows : y \in Y /\ out[image[t]] = ResizedBut(Y) =>
        out' = [out EXCEPT ![image[t]] = ResizedBut(Y \ {y})]
  BY <1>4, RowResized
<1>6. QED
  BY <1>2, <1>3, <1>5

LEMMA MarkStep ==
  ASSUME TypeInv, out # <<>>, NEW t \in Threads, MarkRow(t), image[t] \in 1 .. total
  PROVE  \E y \in todo[t] :
           /\ todo' = [todo EXCEPT ![t] = todo[t] \ {y}]
           /\ \A Y \in SUBSET MarkRows : y \in Y /\ out[image[t]] = MarkedBut(Y) =>
                out' = [out EXCEPT ![image[t]] = MarkedBut(Y \ {y})]
<1> DEFINE y == First(todo[t])
<1>1. todo[t] \subseteq Rows /\ todo[t] # {} /\ Rows \subseteq Nat
  BY DEF TypeInv, TypeOK, Rows, MarkRow
<1>2. y \in todo[t]
  BY <1>1, FirstIsMember
<1>3. /\ out' = [out EXCEPT ![image[t]][Origin + y] = IF @ = "resized" THEN "marked" ELSE "spoilt"]
      /\ todo' = [todo EXCEPT ![t] = todo[t] \ {y}]
  BY DEF MarkRow
<1> HIDE DEF y
<1>4. out' = [out EXCEPT ![image[t]] = [out[image[t]] EXCEPT ![Origin + y] =
                IF out[image[t]][Origin + y] = "resized" THEN "marked" ELSE "spoilt"]]
  BY <1>3
<1>5. ASSUME NEW Y \in SUBSET MarkRows, y \in Y, out[image[t]] = MarkedBut(Y)
      PROVE  out' = [out EXCEPT ![image[t]] = MarkedBut(Y \ {y})]
  <2>1. out[image[t]][Origin + y] = "resized"
    BY <1>5, RowMarked
  <2>2. out' = [out EXCEPT ![image[t]] = [out[image[t]] EXCEPT ![Origin + y] = "marked"]]
    BY <1>4, <2>1
  <2>3. QED
    BY <1>5, <2>2, RowMarked
<1>6. QED
  BY <1>2, <1>3, <1>5

(* Whole images: every step of a worker keeps them apart.                  *)
LEMMA ImagesKept ==
  ASSUME TypeInv, out # <<>>, ~ByRows, ImagesInv, NEW t \in Threads, Step(t)
  PROVE  ImagesInv'
<1>1. /\ pc \in [Threads -> PcSteps] /\ todo \in [Threads -> SUBSET Rows]
      /\ out \in [1 .. total -> [Rows -> RowStates]] /\ image \in [Threads -> 0 .. total]
      /\ next \in 1 .. total + 1 /\ total \in Nat
  BY ThreadFacts DEF TypeInv, TypeOK, PcSteps, Rows
<1>2. /\ pc[t] = "resize" => out[image[t]] = ResizedBut(todo[t])
      /\ pc[t] = "mark" => todo[t] \subseteq MarkRows /\ out[image[t]] = MarkedBut(todo[t])
      /\ pc[t] \in {"record", "report"} => out[image[t]] = Finished
  BY DEF ImagesInv
<1>3. ASSUME Active(t) PROVE image[t] \in 1 .. total
  <2>1. image[t] \in 1 .. next - 1
    BY <1>3 DEF ImagesInv
  <2>2. QED
    BY <1>1, <2>1
<1>4. pc = [pc EXCEPT ![t] = pc[t]] /\ todo = [todo EXCEPT ![t] = todo[t]]
      /\ out = [out EXCEPT ![image[t]] = out[image[t]]]
  BY <1>1
<1>5. CASE Claim(t)
  BY <1>5, ClaimStep
<1>6. CASE ResizeRow(t)
  <2>1. pc[t] = "resize" /\ Active(t) /\ UNCHANGED <<request, outcome, pc, image, next, tracker, samples>>
    BY <1>6 DEF ResizeRow, Active
  <2>2. PICK y \in todo[t] :
           /\ todo' = [todo EXCEPT ![t] = todo[t] \ {y}]
           /\ \A Y \in SUBSET Rows : y \in Y /\ out[image[t]] = ResizedBut(Y) =>
                out' = [out EXCEPT ![image[t]] = ResizedBut(Y \ {y})]
    BY <1>3, <1>6, <2>1, ResizeStep
  <2>3. todo[t] \in SUBSET Rows
    BY <1>1
  <2>4. out' = [out EXCEPT ![image[t]] = ResizedBut(todo[t] \ {y})]
    BY <1>2, <2>1, <2>2, <2>3
  <2>5. pc' = [pc EXCEPT ![t] = "resize"]
    BY <1>4, <2>1
  <2>6. QED
    BY <2>1, <2>2, <2>4, <2>5, WorkerStep
<1>7. CASE MarkRow(t)
  <2>1. pc[t] = "mark" /\ Active(t) /\ UNCHANGED <<request, outcome, pc, image, next, tracker, samples>>
    BY <1>7 DEF MarkRow, Active
  <2>2. PICK y \in todo[t] :
           /\ todo' = [todo EXCEPT ![t] = todo[t] \ {y}]
           /\ \A Y \in SUBSET MarkRows : y \in Y /\ out[image[t]] = MarkedBut(Y) =>
                out' = [out EXCEPT ![image[t]] = MarkedBut(Y \ {y})]
    BY <1>3, <1>7, <2>1, MarkStep
  <2>3. todo[t] \in SUBSET MarkRows
    BY <1>2, <2>1
  <2>4. out' = [out EXCEPT ![image[t]] = MarkedBut(todo[t] \ {y})]
    BY <1>2, <2>1, <2>2, <2>3
  <2>5. pc' = [pc EXCEPT ![t] = "mark"]
    BY <1>4, <2>1
  <2>6. todo[t] \ {y} \subseteq MarkRows
    BY <2>3
  <2>7. QED
    BY <2>1, <2>2, <2>4, <2>5, <2>6, WorkerStep
<1>8. CASE EndLoop(t)
  <2>1. /\ pc[t] \in {"resize", "mark"} /\ Active(t) /\ todo[t] = {}
        /\ UNCHANGED <<request, outcome, out, image, next, tracker, samples>>
    BY <1>8 DEF EndLoop, Active
  <2>2. CASE pc[t] = "resize"
    <3>1. pc' = [pc EXCEPT ![t] = "mark"] /\ todo' = [todo EXCEPT ![t] = MarkRows]
      BY <1>8, <2>2 DEF EndLoop, MarkRows
    <3>2. out[image[t]] = MarkedBut(MarkRows)
      BY <1>2, <2>1, <2>2, LoopEnds
    <3>3. out' = [out EXCEPT ![image[t]] = MarkedBut(MarkRows)]
      BY <1>4, <2>1, <3>2
    <3>4. QED
      BY <2>1, <3>1, <3>3, WorkerStep
  <2>3. CASE pc[t] = "mark"
    <3>1. pc' = [pc EXCEPT ![t] = "record"] /\ todo' = [todo EXCEPT ![t] = todo[t]]
      BY <1>4, <1>8, <2>3 DEF EndLoop
    <3>2. out[image[t]] = Finished
      BY <1>2, <2>1, <2>3, LoopEnds
    <3>3. out' = [out EXCEPT ![image[t]] = Finished]
      BY <1>4, <2>1, <3>2
    <3>4. QED
      BY <2>1, <3>1, <3>3, WorkerStep
  <2>4. QED
    BY <2>1, <2>2, <2>3
<1>9. CASE Record(t) \/ Report(t) \/ RecordSequential(t)
  <2>1. /\ pc[t] \in {"record", "report"} /\ Active(t)
        /\ UNCHANGED <<request, out, image, next, todo>>
        /\ pc' = [pc EXCEPT ![t] = "report"] \/ pc' = [pc EXCEPT ![t] = "claim"]
    <3>1. CASE Record(t)
      BY <3>1 DEF Record, NextImage, Active
    <3>2. CASE Report(t)
      BY <3>2 DEF Report, NextImage, Active
    <3>3. CASE RecordSequential(t)
      BY <3>3 DEF RecordSequential, NextImage, Active
    <3>4. QED
      BY <1>9, <3>1, <3>2, <3>3
  <2>2. out' = [out EXCEPT ![image[t]] = Finished] /\ todo' = [todo EXCEPT ![t] = todo[t]]
    BY <1>2, <1>4, <2>1
  <2>3. QED
    BY <2>1, <2>2, WorkerStep
<1>10. QED
  BY <1>5, <1>6, <1>7, <1>8, <1>9 DEF Step

-----------------------------------------------------------------------------
(* Rows: the team stays together.                                          *)

(* A step of the team on its current image.                                *)
LEMMA TeamStep ==
  ASSUME TypeInv, out # <<>>, RowsInv, NEW V, UNCHANGED <<request, image>>,
         out' = [out EXCEPT ![Current] = V],
         \A u \in Threads \ Team : pc'[u] = "joined",
         Resizing' \/ Marking' \/ Recording' \/ Done'
  PROVE  RowsInv'
<1>1. /\ out \in [1 .. total -> [Rows -> RowStates]] /\ total \in Nat
      /\ total' = total /\ image' = image /\ Current' = Current /\ Team' = Team
  BY ThreadFacts DEF TypeInv, request, Current, Team
<1>2. Current \in 1 .. total /\ \A t \in Threads : image[t] = Current
  BY DEF RowsInv
<1>3. \A i \in 1 .. total : i # Current => out'[i] = out[i]
  BY <1>1
<1>4. \A i \in 1 .. total' : /\ i < Current' => out'[i] = Finished
                             /\ i > Current' => out'[i] = Blank
  <2>1. \A i \in 1 .. total : /\ i < Current => out[i] = Finished
                              /\ i > Current => out[i] = Blank
    BY DEF RowsInv
  <2>2. \A i \in 1 .. total : i < Current \/ i > Current => i # Current
    BY <1>2
  <2>3. QED
    BY <1>1, <1>3, <2>1, <2>2
<1>5. QED
  BY <1>1, <1>2, <1>4 DEF RowsInv

(* The loop over all the rows, and the one over the watermark's.           *)
LEMMA SharesCover ==
  ASSUME TypeInv, out # <<>>, NEW n \in {OutputRows, MarkHeight}
  PROVE  /\ UNION {Share(t, n) : t \in Team} = 1 .. n
         /\ \A t, u \in Team : \A y \in Share(t, n) : y \in Share(u, n) => t = u
<1>1. n \in Nat /\ threads \in Nat \ {0}
  BY SizeFacts DEF TypeInv
<1>2. \A y \in 1 .. n : /\ \E t \in Team : y \in Share(t, n)
                        /\ \A t, u \in Team : y \in Share(t, n) /\ y \in Share(u, n) => t = u
  BY <1>1, ShareOfOne
<1>3. \A t : Share(t, n) \subseteq 1 .. n
  BY DEF Share
<1>4. QED
  BY <1>2, <1>3

LEMMA LoopBegins ==
  ASSUME TypeInv, out # <<>>, UNCHANGED request, NEW step \in PcSteps,
         NEW n \in {OutputRows, MarkHeight}, Fork(step, n)
  PROVE  /\ \A t \in Threads \ Team : pc'[t] = "joined"
         /\ \A t \in Team : pc'[t] = step /\ todo'[t] = Share(t, n)
         /\ Left' = 1 .. n
<1>1. Team \subseteq Threads /\ Team' = Team
  BY ThreadFacts DEF Team, request
<1>2. /\ \A t \in Threads \ Team : pc'[t] = "joined"
      /\ \A t \in Team : pc'[t] = step /\ todo'[t] = Share(t, n)
  BY <1>1 DEF Fork
<1>3. Left' = UNION {Share(t, n) : t \in Team}
  BY <1>1, <1>2 DEF Left
<1>4. QED
  BY <1>2, <1>3, SharesCover

(* A thread of the team finishes one of its rows.                          *)
LEMMA RowDone ==
  ASSUME TypeInv, out # <<>>, UNCHANGED request, NEW t \in Team, NEW y \in todo[t],
         NEW n \in {OutputRows, MarkHeight},
         \A u \in Team : todo[u] \subseteq Share(u, n),
         todo' = [todo EXCEPT ![t] = todo[t] \ {y}]
  PROVE  /\ Left' = Left \ {y} /\ y \in Left /\ Left \subseteq 1 .. n
         /\ \A u \in Team : todo'[u] \subseteq Share(u, n) /\ (todo[u] = {} => todo'[u] = {})
<1>1. Team \subseteq Threads /\ Team' = Team /\ todo \in [Threads -> SUBSET Rows]
  BY ThreadFacts DEF Team, request, TypeInv, TypeOK, Rows
<1>2. \A u \in Team : todo'[u] = IF u = t THEN todo[t] \ {y} ELSE todo[u]
  BY <1>1
<1>3. \A u \in Team : u # t => y \notin todo[u]
  BY SharesCover
<1>4. \A u \in Team : todo'[u] = todo[u] \ {y}
  BY <1>2, <1>3
<1>5. Left' = UNION {todo[u] \ {y} : u \in Team}
  BY <1>1, <1>4 DEF Left
<1>6. Left' = Left \ {y}
  BY <1>5 DEF Left
<1>7. Left \subseteq 1 .. n
  BY DEF Left, Share
<1>8. QED
  BY <1>4, <1>6, <1>7 DEF Left

LEMMA RowsKept ==
  ASSUME TypeInv, out # <<>>, ByRows, RowsInv, NEW t \in Threads, Step(t)
  PROVE  RowsInv'
<1>1. /\ pc \in [Threads -> PcSteps] /\ todo \in [Threads -> SUBSET Rows]
      /\ out \in [1 .. total -> [Rows -> RowStates]] /\ total \in Nat
      /\ Team \subseteq Threads /\ Master \in Team
  BY ThreadFacts DEF TypeInv, TypeOK, PcSteps, Rows
<1>2. /\ Current \in 1 .. total /\ \A u \in Threads : image[u] = Current
      /\ \A u \in Threads \ Team : pc[u] = "joined"
      /\ Resizing \/ Marking \/ Recording \/ Done
  BY DEF RowsInv
<1>3. out = [out EXCEPT ![Current] = out[Current]]
  BY <1>1
<1>4. pc[t] # "joined" => t \in Team
  BY <1>2
<1>5. CASE Claim(t)
  BY <1>2, <1>4, <1>5 DEF Claim, Resizing, Marking, Recording, Done
<1>6. CASE ResizeRow(t)
  <2>1. /\ pc[t] = "resize" /\ t \in Team /\ image[t] = Current
        /\ UNCHANGED <<request, outcome, pc, image, next, tracker, samples>>
    BY <1>2, <1>4, <1>6 DEF ResizeRow
  <2>2. Resizing
    BY <1>2, <2>1 DEF Resizing, Marking, Recording, Done
  <2>3. PICK y \in todo[t] :
           /\ todo' = [todo EXCEPT ![t] = todo[t] \ {y}]
           /\ \A Y \in SUBSET Rows : y \in Y /\ out[image[t]] = ResizedBut(Y) =>
                out' = [out EXCEPT ![image[t]] = ResizedBut(Y \ {y})]
    BY <1>2, <1>6, ResizeStep
  <2>4. /\ Left' = Left \ {y} /\ y \in Left /\ Left \subseteq Rows
        /\ \A u \in Team : todo'[u] \subseteq Share(u, OutputRows) /\ (todo[u] = {} => todo'[u] = {})
    BY <2>1, <2>2, <2>3, RowDone DEF Resizing, Rows
  <2>5. out' = [out EXCEPT ![Current] = ResizedBut(Left \ {y})]
    BY <2>1, <2>2, <2>3, <2>4 DEF Resizing
  <2>6. Resizing'
    <3>1. Team' = Team /\ pc' = pc /\ Current' = Current
      BY <2>1 DEF Team, Current, request
    <3>2. \A u : Share(u, OutputRows)' = Share(u, OutputRows)
      BY <2>1 DEF Share, request
    <3>3. out'[Current] = ResizedBut(Left')
      BY <1>1, <1>2, <2>4, <2>5
    <3>4. QED
      BY <2>2, <2>4, <3>1, <3>2, <3>3 DEF Resizing
  <2>7. QED
    BY <1>2, <2>1, <2>5, <2>6, TeamStep
<1>7. CASE MarkRow(t)
  <2>1. /\ pc[t] = "mark" /\ t \in Team /\ image[t] = Current
        /\ UNCHANGED <<request, outcome, pc, image, next, tracker, samples>>
    BY <1>2, <1>4, <1>7 DEF MarkRow
  <2>2. Marking
    BY <1>2, <2>1 DEF Resizing, Marking, Recording, Done
  <2>3. PICK y \in todo[t] :
           /\ todo' = [todo EXCEPT ![t] = todo[t] \ {y}]
           /\ \A Y \in SUBSET MarkRows : y \in Y /\ out[image[t]] = MarkedBut(Y) =>
                out' = [out EXCEPT ![image[t]] = MarkedBut(Y \ {y})]
    BY <1>2, <1>7, MarkStep
  <2>4. /\ Left' = Left \ {y} /\ y \in Left /\ Left \subseteq MarkRows
        /\ \A u \in Team : todo'[u] \subseteq Share(u, MarkHeight) /\ (todo[u] = {} => todo'[u] = {})
    BY <2>1, <2>2, <2>3, RowDone DEF Marking, MarkRows
  <2>5. out' = [out EXCEPT ![Current] = MarkedBut(Left \ {y})]
    BY <2>1, <2>2, <2>3, <2>4 DEF Marking
  <2>6. Marking'
    <3>1. Team' = Team /\ pc' = pc /\ Current' = Current
      BY <2>1 DEF Team, Current, request
    <3>2. \A u : Share(u, MarkHeight)' = Share(u, MarkHeight)
      BY <2>1 DEF Share, request
    <3>3. out'[Current] = MarkedBut(Left')
      BY <1>1, <1>2, <2>4, <2>5
    <3>4. QED
      BY <2>2, <2>4, <3>1, <3>2, <3>3 DEF Marking
  <2>7. QED
    BY <1>2, <2>1, <2>5, <2>6, TeamStep
<1>8. CASE EndLoop(t)
  <2>1. /\ pc[t] \in {"resize", "mark"} /\ t \in Team /\ todo[t] = {}
        /\ UNCHANGED <<request, outcome, out, image, next, tracker, samples>>
        /\ pc' = [pc EXCEPT ![t] = IF pc[t] = "resize" THEN "resized" ELSE "marked"] /\ todo' = todo
    BY <1>4, <1>8 DEF EndLoop
  <2>2. Team' = Team /\ Current' = Current /\ Left' = Left
        /\ \A u, n : Share(u, n)' = Share(u, n)
    BY <2>1 DEF Team, Current, Left, request, Share
  <2>3. Resizing' \/ Marking'
    <3>1. CASE Resizing
      <4>1. pc[t] = "resize"
        BY <2>1, <3>1 DEF Resizing
      <4>2. QED
        BY <1>1, <2>1, <2>2, <3>1, <4>1 DEF Resizing
    <3>2. CASE Marking
      <4>1. pc[t] = "mark"
        BY <2>1, <3>2 DEF Marking
      <4>2. QED
        BY <1>1, <2>1, <2>2, <3>2, <4>1 DEF Marking
    <3>3. QED
      BY <1>2, <2>1, <3>1, <3>2 DEF Recording, Done
  <2>4. \A u \in Threads \ Team : pc'[u] = "joined"
    BY <1>1, <1>2, <2>1
  <2>5. out' = [out EXCEPT ![Current] = out[Current]]
    BY <1>3, <2>1
  <2>6. QED
    BY <2>1, <2>3, <2>4, <2>5, TeamStep
<1>9. CASE Record(t) \/ Report(t) \/ RecordSequential(t)
  <2>1. pc[t] \in {"record", "report"} /\ UNCHANGED <<request, out, next>>
    BY <1>9 DEF Record, Report, RecordSequential
  <2>2. Recording /\ t = Master
    BY <1>2, <1>4, <2>1 DEF Resizing, Marking, Recording, Done
  <2>3. CASE pc' = [pc EXCEPT ![t] = "report"] /\ UNCHANGED <<image, todo>>
    <3>1. Recording'
      BY <1>1, <2>1, <2>2, <2>3 DEF Recording, Current, Team, request, Master
    <3>2. \A u \in Threads \ Team : pc'[u] = "joined"
      BY <1>1, <1>2, <2>2, <2>3
    <3>3. out' = [out EXCEPT ![Current] = out[Current]]
      BY <1>3, <2>1
    <3>4. QED
      BY <2>1, <2>3, <3>1, <3>2, <3>3, TeamStep
  <2>4. CASE NextImage(t)
    <3>1. CASE image[t] < total
      <4>1. Fork("resize", OutputRows) /\ image' = [u \in Threads |-> Current + 1]
        BY <1>2, <2>4, <3>1 DEF NextImage
      <4>2. /\ \A u \in Threads \ Team : pc'[u] = "joined"
            /\ \A u \in Team : pc'[u] = "resize" /\ todo'[u] = Share(u, OutputRows)
            /\ Left' = Rows
        BY <2>1, <4>1, LoopBegins DEF PcSteps, Rows
      <4>3. Current' = Current + 1 /\ Current + 1 \in 1 .. total /\ Team' = Team /\ total' = total
        BY <1>1, <1>2, <2>1, <3>1, <4>1 DEF Current, Team, request
      <4>4. \A i \in 1 .. total : /\ i < Current => out[i] = Finished
                                  /\ i > Current => out[i] = Blank
        BY DEF RowsInv
      <4>5. out[Current] = Finished
        BY <2>2 DEF Recording
      <4>6. out'[Current'] = ResizedBut(Left')
        BY <1>2, <2>1, <4>2, <4>3, <4>4, LoopEnds
      <4>7. \A u : Share(u, OutputRows)' = Share(u, OutputRows)
        BY <2>1 DEF Share, request
      <4>8. Resizing'
        BY <4>2, <4>3, <4>6, <4>7 DEF Resizing
      <4>9. \A i \in 1 .. total' : /\ i < Current' => out'[i] = Finished
                                   /\ i > Current' => out'[i] = Blank
        <5>1. \A i \in 1 .. total : /\ i < Current + 1 => i < Current \/ i = Current
                                    /\ i > Current + 1 => i > Current
          BY <1>2
        <5>2. QED
          BY <2>1, <4>3, <4>4, <4>5, <5>1
      <4>10. QED
        BY <4>1, <4>2, <4>3, <4>8, <4>9 DEF RowsInv
    <3>2. CASE ~(image[t] < total)
      <4>1. pc' = [pc EXCEPT ![t] = "joined"] /\ UNCHANGED <<image, todo>>
        BY <2>4, <3>2 DEF NextImage
      <4>2. Current = total
        BY <1>1, <1>2, <3>2
      <4>3. Done'
        BY <1>1, <2>1, <2>2, <4>1, <4>2 DEF Done, Recording, Current, Team, request
      <4>4. \A u \in Threads \ Team : pc'[u] = "joined"
        BY <1>1, <1>2, <4>1
      <4>5. out' = [out EXCEPT ![Current] = out[Current]]
        BY <1>3, <2>1
      <4>6. QED
        BY <2>1, <4>1, <4>3, <4>4, <4>5, TeamStep
    <3>3. QED
      BY <3>1, <3>2
  <2>5. QED
    BY <1>9, <2>3, <2>4 DEF Record, Report, RecordSequential
<1>10. QED
  BY <1>5, <1>6, <1>7, <1>8, <1>9 DEF Step

(* The two barriers of an image.                                           *)
LEMMA RowsSynchronized ==
  ASSUME TypeInv, out # <<>>, RowsInv, Synchronize
  PROVE  RowsInv'
<1>1. /\ pc \in [Threads -> PcSteps] /\ out \in [1 .. total -> [Rows -> RowStates]]
      /\ Team \subseteq Threads /\ Master \in Team
  BY ThreadFacts DEF TypeInv, TypeOK, PcSteps
<1>2. UNCHANGED <<request, out, image>> /\ Team' = Team /\ Current' = Current
  BY DEF Synchronize, Team, Current, request
<1>3. /\ \A u \in Threads \ Team : pc[u] = "joined"
      /\ Resizing \/ Marking \/ Recording \/ Done
  BY DEF RowsInv
<1>4. out' = [out EXCEPT ![Current] = out[Current]]
  BY <1>1, <1>2
<1>5. CASE Barrier
  <2>1. Fork("mark", MarkHeight) /\ \A t \in Team : pc[t] = "resized"
    BY <1>5 DEF Barrier
  <2>2. /\ \A u \in Threads \ Team : pc'[u] = "joined"
        /\ \A u \in Team : pc'[u] = "mark" /\ todo'[u] = Share(u, MarkHeight)
        /\ Left' = MarkRows
    BY <1>2, <2>1, LoopBegins DEF PcSteps, MarkRows
  <2>3. Resizing
    BY <1>1, <1>3, <2>1 DEF Marking, Recording, Done
  <2>4. Left = {}
    BY <2>1, <2>3 DEF Left, Resizing
  <2>5. out'[Current'] = MarkedBut(Left')
    BY <1>2, <2>2, <2>3, <2>4, LoopEnds DEF Resizing
  <2>6. \A u : Share(u, MarkHeight)' = Share(u, MarkHeight)
    BY <1>2 DEF Share, request
  <2>7. Marking'
    BY <1>2, <2>2, <2>5, <2>6 DEF Marking
  <2>8. QED
    BY <1>2, <1>4, <2>2, <2>7, TeamStep
<1>6. CASE Join
  <2>1. /\ pc' = [t \in Threads |-> IF t = Master THEN "record" ELSE "joined"]
        /\ \A t \in Team : pc[t] = "marked"
    BY <1>6 DEF Join
  <2>2. Marking
    BY <1>1, <1>3, <2>1 DEF Resizing, Recording, Done
  <2>3. Left = {}
    BY <2>1, <2>2 DEF Left, Marking
  <2>4. out'[Current'] = Finished
    BY <1>2, <2>2, <2>3, LoopEnds DEF Marking
  <2>5. Recording' /\ \A u \in Threads \ Team : pc'[u] = "joined"
    BY <1>1, <1>2, <2>1, <2>4 DEF Recording, Master
  <2>6. QED
    BY <1>2, <1>4, <2>5, TeamStep
<1>7. QED
  BY <1>5, <1>6 DEF Synchronize

-----------------------------------------------------------------------------
(* The batch.                                                              *)

LEMMA PixelsPrepared ==
  ASSUME TypeInv, Prepare
  PROVE  (~ByRows => ImagesInv') /\ (ByRows => RowsInv')
<1>1. /\ out' = [i \in 1 .. total |-> Blank] /\ total \in Nat \ {0} /\ threads \in Nat \ {0}
      /\ UNCHANGED <<request, outcome, next>> /\ next = 1 /\ out = <<>>
      /\ total' = total /\ threads' = threads /\ Team' = Team
      /\ pc = [t \in Threads |-> "joined"] /\ image = [t \in Threads |-> 0]
  BY DEF Prepare, TypeInv, Fresh, Blank, Rows, request, Team
<1>2. Team \subseteq Threads /\ Master \in Team /\ Master \in Threads
  <2>1. threads \in 0 .. MaxThreads
    BY DEF TypeInv, TypeOK
  <2>2. QED
    BY <1>1, <2>1, CountsAssumption DEF Team, Threads, Master
<1>3. CASE ~ByRows
  <2>1. pc' = [t \in Threads |-> IF t \in Team THEN "claim" ELSE "joined"] /\ UNCHANGED <<image, todo>>
    BY <1>3 DEF Prepare
  <2>2. /\ \A t \in Threads : pc'[t] \in {"claim", "joined"}
        /\ \A t \in Team' : pc'[t] # "joined"
        /\ \A i \in 1 .. total' : i >= next' /\ out'[i] = Blank
    BY <1>1, <1>2, <2>1
  <2>3. QED
    BY <1>3, <2>2 DEF ImagesInv, Active
<1>4. CASE ByRows
  <2>1. Fork("resize", OutputRows) /\ image' = [t \in Threads |-> 1]
    BY <1>4 DEF Prepare
  <2>2. /\ \A t \in Threads \ Team : pc'[t] = "joined"
        /\ \A t \in Team : pc'[t] = "resize" /\ todo'[t] = Share(t, OutputRows)
    BY <1>2, <2>1 DEF Fork
  <2>3. Left' = Rows
    <3>1. Left' = UNION {Share(t, OutputRows) : t \in Team}
      BY <1>1, <2>2 DEF Left
    <3>2. \A y \in 1 .. OutputRows : \E t \in Team : y \in Share(t, OutputRows)
      BY <1>1, SizeFacts, ShareOfOne
    <3>3. QED
      BY <3>1, <3>2 DEF Share, Rows
  <2>4. Current' = 1 /\ 1 \in 1 .. total
    BY <1>1, <1>2, <2>1 DEF Current
  <2>5. out'[Current'] = ResizedBut(Left')
    BY <1>1, <2>3, <2>4, LoopEnds
  <2>6. \A u : Share(u, OutputRows)' = Share(u, OutputRows)
    BY <1>1 DEF Share, request
  <2>7. Resizing'
    BY <1>1, <2>2, <2>5, <2>6 DEF Resizing
  <2>8. \A i \in 1 .. total' : /\ i < Current' => out'[i] = Finished
                               /\ i > Current' => out'[i] = Blank
    BY <1>1, <2>4
  <2>9. QED
    BY <1>1, <1>4, <2>1, <2>2, <2>4, <2>7, <2>8 DEF RowsInv
<1>5. QED
  BY <1>3, <1>4

LEMMA PixelStep == PixelInv /\ [Next]_vars => PixelInv'
<1> SUFFICES ASSUME PixelInv, [Next]_vars PROVE PixelInv'
  OBVIOUS
<1>1. TypeInv /\ TypeInv'
  BY CpuTypes DEF PixelInv
<1>2. CASE Call
  <2>1. outcome = "idle" /\ outcome' = "running" /\ UNCHANGED <<work, pc>>
    BY <1>2 DEF Call
  <2>2. out = <<>> /\ out' = <<>>
    BY <1>1, <2>1 DEF TypeInv, work
  <2>3. QED
    BY <1>1, <2>1, <2>2 DEF PixelInv
<1>3. CASE Reject
  <2>1. out = <<>> /\ out' = <<>> /\ outcome' = "failed"
    BY <1>3 DEF Reject, work
  <2>2. QED
    BY <1>1, <2>1 DEF PixelInv
<1>4. CASE Prepare
  <2>1. outcome' = "running" /\ ByRows' = ByRows
    BY <1>4 DEF Prepare, request, ByRows
  <2>2. QED
    BY <1>1, <1>4, <2>1, PixelsPrepared DEF PixelInv
<1>5. CASE Synchronize
  <2>1. /\ outcome' = "running" /\ out # <<>> /\ out' = out /\ ByRows /\ ByRows' = ByRows
    BY <1>5 DEF Synchronize, request, ByRows
  <2>2. QED
    BY <1>1, <1>5, <2>1, RowsSynchronized DEF PixelInv
<1>6. CASE Return
  <2>1. /\ out # <<>> /\ UNCHANGED <<parallel, total, threads, out, image, todo, next, pc>>
        /\ \A t \in Threads : pc[t] = "joined"
    BY <1>6 DEF Return, request, work
  <2>2. /\ ByRows' = ByRows /\ Team' = Team /\ Current' = Current /\ Left' = Left
        /\ \A t : Active(t)' = Active(t)
        /\ \A t, n : Share(t, n)' = Share(t, n)
    BY <2>1 DEF ByRows, Team, Current, Left, Active, Share
  <2>3. ImagesInv => ImagesInv'
    BY <2>1, <2>2 DEF ImagesInv
  <2>4. (Resizing => Resizing') /\ (Marking => Marking')
    BY <2>1, <2>2 DEF Resizing, Marking
  <2>5. (Recording => Recording') /\ (Done => Done')
    BY <2>1, <2>2 DEF Recording, Done
  <2>6. RowsInv => RowsInv'
    BY <2>1, <2>2, <2>4, <2>5 DEF RowsInv
  <2>7. QED
    BY <1>1, <2>1, <2>2, <2>3, <2>6 DEF PixelInv
<1>7. ASSUME NEW t \in Threads, Step(t) PROVE PixelInv'
  <2>1. pc[t] # "joined" /\ UNCHANGED <<request, outcome>>
    BY <1>7 DEF Step, Claim, ResizeRow, MarkRow, EndLoop, Record, Report, RecordSequential
  <2>2. out # <<>> /\ outcome # "succeeded"
    BY <1>1, <2>1 DEF PixelInv, TypeInv, Fresh
  <2>3. ByRows' = ByRows
    BY <2>1 DEF ByRows, request
  <2>4. QED
    BY <1>1, <1>7, <2>1, <2>2, <2>3, ImagesKept, RowsKept DEF PixelInv
<1>8. CASE Returned \/ UNCHANGED vars
  <2>1. UNCHANGED <<parallel, total, threads, outcome, out, image, todo, next, pc>>
    BY <1>8 DEF Returned, vars, request, work
  <2>2. /\ ByRows' = ByRows /\ Team' = Team /\ Current' = Current /\ Left' = Left
        /\ \A t : Active(t)' = Active(t)
        /\ \A t, n : Share(t, n)' = Share(t, n)
    BY <2>1 DEF ByRows, Team, Current, Left, Active, Share
  <2>3. ImagesInv => ImagesInv'
    BY <2>1, <2>2 DEF ImagesInv
  <2>4. (Resizing => Resizing') /\ (Marking => Marking')
    BY <2>1, <2>2 DEF Resizing, Marking
  <2>5. (Recording => Recording') /\ (Done => Done')
    BY <2>1, <2>2 DEF Recording, Done
  <2>6. RowsInv => RowsInv'
    BY <2>1, <2>2, <2>4, <2>5 DEF RowsInv
  <2>7. QED
    BY <1>1, <2>1, <2>2, <2>3, <2>6 DEF PixelInv
<1>9. QED
  BY <1>2, <1>3, <1>4, <1>5, <1>6, <1>7, <1>8 DEF Next, Caller

(* Theorem.  For any number of images, rows and threads and any schedule,  *)
(* no row is blended before it is resized or twice, and a batch that       *)
(* succeeds has the pixels of the Sequential back end.                     *)
THEOREM PixelsAreAsSequential == Spec => []PixelsAsSequential
<1>1. QED
  BY PixelInit, PixelStep, PixelsFromInv, PTL DEF Spec

-----------------------------------------------------------------------------
(* The progress.  An image is recorded once it is finished and nobody      *)
(* works on it any more.                                                   *)

Working == {"resize", "mark", "resized", "marked", "record"}
Busy(i) == \E t \in Threads : image[t] = i /\ pc[t] \in Working
Recorded == {i \in 1 .. total : out[i] = Finished /\ ~Busy(i)}

(* What is not finished does not look finished.                            *)
LEMMA Unfinished ==
  /\ Blank # Finished
  /\ \A Y \in SUBSET Rows : Y # {} => ResizedBut(Y) # Finished
  /\ \A Y \in SUBSET MarkRows : Y # {} => MarkedBut(Y) # Finished
<1>1. ASSUME NEW Y \in SUBSET Rows, Y # {} PROVE ResizedBut(Y) # Finished
  <2>1. PICK y \in Y : y \in Rows
    BY <1>1
  <2>2. ResizedBut(Y)[y] = "blank" /\ Finished[y] # "blank"
    BY <2>1 DEF ResizedBut, Finished, Rows
  <2>3. QED
    BY <2>2
<1>2. ASSUME NEW Y \in SUBSET MarkRows, Y # {} PROVE MarkedBut(Y) # Finished
  <2>1. PICK y \in Y : y \in MarkRows
    BY <1>2
  <2>2. Origin + y \in Rows /\ (Origin + y) - Origin = y
    BY <2>1, SizeFacts DEF MarkRows
  <2>3. MarkedBut(Y)[Origin + y] = "resized" /\ Finished[Origin + y] = "marked"
    BY <2>1, <2>2 DEF MarkedBut, Finished, Rows, MarkRows
  <2>4. QED
    BY <2>3
<1>3. Rows # {}
  BY RowsAssumption DEF Rows
<1>4. QED
  BY <1>1, <1>2, <1>3, LoopEnds

(* Whatever the schedule, a thread that records or reports holds an image  *)
(* of the batch that is finished and that nobody else works on.            *)
LEMMA HeldFinished ==
  ASSUME PixelInv, out # <<>>, NEW t \in Threads, pc[t] \in {"record", "report"}
  PROVE  /\ image[t] \in 1 .. total /\ out[image[t]] = Finished
         /\ \A u \in Threads : u # t /\ pc[u] \in Working => image[u] # image[t]
<1>1. next \in 1 .. total + 1 /\ total \in Nat /\ Team \subseteq Threads /\ Master \in Team
  BY ThreadFacts DEF PixelInv, TypeInv, TypeOK
<1>2. CASE ~ByRows
  <2>1. ImagesInv /\ Active(t)
    BY <1>2 DEF PixelInv, Active
  <2>2. image[t] \in 1 .. next - 1
    BY <2>1 DEF ImagesInv
  <2>3. image[t] \in 1 .. total
    BY <1>1, <2>2
  <2>4. \A u \in Threads : pc[u] \in Working => Active(u)
    BY <2>1 DEF ImagesInv, Active, Working
  <2>5. QED
    BY <2>1, <2>3, <2>4 DEF ImagesInv
<1>3. CASE ByRows
  <2>1. RowsInv
    BY <1>3 DEF PixelInv
  <2>2. Recording /\ t = Master
    BY <2>1 DEF RowsInv, Resizing, Marking, Recording, Done
  <2>3. \A u \in Threads : u # t => pc[u] = "joined"
    BY <2>1, <2>2 DEF RowsInv, Recording
  <2>4. QED
    BY <1>1, <2>1, <2>2, <2>3 DEF RowsInv, Recording, Current, Working
<1>4. QED
  BY <1>2, <1>3

(* The steps of the pixels record nothing.                                 *)
LEMMA PixelsRecordNothing ==
  ASSUME PixelInv, out # <<>>, NEW t \in Threads,
         Claim(t) \/ ResizeRow(t) \/ MarkRow(t) \/ EndLoop(t)
  PROVE  Recorded' = Recorded
<1>1. /\ pc \in [Threads -> PcSteps] /\ out \in [1 .. total -> [Rows -> RowStates]]
      /\ image \in [Threads -> 0 .. total] /\ next \in 1 .. total + 1 /\ total \in Nat
  BY ThreadFacts DEF PixelInv, TypeInv, TypeOK, PcSteps
<1>2. total' = total /\ Finished' = Finished
  BY DEF Claim, ResizeRow, MarkRow, EndLoop, request, Finished
<1>3. CASE Claim(t)
  <2>1. out' = out /\ pc[t] = "claim"
    BY <1>3 DEF Claim
  <2>2. ~ByRows
    BY <2>1 DEF PixelInv, RowsInv, Resizing, Marking, Recording, Done, Master
  <2>3. CASE next <= total
    <3>1. /\ image' = [image EXCEPT ![t] = next] /\ pc' = [pc EXCEPT ![t] = "resize"]
      BY <1>3, <2>3 DEF Claim
    <3>2. next \in 1 .. total
      BY <1>1, <2>3
    <3>3. out[next] = Blank
      <4>1. ImagesInv
        BY <2>2 DEF PixelInv
      <4>2. \/ next >= next /\ out[next] = Blank
            \/ next < next /\ out[next] = Finished
            \/ \E u \in Threads : Active(u) /\ image[u] = next
        BY <3>2, <4>1 DEF ImagesInv
      <4>3. \A u \in Threads : Active(u) => image[u] \in 1 .. next - 1
        BY <4>1 DEF ImagesInv
      <4>4. QED
        BY <1>1, <4>2, <4>3
    <3>4. \A i \in 1 .. total : i # next => (Busy(i)' <=> Busy(i))
      BY <1>1, <2>1, <3>1 DEF Busy, Working
    <3>5. QED
      BY <1>2, <2>1, <3>3, <3>4, Unfinished DEF Recorded
  <2>4. CASE ~(next <= total)
    <3>1. image' = image /\ pc' = [pc EXCEPT ![t] = "joined"]
      BY <1>3, <2>4 DEF Claim
    <3>2. \A i \in 1 .. total : Busy(i)' <=> Busy(i)
      BY <1>1, <2>1, <3>1 DEF Busy, Working
    <3>3. QED
      BY <1>2, <2>1, <3>2 DEF Recorded
  <2>5. QED
    BY <2>3, <2>4
<1>4. CASE ResizeRow(t) \/ MarkRow(t)
  <2>1. /\ pc[t] \in Working /\ pc' = pc /\ image' = image
        /\ \E v : out' = [out EXCEPT ![image[t]] = v]
    BY <1>4 DEF ResizeRow, MarkRow, Working
  <2>2. \A i \in 1 .. total : Busy(i)' <=> Busy(i)
    BY <2>1 DEF Busy
  <2>3. Busy(image[t])
    BY <2>1 DEF Busy
  <2>4. \A i \in 1 .. total : i # image[t] => out'[i] = out[i]
    BY <1>1, <2>1
  <2>5. QED
    BY <1>2, <2>2, <2>3, <2>4 DEF Recorded
<1>5. CASE EndLoop(t)
  <2>1. /\ pc[t] \in Working /\ image' = image /\ out' = out
        /\ \E step \in Working : pc' = [pc EXCEPT ![t] = step]
    BY <1>5 DEF EndLoop, Working
  <2>2. \A i \in 1 .. total : Busy(i)' <=> Busy(i)
    BY <1>1, <2>1 DEF Busy
  <2>3. QED
    BY <1>2, <2>1, <2>2 DEF Recorded
<1>6. QED
  BY <1>3, <1>4, <1>5

LEMMA BarriersRecordNothing ==
  ASSUME PixelInv, out # <<>>, Synchronize
  PROVE  Recorded' = Recorded
<1>1. /\ pc \in [Threads -> PcSteps] /\ Team \subseteq Threads /\ Master \in Team
      /\ RowsInv /\ total' = total /\ out' = out /\ image' = image /\ Finished' = Finished
  BY ThreadFacts DEF PixelInv, TypeInv, TypeOK, PcSteps, Synchronize, request, Finished
<1>2. \A t \in Threads : image[t] = Current
  BY <1>1 DEF RowsInv
<1>3. (\E t \in Threads : pc'[t] \in Working) /\ (\E t \in Threads : pc[t] \in Working)
  <2>1. pc[Master] \in Working
    BY <1>1 DEF Synchronize, Barrier, Join, Working
  <2>2. pc'[Master] \in Working
    BY <1>1 DEF Synchronize, Barrier, Join, Fork, Working
  <2>3. QED
    BY <1>1, <2>1, <2>2
<1>4. \A i \in 1 .. total : Busy(i)' <=> Busy(i)
  BY <1>1, <1>2, <1>3 DEF Busy
<1>5. QED
  BY <1>1, <1>4 DEF Recorded

(* The step that records the image of a thread, or that leaves it after.   *)
LEMMA ImageRecorded ==
  ASSUME PixelInv, out # <<>>, NEW t \in Threads, pc[t] \in {"record", "report"},
         UNCHANGED <<request, out>>,
         \/ NextImage(t)
         \/ pc' = [pc EXCEPT ![t] = "report"] /\ image' = image
  PROVE  /\ Recorded' = Recorded \cup {image[t]}
         /\ image[t] \in Recorded <=> pc[t] = "report"
<1>1. /\ pc \in [Threads -> PcSteps] /\ total \in Nat /\ total' = total /\ out' = out
      /\ Finished' = Finished /\ Team \subseteq Threads /\ Master \in Team
  BY ThreadFacts DEF PixelInv, TypeInv, TypeOK, PcSteps, request, Finished
<1>2. /\ image[t] \in 1 .. total /\ out[image[t]] = Finished
      /\ \A u \in Threads : u # t /\ pc[u] \in Working => image[u] # image[t]
  BY HeldFinished
<1>3. image[t] \in Recorded <=> pc[t] = "report"
  BY <1>2 DEF Recorded, Busy, Working
<1>4. CASE image' = image /\ \E step \in {"report", "claim", "joined"} : pc' = [pc EXCEPT ![t] = step]
  <2>1. ~Busy(image[t])'
    BY <1>1, <1>2, <1>4 DEF Busy, Working
  <2>2. \A i \in 1 .. total : i # image[t] => (Busy(i)' <=> Busy(i))
    BY <1>1, <1>4 DEF Busy, Working
  <2>3. QED
    BY <1>1, <1>2, <1>3, <1>4, <2>1, <2>2 DEF Recorded
<1>5. CASE NextImage(t) /\ ByRows /\ image[t] < total
  <2>1. Fork("resize", OutputRows) /\ image' = [u \in Threads |-> image[t] + 1]
    BY <1>5 DEF NextImage
  <2>2. RowsInv
    BY <1>5 DEF PixelInv
  <2>3. Recording /\ t = Master
    BY <2>2 DEF RowsInv, Resizing, Marking, Recording, Done
  <2>4. Current = image[t] /\ Current + 1 \in 1 .. total /\ Current + 1 > Current
    BY <1>1, <1>2, <1>5, <2>3 DEF Current
  <2>5. out[Current + 1] = Blank
    BY <2>2, <2>4 DEF RowsInv
  <2>6. \A i : Busy(i)' <=> i = Current + 1
    <3>1. Master \in Threads /\ pc'[Master] = "resize"
      BY <1>1, <2>1 DEF Fork
    <3>2. \A u \in Threads : image'[u] = Current + 1
      BY <2>1, <2>4
    <3>3. QED
      BY <3>1, <3>2 DEF Busy, Working
  <2>7. \A i : Busy(i) => i = image[t]
    <3>1. \A u \in Threads : u # t => pc[u] = "joined"
      BY <2>2, <2>3 DEF RowsInv, Recording
    <3>2. QED
      BY <3>1 DEF Busy, Working
  <2>8. ASSUME NEW i \in 1 .. total
        PROVE  i \in Recorded' <=> i \in Recorded \cup {image[t]}
    <3>1. i \in Recorded' <=> out[i] = Finished /\ i # Current + 1
      BY <1>1, <2>6 DEF Recorded
    <3>2. i \in Recorded <=> out[i] = Finished /\ ~Busy(i)
      BY DEF Recorded
    <3>3. CASE i = image[t]
      BY <1>2, <2>4, <3>1, <3>3
    <3>4. CASE i # image[t]
      BY <2>5, <2>7, <3>1, <3>2, <3>4, Unfinished
    <3>5. QED
      BY <3>3, <3>4
  <2>9. Recorded' \subseteq 1 .. total /\ Recorded \subseteq 1 .. total
    BY <1>1 DEF Recorded
  <2>10. QED
    BY <1>2, <1>3, <2>8, <2>9
<1>6. CASE NextImage(t) /\ ~(ByRows /\ image[t] < total)
  <2>1. UNCHANGED image /\ \E step \in {"claim", "joined"} : pc' = [pc EXCEPT ![t] = step]
    BY <1>6 DEF NextImage
  <2>2. QED
    BY <1>4, <2>1
<1>7. CASE pc' = [pc EXCEPT ![t] = "report"] /\ image' = image
  BY <1>4, <1>7
<1>8. QED
  BY <1>3, <1>5, <1>6, <1>7

Last == IF samples = <<>> THEN 0 ELSE samples[Len(samples)].processed
Timed == UNION {samples[k].timed : k \in DOMAIN samples}

(* Sequential takes the images in their order.                             *)
InOrder ==
  ~parallel =>
    /\ \A t \in Threads \ {Master} : pc[t] = "joined"
    /\ pc[Master] \in {"claim", "joined"} => next = tracker.processed + 1
    /\ pc[Master] \in {"resize", "mark", "record"} =>
         image[Master] = tracker.processed + 1 /\ next = tracker.processed + 2

(* The tracker owned by nobody has less than an interval to report; owned  *)
(* by a thread, it has a sample to report that the thread is about to.     *)
OwnerInv ==
  /\ \A t \in Threads : pc[t] = "report" => tracker.owner = t
  /\ tracker.owner = 0 =>
       /\ Cardinality(tracker.interval) < ProgressInterval
       /\ tracker.processed = total => tracker.interval = {}
  /\ tracker.owner # 0 =>
       /\ parallel /\ tracker.owner \in Threads /\ pc[tracker.owner] = "report"
       /\ Cardinality(tracker.interval) \in 1 .. ProgressInterval
       /\ Cardinality(tracker.interval) = ProgressInterval \/ tracker.processed = total

(* The recorded images are those of the samples and of the interval.       *)
TallyInv ==
  /\ tracker.processed = Cardinality(Recorded)
  /\ Recorded = tracker.interval \cup Timed
  /\ \A k \in DOMAIN samples : samples[k].timed \cap tracker.interval = {}
  /\ tracker.processed = Last + Cardinality(tracker.interval)
  /\ Last \in {Len(samples) * ProgressInterval, total}

SampleInv == SamplesAccountForImages /\ TallyInv /\ OwnerInv /\ InOrder

LEMMA SetSizes ==
  ASSUME NEW n \in Nat, NEW S \in SUBSET (1 .. n)
  PROVE  /\ IsFiniteSet(S) /\ Cardinality(S) \in 0 .. n
         /\ Cardinality(S) = n => S = 1 .. n
         /\ Cardinality(S) = 0 <=> S = {}
<1>1. IsFiniteSet(1 .. n) /\ Cardinality(1 .. n) = n
  BY FS_Interval
<1>2. IsFiniteSet(S) /\ Cardinality(S) <= n /\ (Cardinality(S) = n => S = 1 .. n)
  BY <1>1, FS_Subset
<1>3. Cardinality(S) \in Nat /\ (Cardinality(S) = 0 <=> S = {})
  BY <1>2, FS_CardinalityType, FS_EmptySet
<1>4. QED
  BY <1>2, <1>3

(* The index of an image within its interval.                              *)
LEMMA Remainder ==
  ASSUME NEW n \in Nat, NEW m \in Nat \ {0}, NEW c \in 1 .. m
  PROVE  (n * m + c) % m = IF c = m THEN 0 ELSE c
<1> DEFINE x == n * m + c
<1>1. x \in Nat /\ n * m \in Nat
  OBVIOUS
<1>2. x = n * m + c
  OBVIOUS
<1> HIDE DEF x
<1> DEFINE q == x \div m
           r == x % m
<1>3. q \in Int /\ r \in 0 .. m - 1 /\ x = m * q + r
  BY <1>1
<1> HIDE DEF q, r
<1>4. CASE q < n
  <2>1. PICK d \in Nat : n = q + 1 + d
    <3>1. n - q - 1 \in Nat /\ n = q + 1 + (n - q - 1)
      BY <1>3, <1>4
    <3>2. QED
      BY <3>1
  <2>2. n * m = m * q + m + d * m /\ d * m \in Nat
    BY <1>3, <2>1
  <2>3. QED
    BY <1>1, <1>2, <1>3, <2>2
<1>5. CASE q = n
  BY <1>1, <1>2, <1>3, <1>5 DEF r, x
<1>6. CASE q = n + 1
  <2>1. m * q = n * m + m
    BY <1>6
  <2>2. c = m + r
    BY <1>1, <1>2, <1>3, <2>1
  <2>3. c = m /\ r = 0
    BY <1>3, <2>2
  <2>4. QED
    BY <2>3 DEF r, x
<1>7. CASE q > n + 1
  <2>1. PICK d \in Nat : q = n + 2 + d
    <3>1. q - n - 2 \in Nat /\ q = n + 2 + (q - n - 2)
      BY <1>3, <1>7
    <3>2. QED
      BY <3>1
  <2>2. m * q = n * m + m + m + d * m /\ d * m \in Nat
    BY <1>3, <2>1
  <2>3. QED
    BY <1>1, <1>2, <1>3, <2>2
<1>8. QED
  BY <1>3, <1>4, <1>5, <1>6, <1>7

(* One more sample.                                                        *)
LEMMA SampleAppended ==
  ASSUME total \in Nat, total' = total, samples \in Seq(Sample), SamplesAccountForImages,
         NEW p \in Nat, NEW I \in SUBSET (1 .. total), p <= total,
         p = Last + Cardinality(I), Last \in {Len(samples) * ProgressInterval, total},
         Cardinality(I) \in 1 .. ProgressInterval,
         Cardinality(I) = ProgressInterval \/ p = total,
         \A k \in DOMAIN samples : samples[k].timed \cap I = {},
         samples' = Append(samples, [processed |-> p, timed |-> I, divisor |-> Cardinality(I)])
  PROVE  /\ SamplesAccountForImages' /\ Last' = p /\ Timed' = Timed \cup I
         /\ p \in {Len(samples') * ProgressInterval, total}
<1> DEFINE n == Len(samples)
           s == [processed |-> p, timed |-> I, divisor |-> Cardinality(I)]
<1>1. n \in Nat /\ DOMAIN samples = 1 .. n /\ \A k \in 1 .. n : samples[k] \in Sample
  OBVIOUS
<1>2. /\ DOMAIN samples' = 1 .. n + 1 /\ Len(samples') = n + 1 /\ samples'[n + 1] = s
      /\ \A k \in 1 .. n : samples'[k] = samples[k]
  BY <1>1
<1>3. samples' # <<>>
  BY <1>1, <1>2
<1>4. Last' = p
  BY <1>2, <1>3 DEF Last
<1>5. Timed' = Timed \cup I
  <2>1. \A x : x \in Timed' <=> \E k \in 1 .. n + 1 : x \in samples'[k].timed
    BY <1>2 DEF Timed
  <2>2. \A x : x \in Timed <=> \E k \in 1 .. n : x \in samples[k].timed
    BY <1>1 DEF Timed
  <2>3. \A k : k \in 1 .. n + 1 <=> k \in 1 .. n \/ k = n + 1
    BY <1>1
  <2>4. samples'[n + 1].timed = I
    BY <1>2
  <2>5. \A x : x \in Timed' <=> x \in Timed \/ x \in I
    BY <1>2, <2>1, <2>2, <2>3, <2>4
  <2>6. QED
    BY <2>5
<1>6. Last \in Nat /\ Last = (IF n = 0 THEN 0 ELSE samples[n].processed)
  <2>1. CASE n = 0
    BY <1>1, <2>1 DEF Last
  <2>2. CASE n # 0
    <3>1. samples # <<>> /\ n \in 1 .. n
      BY <1>1, <2>2
    <3>2. samples[n].processed \in Nat
      BY <1>1, <3>1 DEF Sample
    <3>3. QED
      BY <2>2, <3>1, <3>2 DEF Last
  <2>3. QED
    BY <2>1, <2>2
<1>7. Last = n * ProgressInterval
  BY <1>6
<1>8. p \in {(n + 1) * ProgressInterval, total}
  <2>1. (n + 1) * ProgressInterval = n * ProgressInterval + ProgressInterval
    BY <1>1, IntervalAssumption
  <2>2. QED
    BY <1>7, <2>1
<1>9. ASSUME NEW k \in DOMAIN samples'
      PROVE  LET x == samples'[k]
                 before == IF k = 1 THEN 0 ELSE samples'[k - 1].processed
             IN  /\ Cardinality(x.timed) = x.divisor
                 /\ x.divisor = x.processed - before
                 /\ x.processed \in {k * ProgressInterval, total'}
                 /\ \A j \in 1 .. k - 1 : samples'[j].timed \cap x.timed = {}
  <2>1. CASE k \in 1 .. n
    <3>1. /\ samples'[k] = samples[k] /\ (k # 1 => samples'[k - 1] = samples[k - 1])
          /\ \A j \in 1 .. k - 1 : samples'[j] = samples[j]
      BY <1>1, <1>2, <2>1
    <3>2. LET x == samples[k]
              before == IF k = 1 THEN 0 ELSE samples[k - 1].processed
          IN  /\ Cardinality(x.timed) = x.divisor
              /\ x.divisor = x.processed - before
              /\ x.processed \in {k * ProgressInterval, total}
              /\ \A j \in 1 .. k - 1 : samples[j].timed \cap x.timed = {}
      BY <1>1, <2>1 DEF SamplesAccountForImages
    <3>3. QED
      BY <3>1, <3>2
  <2>2. CASE k = n + 1
    <3>1. samples'[k] = s /\ s.timed = I /\ s.processed = p /\ s.divisor = Cardinality(I)
      BY <1>2, <2>2
    <3>2. (IF k = 1 THEN 0 ELSE samples'[k - 1].processed) = Last
      <4>1. CASE n = 0
        BY <1>6, <2>2, <4>1
      <4>2. CASE n # 0
        <5>1. k # 1 /\ k - 1 = n /\ n \in 1 .. n
          BY <1>1, <2>2, <4>2
        <5>2. QED
          BY <1>2, <1>6, <4>2, <5>1
      <4>3. QED
        BY <4>1, <4>2
    <3>3. Cardinality(I) = p - Last
      BY <1>6
    <3>4. \A j \in 1 .. k - 1 : samples'[j].timed \cap I = {}
      BY <1>1, <1>2, <2>2
    <3>5. p \in {k * ProgressInterval, total'}
      BY <1>8, <2>2
    <3>6. QED
      BY <3>1, <3>2, <3>3, <3>4, <3>5
  <2>3. QED
    BY <1>1, <1>2, <2>1, <2>2
<1>10. SamplesAccountForImages'
  BY <1>9 DEF SamplesAccountForImages
<1>11. QED
  BY <1>2, <1>4, <1>5, <1>8, <1>10

(* The recorded images are finitely many, each of them in one interval.    *)
LEMMA RecordedFinite ==
  ASSUME total \in Nat
  PROVE  Recorded \in SUBSET (1 .. total) /\ IsFiniteSet(Recorded) /\ Cardinality(Recorded) \in 0 .. total
<1>1. Recorded \in SUBSET (1 .. total)
  BY DEF Recorded
<1>2. QED
  BY <1>1, SetSizes

(* What follows a recorded image is not another report.                    *)
LEMMA NextImageReportsNothing ==
  ASSUME TypeInv, NEW t \in Threads, NextImage(t)
  PROVE  \A u \in Threads : pc'[u] = "report" => pc[u] = "report" /\ u # t
<1>1. pc \in [Threads -> PcSteps]
  BY DEF TypeInv, TypeOK, PcSteps
<1>2. QED
  BY <1>1 DEF NextImage, Fork

(* The steps of the pixels leave the progress alone.                       *)
LEMMA PixelsKeepSamples ==
  ASSUME PixelInv, out # <<>>, SampleInv, NEW t \in Threads,
         Claim(t) \/ ResizeRow(t) \/ MarkRow(t) \/ EndLoop(t)
  PROVE  SampleInv'
<1>1. /\ pc \in [Threads -> PcSteps] /\ image \in [Threads -> 0 .. total]
      /\ next \in Nat /\ Master \in Threads
  BY ThreadFacts DEF PixelInv, TypeInv, TypeOK, PcSteps
<1>2. Recorded' = Recorded
  BY PixelsRecordNothing
<1>3. UNCHANGED <<parallel, total, tracker, samples>>
  BY DEF Claim, ResizeRow, MarkRow, EndLoop, request
<1>4. SamplesAccountForImages' /\ TallyInv'
  BY <1>2, <1>3 DEF SampleInv, SamplesAccountForImages, TallyInv, Last, Timed
<1>5. \A u \in Threads : pc'[u] = "report" <=> pc[u] = "report"
  BY <1>1 DEF Claim, ResizeRow, MarkRow, EndLoop
<1>6. OwnerInv'
  BY <1>3, <1>5 DEF SampleInv, OwnerInv
<1>7. InOrder'
  <2>1. SUFFICES ASSUME ~parallel PROVE InOrder'
    BY <1>3 DEF InOrder
  <2>2. /\ \A u \in Threads \ {Master} : pc[u] = "joined"
        /\ pc[Master] \in {"claim", "joined"} => next = tracker.processed + 1
        /\ pc[Master] \in {"resize", "mark", "record"} =>
             image[Master] = tracker.processed + 1 /\ next = tracker.processed + 2
    BY <2>1 DEF SampleInv, InOrder
  <2>3. t = Master
    BY <2>2 DEF Claim, ResizeRow, MarkRow, EndLoop
  <2>4. \A u \in Threads \ {Master} : pc'[u] = "joined"
    BY <1>1, <2>2, <2>3 DEF Claim, ResizeRow, MarkRow, EndLoop
  <2>5. tracker.processed \in Nat
    BY DEF PixelInv, TypeInv, TypeOK
  <2>6. CASE Claim(t)
    <3>1. next = tracker.processed + 1 /\ tracker.processed + 1 + 1 = tracker.processed + 2
      BY <2>2, <2>3, <2>5, <2>6 DEF Claim
    <3>2. CASE next <= total
      <4>1. image' = [image EXCEPT ![t] = next] /\ next' = next + 1 /\ pc' = [pc EXCEPT ![t] = "resize"]
        BY <2>6, <3>2 DEF Claim
      <4>2. pc'[Master] = "resize" /\ image'[Master] = next
        BY <1>1, <2>3, <4>1
      <4>3. QED
        BY <1>3, <2>4, <3>1, <4>1, <4>2 DEF InOrder
    <3>3. CASE ~(next <= total)
      <4>1. next' = next /\ pc' = [pc EXCEPT ![t] = "joined"]
        BY <2>6, <3>3 DEF Claim
      <4>2. pc'[Master] = "joined"
        BY <1>1, <2>3, <4>1
      <4>3. QED
        BY <1>3, <2>4, <3>1, <4>1, <4>2 DEF InOrder
    <3>4. QED
      BY <3>2, <3>3
  <2>7. CASE ResizeRow(t) \/ MarkRow(t) \/ EndLoop(t)
    <3>1. /\ pc[Master] \in {"resize", "mark"} /\ pc'[Master] \in {"resize", "mark", "record", "resized", "marked"}
          /\ image' = image /\ next' = next
      BY <1>1, <2>3, <2>7 DEF ResizeRow, MarkRow, EndLoop
    <3>2. QED
      BY <1>3, <2>2, <2>4, <3>1 DEF InOrder
  <2>8. QED
    BY <2>6, <2>7
<1>8. QED
  BY <1>4, <1>6, <1>7 DEF SampleInv

LEMMA BarriersKeepSamples ==
  ASSUME PixelInv, out # <<>>, SampleInv, Synchronize
  PROVE  SampleInv'
<1>1. Recorded' = Recorded
  BY BarriersRecordNothing
<1>2. UNCHANGED <<parallel, total, tracker, samples>> /\ parallel
  BY DEF Synchronize, request, ByRows
<1>3. SamplesAccountForImages' /\ TallyInv'
  BY <1>1, <1>2 DEF SampleInv, SamplesAccountForImages, TallyInv, Last, Timed
<1>4. \A u \in Threads : pc[u] # "report" /\ pc'[u] # "report"
  <2>1. RowsInv /\ Master \in Team /\ Team \subseteq Threads
    BY ThreadFacts DEF PixelInv, Synchronize
  <2>2. pc[Master] \in {"resized", "marked"}
    BY <2>1 DEF Synchronize, Barrier, Join
  <2>3. \A u \in Team : pc[u] \in {"resize", "resized", "mark", "marked"}
    BY <2>1, <2>2 DEF RowsInv, Resizing, Marking, Recording, Done
  <2>4. \A u \in Threads : pc[u] # "report"
    BY <2>1, <2>3 DEF RowsInv
  <2>5. QED
    BY <2>4 DEF Synchronize, Barrier, Join, Fork
<1>5. tracker.owner = 0
  BY <1>4 DEF SampleInv, OwnerInv
<1>6. OwnerInv'
  BY <1>2, <1>4, <1>5 DEF SampleInv, OwnerInv
<1>7. InOrder'
  BY <1>2 DEF InOrder
<1>8. QED
  BY <1>3, <1>6, <1>7 DEF SampleInv

(* The batch starts with nothing recorded.                                 *)
LEMMA SamplesPrepared ==
  ASSUME PixelInv, Prepare, parallel \/ threads = 1
  PROVE  SampleInv'
<1>1. /\ total \in Nat \ {0} /\ total' = total /\ parallel' = parallel
      /\ out' = [i \in 1 .. total |-> Blank]
  BY DEF Prepare, PixelInv, TypeInv, Fresh, request, Blank, Rows
<1>2. /\ next' = 1 /\ samples' = <<>> /\ tracker' = [owner |-> 0, processed |-> 0, interval |-> {}]
  BY DEF Prepare, PixelInv, TypeInv, Fresh
<1>3. \A u \in Threads : pc'[u] # "report"
  BY DEF Prepare, Fork
<1>4. Recorded' = {}
  BY <1>1, Unfinished DEF Recorded, Finished, Blank
<1>5. Cardinality({}) = 0 /\ DOMAIN samples' = {} /\ Len(samples') = 0 /\ 0 * ProgressInterval = 0
  BY <1>2, FS_EmptySet, IntervalAssumption
<1>6. Last' = 0 /\ Timed' = {}
  BY <1>2, <1>5 DEF Last, Timed
<1>7. SamplesAccountForImages'
  BY <1>5 DEF SamplesAccountForImages
<1>8. TallyInv'
  BY <1>2, <1>4, <1>5, <1>6 DEF TallyInv
<1>9. OwnerInv'
  BY <1>1, <1>2, <1>3, <1>5, IntervalAssumption DEF OwnerInv
<1>10. InOrder'
  <2>1. SUFFICES ASSUME ~parallel PROVE InOrder'
    BY <1>1 DEF InOrder
  <2>2. pc' = [u \in Threads |-> IF u \in Team THEN "claim" ELSE "joined"] /\ Team = {Master}
    BY <2>1 DEF Prepare, ByRows, Team, Master
  <2>3. (\A u \in Threads \ {Master} : pc'[u] = "joined") /\ pc'[Master] = "claim"
    BY <2>2, ThreadFacts
  <2>4. QED
    BY <1>2, <2>3 DEF InOrder
<1>11. QED
  BY <1>7, <1>8, <1>9, <1>10 DEF SampleInv

(* What a thread that records finds in the tracker.                        *)
LEMMA BeforeRecord ==
  ASSUME PixelInv, out # <<>>, SampleInv, NEW t \in Threads, pc[t] = "record", tracker.owner = 0,
         Recorded' = Recorded \cup {image[t]}, image[t] \notin Recorded, image[t] \in 1 .. total
  PROVE  LET p == tracker.processed + 1
             I == tracker.interval \cup {image[t]}
         IN  /\ p \in 1 .. total /\ I \in SUBSET (1 .. total)
             /\ Cardinality(I) = Cardinality(tracker.interval) + 1 /\ Cardinality(I) \in 1 .. ProgressInterval
             /\ p = Cardinality(Recorded') /\ Recorded' = I \cup Timed
             /\ p = Last + Cardinality(I)
             /\ \A k \in DOMAIN samples : samples[k].timed \cap I = {}
<1> DEFINE p == tracker.processed + 1
           I == tracker.interval \cup {image[t]}
<1>1. total \in Nat /\ tracker.interval \in SUBSET (1 .. total) /\ samples \in Seq(Sample)
  BY DEF PixelInv, TypeInv, TypeOK
<1>2. /\ tracker.processed = Cardinality(Recorded) /\ Recorded = tracker.interval \cup Timed
      /\ \A k \in DOMAIN samples : samples[k].timed \cap tracker.interval = {}
      /\ tracker.processed = Last + Cardinality(tracker.interval)
      /\ Last \in {Len(samples) * ProgressInterval, total}
      /\ Cardinality(tracker.interval) < ProgressInterval
  BY DEF SampleInv, TallyInv, OwnerInv
<1>3. Recorded \in SUBSET (1 .. total) /\ IsFiniteSet(Recorded) /\ Cardinality(Recorded) \in Nat
  BY <1>1, RecordedFinite
<1>4. Cardinality(Recorded') = Cardinality(Recorded) + 1
  BY <1>3, FS_AddElement
<1>5. Recorded' \in SUBSET (1 .. total)
  BY <1>3
<1>6. Cardinality(Recorded') \in 0 .. total
  <2>1. \A S \in SUBSET (1 .. total) : Cardinality(S) \in 0 .. total
    BY <1>1, SetSizes
  <2>2. QED
    BY <1>5, <2>1
<1>7. IsFiniteSet(tracker.interval) /\ Cardinality(tracker.interval) \in Nat
  BY <1>1, SetSizes
<1>8. Cardinality(I) = Cardinality(tracker.interval) + 1
  BY <1>2, <1>7, FS_AddElement
<1>9. Last \in Int
  BY <1>1, <1>2, IntervalAssumption
<1>10. p \in 1 .. total
  BY <1>1, <1>2, <1>3, <1>4, <1>6
<1>11. Cardinality(I) \in 1 .. ProgressInterval
  BY <1>2, <1>7, <1>8, IntervalAssumption
<1>12. p = Last + Cardinality(I)
  BY <1>2, <1>7, <1>8, <1>9
<1>13. \A k \in DOMAIN samples : samples[k].timed \cap I = {}
  <2>1. \A k \in DOMAIN samples : image[t] \notin samples[k].timed
    BY <1>2 DEF Timed
  <2>2. QED
    BY <1>2, <2>1
<1>14. p = Cardinality(Recorded') /\ Recorded' = I \cup Timed /\ I \in SUBSET (1 .. total)
  BY <1>1, <1>2, <1>4
<1>15. QED
  BY <1>8, <1>10, <1>11, <1>12, <1>13, <1>14

LEMMA RecordKeepsSamples ==
  ASSUME PixelInv, out # <<>>, SampleInv, NEW t \in Threads, Record(t)
  PROVE  SampleInv'
<1> DEFINE p == tracker.processed + 1
           I == tracker.interval \cup {image[t]}
<1>1. /\ parallel /\ pc[t] = "record" /\ tracker.owner = 0
      /\ UNCHANGED <<parallel, total, threads, out, samples>>
  BY DEF Record, MutexFree, request
<1>2. \/ /\ Due(p, I) /\ tracker' = [owner |-> t, processed |-> p, interval |-> I]
         /\ pc' = [pc EXCEPT ![t] = "report"] /\ image' = image
      \/ /\ ~Due(p, I) /\ tracker' = [tracker EXCEPT !.processed = p, !.interval = I]
         /\ NextImage(t)
  BY DEF Record
<1>3. UNCHANGED <<request, out>>
  BY <1>1 DEF request
<1>4. Recorded' = Recorded \cup {image[t]} /\ image[t] \notin Recorded
  BY <1>1, <1>2, <1>3, ImageRecorded
<1>5. image[t] \in 1 .. total
  BY <1>1, HeldFinished
<1>6. /\ p \in 1 .. total /\ I \in SUBSET (1 .. total)
      /\ Cardinality(I) = Cardinality(tracker.interval) + 1 /\ Cardinality(I) \in 1 .. ProgressInterval
      /\ p = Cardinality(Recorded') /\ Recorded' = I \cup Timed
      /\ p = Last + Cardinality(I)
      /\ \A k \in DOMAIN samples : samples[k].timed \cap I = {}
  BY <1>1, <1>4, <1>5, BeforeRecord
<1> HIDE DEF p, I
<1>7. /\ pc \in [Threads -> PcSteps] /\ total \in Nat
      /\ tracker \in [owner : 0 .. MaxThreads, processed : Nat, interval : SUBSET (1 .. total)]
  BY DEF PixelInv, TypeInv, TypeOK, PcSteps
<1>8. tracker'.processed = p /\ tracker'.interval = I
  <2>1. CASE tracker' = [owner |-> t, processed |-> p, interval |-> I]
    BY <2>1
  <2>2. CASE tracker' = [tracker EXCEPT !.processed = p, !.interval = I]
    BY <1>7, <2>2
  <2>3. QED
    BY <1>2, <2>1, <2>2
<1>9. SamplesAccountForImages' /\ Last' = Last /\ Timed' = Timed
  BY <1>1 DEF SampleInv, SamplesAccountForImages, Last, Timed
<1>10. TallyInv'
  BY <1>1, <1>6, <1>8, <1>9 DEF SampleInv, TallyInv
<1>11. \A u \in Threads : pc[u] # "report"
  BY <1>1, ThreadFacts DEF SampleInv, OwnerInv, Threads
<1>12. OwnerInv'
  <2>1. CASE Due(p, I) /\ tracker' = [owner |-> t, processed |-> p, interval |-> I]
             /\ pc' = [pc EXCEPT ![t] = "report"] /\ image' = image
    <3>1. \A u \in Threads : pc'[u] = "report" => u = t
      BY <1>7, <1>11, <2>1
    <3>2. tracker'.owner = t /\ t # 0 /\ t \in Threads' /\ pc'[t] = "report"
      BY <1>7, <2>1 DEF Threads
    <3>3. Cardinality(I) = ProgressInterval \/ p = total
      BY <1>6, <2>1, IntervalAssumption DEF Due
    <3>4. QED
      BY <1>1, <1>6, <1>8, <3>1, <3>2, <3>3 DEF OwnerInv
  <2>2. CASE ~Due(p, I) /\ tracker' = [tracker EXCEPT !.processed = p, !.interval = I] /\ NextImage(t)
    <3>1. \A u \in Threads : pc'[u] # "report"
      BY <1>11, <2>2, NextImageReportsNothing DEF PixelInv
    <3>2. tracker'.owner = 0
      BY <1>1, <1>7, <2>2
    <3>3. Cardinality(I) < ProgressInterval /\ p # total
      BY <1>6, <2>2, IntervalAssumption DEF Due
    <3>4. QED
      BY <1>1, <1>8, <3>1, <3>2, <3>3 DEF OwnerInv
  <2>3. QED
    BY <1>2, <2>1, <2>2
<1>13. InOrder'
  BY <1>1 DEF InOrder
<1>14. QED
  BY <1>9, <1>10, <1>12, <1>13 DEF SampleInv

LEMMA ReportKeepsSamples ==
  ASSUME PixelInv, out # <<>>, SampleInv, NEW t \in Threads, Report(t)
  PROVE  SampleInv' /\ tracker.processed > Last /\ Recorded' = Recorded
<1> DEFINE p == tracker.processed
           I == tracker.interval
<1>1. /\ pc[t] = "report" /\ UNCHANGED <<parallel, total, threads, out>> /\ NextImage(t)
      /\ samples' = Append(samples, [processed |-> p, timed |-> I, divisor |-> Cardinality(I)])
      /\ tracker' = [tracker EXCEPT !.owner = 0, !.interval = {}]
  BY DEF Report, Reset, request
<1>2. tracker.owner = t /\ t # 0
  BY <1>1 DEF SampleInv, OwnerInv, Threads
<1>3. /\ parallel /\ Cardinality(I) \in 1 .. ProgressInterval
      /\ Cardinality(I) = ProgressInterval \/ p = total
  BY <1>2 DEF SampleInv, OwnerInv
<1>4. UNCHANGED <<request, out>>
  BY <1>1 DEF request
<1>5. Recorded' = Recorded
  BY <1>1, <1>4, ImageRecorded
<1>6. /\ total \in Nat /\ samples \in Seq(Sample)
      /\ tracker \in [owner : 0 .. MaxThreads, processed : Nat, interval : SUBSET (1 .. total)]
  BY DEF PixelInv, TypeInv, TypeOK
<1>7. /\ p = Cardinality(Recorded) /\ Recorded = I \cup Timed
      /\ \A k \in DOMAIN samples : samples[k].timed \cap I = {}
      /\ p = Last + Cardinality(I) /\ Last \in {Len(samples) * ProgressInterval, total}
      /\ SamplesAccountForImages
  BY DEF SampleInv, TallyInv
<1>8. p \in Nat /\ p <= total /\ I \in SUBSET (1 .. total)
  BY <1>6, <1>7, RecordedFinite
<1>9. tracker'.processed = p /\ tracker'.interval = {} /\ tracker'.owner = 0
  BY <1>1, <1>6
<1> HIDE DEF p, I
<1>10. /\ SamplesAccountForImages' /\ Last' = p /\ Timed' = Timed \cup I
       /\ p \in {Len(samples') * ProgressInterval, total}
  BY <1>1, <1>3, <1>6, <1>7, <1>8, SampleAppended
<1>11. Cardinality({}) = 0
  BY FS_EmptySet
<1>12. TallyInv'
  BY <1>1, <1>5, <1>7, <1>8, <1>9, <1>10, <1>11 DEF TallyInv
<1>13. \A u \in Threads : pc'[u] # "report"
  <2>1. \A u \in Threads : pc[u] = "report" => u = t
    BY <1>2 DEF SampleInv, OwnerInv
  <2>2. QED
    BY <1>1, <2>1, NextImageReportsNothing DEF PixelInv
<1>14. OwnerInv'
  BY <1>9, <1>11, <1>13, IntervalAssumption DEF OwnerInv
<1>15. InOrder'
  BY <1>1, <1>3 DEF InOrder
<1>16. tracker.processed > Last
  BY <1>3, <1>6, <1>7, <1>8, IntervalAssumption DEF p
<1>17. QED
  BY <1>5, <1>10, <1>12, <1>14, <1>15, <1>16 DEF SampleInv

LEMMA SequentialKeepsSamples ==
  ASSUME PixelInv, out # <<>>, SampleInv, NEW t \in Threads, RecordSequential(t)
  PROVE  /\ SampleInv'
         /\ \/ samples' = samples
            \/ /\ Last' > Last /\ Last' = Cardinality(Recorded')
               /\ \E d, s : samples' = Append(samples, [processed |-> Last', timed |-> s, divisor |-> d])
<1> DEFINE p == tracker.processed + 1
           I == tracker.interval \cup {image[t]}
           remainder == image[t] % ProgressInterval
           due == remainder = 0 \/ image[t] = total
           divisor == IF remainder = 0 THEN ProgressInterval ELSE remainder
<1>1. /\ ~parallel /\ pc[t] = "record" /\ UNCHANGED <<parallel, total, threads, out, next>>
      /\ NextImage(t)
      /\ tracker' = [tracker EXCEPT !.processed = image[t], !.interval = IF due THEN {} ELSE I]
      /\ samples' = IF due THEN Append(samples, [processed |-> image[t], timed |-> I, divisor |-> divisor])
                    ELSE samples
  BY DEF RecordSequential, request
<1>2. tracker.owner = 0
  BY <1>1 DEF SampleInv, OwnerInv
<1>3. /\ t = Master /\ image[t] = p /\ next = tracker.processed + 2
      /\ \A u \in Threads \ {Master} : pc[u] = "joined"
  BY <1>1 DEF SampleInv, InOrder
<1>4. UNCHANGED <<request, out>>
  BY <1>1 DEF request
<1>5. Recorded' = Recorded \cup {image[t]} /\ image[t] \notin Recorded
  BY <1>1, <1>4, ImageRecorded
<1>6. image[t] \in 1 .. total
  BY <1>1, HeldFinished
<1>7. /\ p \in 1 .. total /\ I \in SUBSET (1 .. total)
      /\ Cardinality(I) = Cardinality(tracker.interval) + 1 /\ Cardinality(I) \in 1 .. ProgressInterval
      /\ p = Cardinality(Recorded') /\ Recorded' = I \cup Timed
      /\ p = Last + Cardinality(I)
      /\ \A k \in DOMAIN samples : samples[k].timed \cap I = {}
  BY <1>1, <1>2, <1>5, <1>6, BeforeRecord
<1>8. /\ pc \in [Threads -> PcSteps] /\ total \in Nat /\ samples \in Seq(Sample)
      /\ tracker \in [owner : 0 .. MaxThreads, processed : Nat, interval : SUBSET (1 .. total)]
  BY DEF PixelInv, TypeInv, TypeOK, PcSteps
<1>9. /\ tracker'.processed = p /\ tracker'.interval = (IF due THEN {} ELSE I) /\ tracker'.owner = 0
  BY <1>1, <1>2, <1>3, <1>8
<1>10. p + 1 = next
  BY <1>3, <1>8
<1>11. Last \in {Len(samples) * ProgressInterval, total} /\ SamplesAccountForImages
  BY DEF SampleInv, TallyInv
<1> HIDE DEF p, I
<1>12. remainder = IF Cardinality(I) = ProgressInterval THEN 0 ELSE Cardinality(I)
  <2>1. Len(samples) \in Nat /\ Len(samples) * ProgressInterval \in Nat
    BY <1>8, IntervalAssumption
  <2>2. Last = Len(samples) * ProgressInterval
    BY <1>7, <1>8, <1>11, <2>1, IntervalAssumption
  <2>3. image[t] = Len(samples) * ProgressInterval + Cardinality(I)
    BY <1>3, <1>7, <2>2
  <2>4. (Len(samples) * ProgressInterval + Cardinality(I)) % ProgressInterval
          = IF Cardinality(I) = ProgressInterval THEN 0 ELSE Cardinality(I)
    <3>1. Len(samples) \in Nat /\ ProgressInterval \in Nat \ {0} /\ Cardinality(I) \in 1 .. ProgressInterval
      BY <1>7, <2>1, IntervalAssumption
    <3>2. QED
      BY <3>1, Remainder, Zenon
  <2>5. QED
    BY <2>3, <2>4
<1>13. /\ divisor = Cardinality(I)
       /\ due <=> Cardinality(I) = ProgressInterval \/ p = total
  BY <1>3, <1>7, <1>12, IntervalAssumption
<1> HIDE DEF remainder, due, divisor
<1>14. /\ due => /\ SamplesAccountForImages' /\ Last' = p /\ Timed' = Timed \cup I
                 /\ p \in {Len(samples') * ProgressInterval, total}
       /\ ~due => SamplesAccountForImages' /\ Last' = Last /\ Timed' = Timed
  <2>1. CASE due
    <3>1. samples' = Append(samples, [processed |-> p, timed |-> I, divisor |-> Cardinality(I)])
      BY <1>1, <1>3, <1>13, <2>1
    <3>2. p \in Nat /\ p <= total
      BY <1>7, <1>8
    <3>3. Cardinality(I) = ProgressInterval \/ p = total
      BY <1>13, <2>1
    <3>4. QED
      BY <1>1, <1>7, <1>8, <1>11, <2>1, <3>1, <3>2, <3>3, SampleAppended
  <2>2. CASE ~due
    BY <1>1, <1>11, <2>2 DEF SamplesAccountForImages, Last, Timed
  <2>3. QED
    BY <2>1, <2>2
<1>15. Cardinality({}) = 0
  BY FS_EmptySet
<1>16. TallyInv'
  <2>1. CASE due
    <3>1. tracker'.interval = {} /\ p + 0 = p
      BY <1>7, <1>9, <2>1
    <3>2. QED
      BY <1>1, <1>7, <1>9, <1>14, <1>15, <2>1, <3>1 DEF TallyInv
  <2>2. CASE ~due
    <3>1. samples' = samples /\ tracker'.interval = I
      BY <1>1, <1>9, <2>2
    <3>2. QED
      BY <1>1, <1>7, <1>9, <1>11, <1>14, <2>2, <3>1 DEF TallyInv
  <2>3. QED
    BY <2>1, <2>2
<1>17. \A u \in Threads : pc'[u] # "report"
  BY <1>1, <1>3, NextImageReportsNothing DEF PixelInv
<1>18. OwnerInv'
  <2>1. Cardinality(tracker'.interval) < ProgressInterval
    BY <1>7, <1>9, <1>13, <1>15, IntervalAssumption
  <2>2. p = total => tracker'.interval = {}
    BY <1>9, <1>13
  <2>3. QED
    BY <1>1, <1>9, <1>17, <2>1, <2>2 DEF OwnerInv
<1>19. InOrder'
  <2>1. pc' = [pc EXCEPT ![t] = "claim"]
    BY <1>1 DEF NextImage, ByRows
  <2>2. pc'[Master] = "claim" /\ \A u \in Threads \ {Master} : pc'[u] = "joined"
    BY <1>3, <1>8, <2>1
  <2>3. QED
    BY <1>1, <1>9, <1>10, <2>2 DEF InOrder
<1>20. SampleInv'
  BY <1>14, <1>16, <1>18, <1>19 DEF SampleInv
<1>21. \/ samples' = samples
       \/ /\ Last' > Last /\ Last' = Cardinality(Recorded')
          /\ \E d, s : samples' = Append(samples, [processed |-> Last', timed |-> s, divisor |-> d])
  <2>1. CASE due
    <3>1. samples' = Append(samples, [processed |-> Last', timed |-> I, divisor |-> divisor])
      BY <1>1, <1>3, <1>14, <2>1
    <3>2. Last' > Last
      <4>1. Last \in Int
        BY <1>8, <1>11, IntervalAssumption
      <4>2. QED
        BY <1>7, <1>14, <2>1, <4>1
    <3>3. QED
      BY <1>7, <1>14, <2>1, <3>1, <3>2
  <2>2. CASE ~due
    BY <1>1, <2>2
  <2>3. QED
    BY <2>1, <2>2
<1>22. QED
  BY <1>20, <1>21

(* The invariant of a batch.                                               *)
BatchInv ==
  /\ PixelInv
  /\ outcome = "failed" => out = <<>>
  /\ parallel \/ threads = 1
  /\ out # <<>> => SampleInv

LEMMA BatchInit == Init => BatchInv
BY PixelInit DEF Init, BatchInv

LEMMA BatchStep == BatchInv /\ [Next]_vars => BatchInv'
<1> SUFFICES ASSUME BatchInv, [Next]_vars PROVE BatchInv'
  OBVIOUS
<1>1. PixelInv /\ PixelInv'
  BY PixelStep DEF BatchInv
<1>2. CASE Call
  <2>1. out = <<>> /\ out' = out /\ (parallel' \/ threads' = 1)
    BY <1>1, <1>2 DEF Call, work, PixelInv, TypeInv
  <2>2. QED
    BY <1>1, <2>1 DEF BatchInv
<1>3. CASE Reject
  BY <1>1, <1>3 DEF Reject, request, work, BatchInv
<1>4. CASE Prepare
  <2>1. parallel' = parallel /\ threads' = threads /\ outcome' = "running"
    BY <1>4 DEF Prepare, request
  <2>2. QED
    BY <1>1, <1>4, <2>1, SamplesPrepared DEF BatchInv
<1>5. CASE Synchronize
  <2>1. out # <<>> /\ parallel' = parallel /\ threads' = threads /\ outcome' = "running"
    BY <1>5 DEF Synchronize, request
  <2>2. QED
    BY <1>1, <1>5, <2>1, BarriersKeepSamples DEF BatchInv
<1>6. ASSUME NEW t \in Threads, Step(t) PROVE BatchInv'
  <2>1. pc[t] # "joined" /\ parallel' = parallel /\ threads' = threads /\ outcome' = outcome
    BY <1>6 DEF Step, Claim, ResizeRow, MarkRow, EndLoop, Record, Report, RecordSequential, request
  <2>2. out # <<>>
    BY <1>1, <2>1 DEF PixelInv, TypeInv, Fresh
  <2>3. SampleInv
    BY <2>2 DEF BatchInv
  <2>4. SampleInv'
    BY <1>1, <1>6, <2>2, <2>3, PixelsKeepSamples, RecordKeepsSamples, ReportKeepsSamples,
       SequentialKeepsSamples DEF Step
  <2>5. QED
    BY <1>1, <2>1, <2>2, <2>4 DEF BatchInv
<1>7. CASE Return \/ Returned \/ UNCHANGED vars
  <2>1. UNCHANGED <<parallel, total, threads, out, image, pc, next, tracker, samples>>
    BY <1>7 DEF Return, Returned, vars, request, work
  <2>2. Recorded' = Recorded /\ (outcome' = outcome \/ outcome' = "succeeded")
    BY <1>7, <2>1 DEF Return, Returned, vars, Recorded, Busy, Finished
  <2>3. SampleInv => SampleInv'
    BY <2>1, <2>2 DEF SampleInv, SamplesAccountForImages, TallyInv, OwnerInv, InOrder, Last, Timed
  <2>4. QED
    BY <1>1, <2>1, <2>2, <2>3 DEF BatchInv
<1>8. QED
  BY <1>2, <1>3, <1>4, <1>5, <1>6, <1>7 DEF Next, Caller

(* Theorem.  For any number of images and threads and any interval, the    *)
(* progress samples divide the finished images among them, each with the   *)
(* right divisor, at the counts Sequential reports as well.                *)
THEOREM SamplesAlwaysAccount == Spec => []SamplesAccountForImages
<1>1. BatchInv => SamplesAccountForImages
  BY DEF BatchInv, PixelInv, TypeInv, Fresh, SampleInv, SamplesAccountForImages
<1>2. QED
  BY <1>1, BatchInit, BatchStep, PTL DEF Spec

-----------------------------------------------------------------------------
(* Both back ends keep the promise of Batch.                               *)

Ready == {i \in DOMAIN out : out[i] = Finished}
Reports == [k \in DOMAIN samples |-> samples[k].processed]

(* A step of a loop is on an image that is not finished.                   *)
LEMMA UnfinishedImage ==
  ASSUME PixelInv, out # <<>>, NEW t \in Threads, pc[t] \in {"resize", "mark"}, todo[t] # {}
  PROVE  image[t] \in 1 .. total /\ out[image[t]] # Finished
<1>1. /\ next \in 1 .. total + 1 /\ total \in Nat /\ Team \subseteq Threads
      /\ todo \in [Threads -> SUBSET Rows]
  BY ThreadFacts DEF PixelInv, TypeInv, TypeOK, Rows
<1>2. CASE ~ByRows
  <2>1. ImagesInv /\ Active(t)
    BY <1>2 DEF PixelInv, Active
  <2>2. /\ image[t] \in 1 .. next - 1
        /\ pc[t] = "resize" => out[image[t]] = ResizedBut(todo[t])
        /\ pc[t] = "mark" => todo[t] \subseteq MarkRows /\ out[image[t]] = MarkedBut(todo[t])
    BY <2>1 DEF ImagesInv
  <2>3. todo[t] \in SUBSET Rows
    BY <1>1
  <2>4. QED
    BY <1>1, <2>2, <2>3, Unfinished
<1>3. CASE ByRows
  <2>1. RowsInv
    BY <1>3 DEF PixelInv
  <2>2. image[t] = Current /\ Current \in 1 .. total /\ t \in Team
    BY <2>1 DEF RowsInv
  <2>3. Left # {}
    BY <2>2 DEF Left
  <2>4. CASE pc[t] = "resize"
    <3>1. Resizing
      BY <2>1, <2>2, <2>4 DEF RowsInv, Resizing, Marking, Recording, Done
    <3>2. Left \in SUBSET Rows
      BY <1>1 DEF Left
    <3>3. QED
      BY <2>2, <2>3, <3>1, <3>2, Unfinished DEF Resizing
  <2>5. CASE pc[t] = "mark"
    <3>1. Marking
      BY <2>1, <2>2, <2>5 DEF RowsInv, Resizing, Marking, Recording, Done
    <3>2. Left \in SUBSET MarkRows
      BY <3>1 DEF Marking, Left, Share, MarkRows
    <3>3. QED
      BY <2>2, <2>3, <3>1, <3>2, Unfinished DEF Marking
  <2>6. QED
    BY <2>4, <2>5
<1>4. QED
  BY <1>2, <1>3

(* What a report says is at most what is finished.                         *)
LEMMA RecordedIsReady ==
  ASSUME TypeInv, out # <<>>
  PROVE  Cardinality(Recorded) \in Nat /\ Cardinality(Ready) \in Nat
         /\ Cardinality(Recorded) <= Cardinality(Ready) /\ Ready \subseteq 1 .. total
<1>1. DOMAIN out = 1 .. total /\ total \in Nat
  BY ThreadFacts DEF TypeInv
<1>2. Recorded \subseteq Ready /\ Ready \in SUBSET (1 .. total)
  BY <1>1 DEF Recorded, Ready
<1>3. IsFiniteSet(Ready) /\ Cardinality(Ready) \in Nat
  BY <1>1, <1>2, SetSizes
<1>4. Recorded \in SUBSET Ready /\ Cardinality(Recorded) \in Nat
  BY <1>1, <1>2, RecordedFinite
<1>5. Cardinality(Recorded) <= Cardinality(Ready)
  BY <1>3, <1>4, FS_Subset
<1>6. QED
  BY <1>2, <1>3, <1>4, <1>5

LEMMA PromiseVars == Promise!vars = <<total, Ready, Reports, outcome>>
BY DEF Promise!vars, Ready, Reports

LEMMA ReportsType ==
  ASSUME samples \in Seq(Sample)
  PROVE  Reports \in Seq(Nat) /\ Len(Reports) = Len(samples)
<1>1. Len(samples) \in Nat /\ DOMAIN samples = 1 .. Len(samples)
  OBVIOUS
<1>2. ASSUME NEW k \in 1 .. Len(samples) PROVE samples[k].processed \in Nat
  <2>1. samples[k] \in Sample
    BY <1>1
  <2>2. QED
    BY <2>1 DEF Sample
<1>3. Reports \in [1 .. Len(samples) -> Nat]
  BY <1>1, <1>2 DEF Reports
<1>4. QED
  BY <1>1, <1>3

LEMMA PromiseLast ==
  ASSUME samples \in Seq(Sample)
  PROVE  Promise!LastReport = Last
<1>1. Len(samples) \in Nat /\ DOMAIN samples = 1 .. Len(samples)
  OBVIOUS
<1>2. Reports \in Seq(Nat) /\ Len(Reports) = Len(samples)
  BY ReportsType
<1>3. Promise!LastReport = IF Reports = <<>> THEN 0 ELSE Reports[Len(Reports)]
  BY DEF Promise!LastReport, Reports
<1>4. CASE samples = <<>>
  BY <1>2, <1>3, <1>4 DEF Last
<1>5. CASE samples # <<>>
  <2>1. Len(samples) \in DOMAIN samples /\ Reports # <<>>
    BY <1>1, <1>2, <1>5
  <2>2. QED
    BY <1>2, <1>3, <1>5, <2>1 DEF Last, Reports
<1>6. QED
  BY <1>4, <1>5

(* One more sample is one more report.                                     *)
LEMMA PromiseReport ==
  ASSUME TypeInv, out # <<>>, outcome = "running", UNCHANGED <<total, outcome, out>>,
         NEW p \in Nat, Last \in Nat, p > Last, p <= Cardinality(Ready), Cardinality(Ready) \in Nat,
         NEW s, NEW d,
         samples' = Append(samples, [processed |-> p, timed |-> s, divisor |-> d])
  PROVE  Promise!Report
<1>1. samples \in Seq(Sample) /\ Len(samples) \in Nat /\ DOMAIN samples = 1 .. Len(samples)
  BY DEF TypeInv, TypeOK
<1>2. Reports \in Seq(Nat) /\ Len(Reports) = Len(samples)
  BY <1>1, ReportsType
<1>3. Reports' = Append(Reports, p)
  <2>1. DOMAIN samples' = 1 .. Len(samples) + 1
    BY <1>1
  <2>2. \A k \in 1 .. Len(samples) + 1 :
          samples'[k].processed = IF k = Len(samples) + 1 THEN p ELSE samples[k].processed
    BY <1>1
  <2>3. Append(Reports, p) = [k \in 1 .. Len(samples) + 1 |->
                                IF k = Len(samples) + 1 THEN p ELSE samples[k].processed]
    <3>1. Append(Reports, p) \in [1 .. Len(samples) + 1 -> Nat]
      <4>1. Append(Reports, p) \in Seq(Nat) /\ Len(Append(Reports, p)) = Len(samples) + 1
        BY <1>2
      <4>2. \A q \in Seq(Nat) : q \in [1 .. Len(q) -> Nat]
        OBVIOUS
      <4>3. QED
        BY <4>1, <4>2, Zenon
    <3>2. \A k \in 1 .. Len(samples) + 1 :
            Append(Reports, p)[k] = IF k = Len(samples) + 1 THEN p ELSE samples[k].processed
      BY <1>1, <1>2 DEF Reports
    <3>3. QED
      BY <3>1, <3>2
  <2>4. QED
    BY <2>1, <2>2, <2>3 DEF Reports
<1>4. Promise!LastReport = Last
  BY <1>1, PromiseLast
<1>5. p \in Promise!LastReport + 1 .. Cardinality(Ready)
  BY <1>4
<1>6. \A S : Promise!Cardinality(S) = Cardinality(S)
  BY DEF Promise!Cardinality, Cardinality
<1>7. \E n \in Promise!LastReport + 1 .. Promise!Cardinality(Ready) : Reports' = Append(Reports, n)
  BY <1>3, <1>5, <1>6
<1>8. Ready' = Ready
  BY DEF Ready, Finished
<1>9. QED
  BY <1>7, <1>8 DEF Promise!Report, Ready, Reports

LEMMA CpuPromiseStep ==
  ASSUME BatchInv, [Next]_vars
  PROVE  [Promise!Next]_(Promise!vars)
<1>1. /\ PixelInv /\ TypeInv /\ samples \in Seq(Sample) /\ total \in Nat
      /\ out = <<>> => Fresh
  BY DEF BatchInv, PixelInv, TypeInv, TypeOK
<1>2. ASSUME UNCHANGED <<total, out, samples, outcome>>
      PROVE  UNCHANGED Promise!vars
  BY <1>2, PromiseVars DEF Promise!vars, Finished
<1>3. ASSUME out = <<>>
      PROVE  Ready = {} /\ Reports = <<>>
  BY <1>1, <1>3 DEF Ready, Reports, Fresh
<1>4. CASE Call
  <2>1. /\ outcome = "idle" /\ outcome' = "running" /\ out = <<>> /\ out' = out /\ samples' = samples
    BY <1>1, <1>4 DEF Call, work, TypeInv
  <2>2. total' \in Nat
    BY <1>4, CountsAssumption DEF Call
  <2>3. Ready' = {} /\ Reports' = <<>>
    <3>1. Ready' = Ready /\ Reports' = Reports
      BY <2>1 DEF Ready, Reports, Finished
    <3>2. QED
      BY <1>3, <2>1, <3>1
  <2>4. Promise!Begin
    BY <2>1, <2>2, <2>3 DEF Promise!Begin, Ready, Reports
  <2>5. QED
    BY <2>4 DEF Promise!Next
<1>5. CASE Reject
  <2>1. /\ outcome = "running" /\ outcome' = "failed" /\ out = <<>>
        /\ UNCHANGED <<total, out, samples>>
    BY <1>5 DEF Reject, request, work
  <2>2. Ready' = Ready /\ Reports' = Reports /\ Reports = <<>>
    BY <1>3, <2>1 DEF Ready, Reports, Finished
  <2>3. Promise!Fail
    BY <2>1, <2>2 DEF Promise!Fail, Ready, Reports
  <2>4. QED
    BY <2>3 DEF Promise!Next
<1>6. CASE Prepare
  <2>1. /\ out = <<>> /\ UNCHANGED <<total, samples, outcome>>
        /\ out' = [i \in 1 .. total |-> Blank]
    BY <1>6 DEF Prepare, request, Blank, Rows
  <2>2. Ready' = {} /\ Reports' = Reports
    BY <2>1, Unfinished DEF Ready, Reports, Finished, Blank
  <2>3. QED
    BY <1>3, <2>1, <2>2 DEF Promise!vars, Ready, Reports
<1>7. CASE Synchronize
  BY <1>2, <1>7 DEF Synchronize, request
<1>8. ASSUME NEW t \in Threads, Step(t)
      PROVE  [Promise!Next]_(Promise!vars)
  <2>1. pc[t] # "joined" /\ total' = total /\ outcome' = outcome
    BY <1>8 DEF Step, Claim, ResizeRow, MarkRow, EndLoop, Record, Report, RecordSequential, request
  <2>2. out # <<>>
    BY <1>1, <2>1 DEF Fresh
  <2>3. outcome = "running"
    BY <1>1, <2>1, <2>2 DEF BatchInv, PixelInv, TypeInv, TypeOK
  <2>4. SampleInv
    BY <2>2 DEF BatchInv
  <2>5. out \in [1 .. total -> [Rows -> RowStates]] /\ DOMAIN out = 1 .. total
    BY <1>1, <2>2, ThreadFacts DEF TypeInv
  <2>6. /\ Cardinality(Recorded) \in Nat /\ Cardinality(Ready) \in Nat
        /\ Cardinality(Recorded) <= Cardinality(Ready) /\ Ready \subseteq 1 .. total
    BY <1>1, <2>2, RecordedIsReady
  <2>7. CASE Claim(t) \/ EndLoop(t) \/ Record(t)
    BY <1>2, <2>7 DEF Claim, EndLoop, Record, request
  <2>8. CASE ResizeRow(t) \/ MarkRow(t)
    <3>1. /\ pc[t] \in {"resize", "mark"} /\ todo[t] # {} /\ samples' = samples
          /\ \E v : out' = [out EXCEPT ![image[t]] = v]
      BY <2>8 DEF ResizeRow, MarkRow
    <3>2. image[t] \in 1 .. total /\ out[image[t]] # Finished
      BY <1>1, <2>2, <3>1, UnfinishedImage
    <3>3. DOMAIN out' = 1 .. total /\ \A i \in 1 .. total : i # image[t] => out'[i] = out[i]
      BY <2>5, <3>1
    <3>4. Finished' = Finished
      BY DEF Finished
    <3>5. Ready \subseteq Ready' /\ Ready' \subseteq 1 .. total
      BY <2>5, <3>2, <3>3, <3>4 DEF Ready
    <3>6. Reports' = Reports
      BY <3>1 DEF Reports
    <3>7. Promise!Process
      BY <2>1, <2>3, <3>5, <3>6 DEF Promise!Process, Ready, Reports
    <3>8. QED
      BY <3>7 DEF Promise!Next
  <2>9. Last \in Nat
    <3>1. CASE samples = <<>>
      BY <3>1 DEF Last
    <3>2. CASE samples # <<>>
      <4>1. Len(samples) \in 1 .. Len(samples) /\ samples[Len(samples)] \in Sample
        BY <1>1, <3>2
      <4>2. QED
        BY <3>2, <4>1 DEF Last, Sample
    <3>3. QED
      BY <3>1, <3>2
  <2>10. CASE Report(t)
    <3>1. tracker.processed > Last
      BY <1>1, <2>2, <2>4, <2>10, ReportKeepsSamples
    <3>2. tracker.processed = Cardinality(Recorded)
      BY <2>4 DEF SampleInv, TallyInv
    <3>3. /\ samples' = Append(samples, [processed |-> tracker.processed, timed |-> tracker.interval,
                                         divisor |-> Cardinality(tracker.interval)])
          /\ out' = out
      BY <2>10 DEF Report
    <3>4. Promise!Report
      BY <1>1, <2>1, <2>2, <2>3, <2>6, <2>9, <3>1, <3>2, <3>3, PromiseReport
    <3>5. QED
      BY <3>4 DEF Promise!Next
  <2>11. CASE RecordSequential(t)
    <3>1. out' = out
      BY <2>11 DEF RecordSequential
    <3>2. CASE samples' = samples
      BY <1>2, <2>1, <3>1, <3>2
    <3>3. CASE /\ Last' > Last /\ Last' = Cardinality(Recorded')
               /\ \E d, s : samples' = Append(samples, [processed |-> Last', timed |-> s, divisor |-> d])
      <4>1. PICK d, s : samples' = Append(samples, [processed |-> Last', timed |-> s, divisor |-> d])
        BY <3>3
      <4>2. Cardinality(Recorded') \in Nat /\ Cardinality(Recorded') <= Cardinality(Ready)
        <5>1. Recorded' \in SUBSET Ready
          BY <2>1, <2>5, <3>1 DEF Recorded, Ready, Finished
        <5>2. IsFiniteSet(Ready)
          BY <1>1, <2>6, SetSizes
        <5>3. QED
          BY <5>1, <5>2, FS_Subset, FS_CardinalityType
      <4>3. Promise!Report
        BY <1>1, <2>1, <2>2, <2>3, <2>6, <2>9, <3>1, <3>3, <4>1, <4>2, PromiseReport
      <4>4. QED
        BY <4>3 DEF Promise!Next
    <3>4. QED
      BY <1>1, <2>2, <2>4, <2>11, <3>2, <3>3, SequentialKeepsSamples
  <2>12. QED
    BY <1>8, <2>7, <2>8, <2>10, <2>11 DEF Step
<1>9. CASE Return
  <2>1. /\ outcome = "running" /\ outcome' = "succeeded" /\ out # <<>>
        /\ \A t \in Threads : pc[t] = "joined"
        /\ UNCHANGED <<total, out, samples>>
    BY <1>9 DEF Return, request, work
  <2>2. \A i \in 1 .. total : out[i] = Finished
    <3>1. PixelInv'
      BY <1>1, PixelStep
    <3>2. PixelsAsSequential'
      BY <3>1, PixelsFromInv, PTL
    <3>3. QED
      BY <2>1, <3>2 DEF PixelsAsSequential, Finished
  <2>3. DOMAIN out = 1 .. total
    BY <1>1, <2>1, ThreadFacts DEF TypeInv
  <2>4. Ready = 1 .. total /\ Recorded = 1 .. total
    BY <2>1, <2>2, <2>3 DEF Ready, Recorded, Busy, Working
  <2>5. SampleInv
    BY <2>1 DEF BatchInv
  <2>6. tracker.processed = total
    BY <1>1, <2>4, <2>5, FS_Interval DEF SampleInv, TallyInv
  <2>7. tracker.interval = {}
    BY <2>1, <2>5, <2>6 DEF SampleInv, OwnerInv
  <2>8. Last = total
    <3>1. Last \in Int
      BY <1>1, <2>5, IntervalAssumption DEF SampleInv, TallyInv
    <3>2. Cardinality({}) = 0
      BY FS_EmptySet
    <3>3. total = Last + 0
      BY <2>5, <2>6, <2>7, <3>2 DEF SampleInv, TallyInv
    <3>4. QED
      BY <3>1, <3>3
  <2>9. Promise!LastReport = total
    BY <1>1, <2>8, PromiseLast
  <2>10. Ready' = Ready /\ Reports' = Reports
    BY <2>1 DEF Ready, Reports, Finished
  <2>11. Promise!Succeed
    BY <2>1, <2>4, <2>9, <2>10 DEF Promise!Succeed, Ready, Reports
  <2>12. QED
    BY <2>11 DEF Promise!Next
<1>10. CASE Returned \/ UNCHANGED vars
  BY <1>2, <1>10 DEF Returned, vars, request, work
<1>11. QED
  BY <1>4, <1>5, <1>6, <1>7, <1>8, <1>9, <1>10 DEF Next, Caller

(* Theorem.  Both back ends implement Batch for any number of images and   *)
(* threads: images stay finished, reports rise and never run ahead of      *)
(* them, and a call succeeds only after reporting all.                     *)
THEOREM CpuImplementsBatch == Spec => ImplementsBatch
<1>1. Init => Promise!Init
  BY DEF Init, Promise!Init
<1>2. BatchInv /\ [Next]_vars => [Promise!Next]_(Promise!vars)
  BY CpuPromiseStep
<1>3. QED
  BY <1>1, <1>2, BatchInit, BatchStep, PTL DEF Spec, ImplementsBatch, Promise!Spec
==============================================================================
