----------------------------- MODULE PixelProofs -----------------------------
(***************************************************************************)
(* Sizes, the crop, the samples and both back ends' outputs are right for  *)
(* words, images, outputs, watermarks and blocks of any size.              *)
(***************************************************************************)
EXTENDS Pixels, FiniteSetTheorems, TLAPS

(* Division and remainder, the products they are compared with.            *)
LEMMA DivMod ==
  ASSUME NEW a \in Int, NEW d \in Nat \ {0}
  PROVE  /\ a \div d \in Int /\ a % d \in Int
         /\ 0 <= a % d /\ a % d < d
         /\ a = d * (a \div d) + (a % d)
OBVIOUS

(* There is one quotient and one remainder.                                *)
LEMMA DivModUnique ==
  ASSUME NEW d \in Nat \ {0}, NEW q \in Int, NEW r \in Int, 0 <= r, r < d
  PROVE  (d * q + r) \div d = q /\ (d * q + r) % d = r
OBVIOUS

(* A number below the divisor is its own remainder.                        *)
LEMMA ModSmall ==
  ASSUME NEW a \in Int, NEW d \in Nat \ {0}, 0 <= a, a < d
  PROVE  a % d = a
OBVIOUS

(* Multiplying by a positive number keeps the order.                       *)
LEMMA MulOrder ==
  ASSUME NEW a \in Int, NEW b \in Int, NEW c \in Nat \ {0}
  PROVE  (a <= b <=> a * c <= b * c) /\ (a < b <=> a * c < b * c)
OBVIOUS

(* Products of integers, natural numbers and positive numbers.             *)
LEMMA MulTypes ==
  ASSUME NEW a \in Int, NEW b \in Int
  PROVE  /\ a * b \in Int /\ a * b = b * a
         /\ a \in Nat /\ b \in Nat => a * b \in Nat
         /\ a > 0 /\ b > 0 => a * b > 0
OBVIOUS

(* Products may be regrouped.                                              *)
LEMMA MulAssoc ==
  ASSUME NEW a \in Int, NEW b \in Int, NEW c \in Int
  PROVE  (a * b) * c = a * (b * c)
OBVIOUS

(* Products of sums and of differences.                                    *)
LEMMA MulDist ==
  ASSUME NEW a \in Int, NEW b \in Int, NEW c \in Int
  PROVE  (a + b) * c = a * c + b * c /\ (a - b) * c = a * c - b * c
OBVIOUS

(* The quotient is the largest number whose product is not too large.      *)
LEMMA DivLargest ==
  ASSUME NEW a \in Int, NEW d \in Nat \ {0}, NEW q \in Int
  PROVE  q <= a \div d <=> q * d <= a
<1>1. /\ a \div d \in Int /\ a % d \in Int /\ 0 <= a % d /\ a % d < d
      /\ a = d * (a \div d) + (a % d)
  BY DivMod
<1> DEFINE m == a \div d
           r == a % d
<1>2. m \in Int /\ r \in Int /\ 0 <= r /\ r < d /\ a = m * d + r
  BY <1>1, MulTypes
<1> HIDE DEF m, r
<1>3. q <= m => q * d <= a
  BY <1>2, MulOrder
<1>4. ASSUME q * d <= a
      PROVE  q <= m
  <2>1. q * d < (m + 1) * d
    BY <1>2, <1>4, MulDist
  <2>2. q < m + 1
    BY <1>2, <2>1, MulOrder
  <2>3. QED
    BY <1>2, <2>2
<1>5. QED
  BY <1>3, <1>4 DEF m

-----------------------------------------------------------------------------
(* Sizes.                                                                  *)

(* What the decoders return: a packed image whose bytes are addressable.   *)
Decoded ==
  {i \in [width : 1 .. Word \div 2 - 1, height : 1 .. Word \div 2 - 1, stride : Nat, bytes : Nat] :
     /\ i.stride = i.width * Channels
     /\ i.bytes = i.width * i.height * Channels /\ i.bytes < Size}

(* What the parts of a job are.                                            *)
LEMMA JobTypes ==
  ASSUME NEW j \in Jobs
  PROVE  /\ j.image \in Mats /\ j.mark \in Mats /\ j.config \in Configs /\ j.count \in Nat \ {0}
         /\ j.config.opacity[1] <= j.config.opacity[2]
BY JobsAssumption

(* The checks of SizesFit are exact: no product wraps.                     *)
LEMMA FitIsExact ==
  ASSUME NEW w \in Nat \ {0}, NEW h \in Nat \ {0}
  PROVE  SizesFit(w, h) <=> w * h * Channels < Size
<1>1. Size - 1 \in Nat /\ w * Channels \in Nat \ {0}
  BY WordAssumption DEF Channels
<1>2. h <= (Size - 1) \div (w * Channels) <=> h * (w * Channels) <= Size - 1
  BY <1>1, DivLargest
<1>3. h * (w * Channels) = w * h * Channels
  BY MulTypes, MulAssoc DEF Channels
<1>4. w <= (Size - 1) \div Channels <=> w * Channels <= Size - 1
  BY <1>1, DivLargest DEF Channels
<1>5. w * Channels <= h * (w * Channels)
  <2>1. 1 * (w * Channels) <= h * (w * Channels)
    BY <1>1, MulOrder
  <2>2. QED
    BY <1>1, <2>1
<1>6. w * h * Channels \in Nat
  BY MulTypes DEF Channels
<1>7. QED
  BY <1>1, <1>2, <1>3, <1>4, <1>5, <1>6, WordAssumption DEF SizesFit

(* What a decoder packs, it packs without loss.                            *)
LEMMA PackedIsDecoded ==
  ASSUME NEW w \in 1 .. Word \div 2 - 1, NEW h \in 1 .. Word \div 2 - 1, SizesFit(w, h)
  PROVE  Packed(w, h) \in Decoded
<1>1. w \in Nat \ {0} /\ h \in Nat \ {0}
  OBVIOUS
<1>2. w * h * Channels < Size /\ w * h * Channels \in Nat /\ w * Channels \in Nat
  BY <1>1, FitIsExact, MulTypes DEF Channels
<1>3. w * Channels * h = w * h * Channels
  BY <1>1, MulTypes, MulAssoc DEF Channels
<1>4. (w * Channels * h) % Size = w * h * Channels
  BY <1>2, <1>3, ModSmall, WordAssumption
<1>5. QED
  BY <1>2, <1>4 DEF Packed, Decoded

(* A decoder returns an image of the decoded form, or none.                *)
LEMMA DecodersReturn ==
  ASSUME NEW mat \in Mats
  PROVE  BgrImage(mat) \in Decoded \cup {NoImage} /\ WatermarkImage(mat) \in Decoded \cup {NoImage}
<1>1. ASSUME mat.cols > 0, mat.rows > 0, SizesFit(mat.cols, mat.rows)
      PROVE  Packed(mat.cols, mat.rows) \in Decoded
  <2>1. mat.cols \in 1 .. Word \div 2 - 1 /\ mat.rows \in 1 .. Word \div 2 - 1
    BY <1>1 DEF Mats
  <2>2. QED
    BY <1>1, <2>1, PackedIsDecoded
<1>2. QED
  BY <1>1 DEF BgrImage, WatermarkImage

(* The differences of the checks on the watermark do not wrap either.      *)
LEMMA AxisIsExact ==
  ASSUME NEW length \in 1 .. Word - 1, NEW margin \in 0 .. Word - 1, NEW output \in 0 .. Word - 1
  PROVE  /\ FitsAxis(length, margin, output) <=> length + margin <= output
         /\ length + margin <= output =>
              Sub(Sub(output, margin), length) = output - margin - length
<1>1. \A a, b \in Int : b <= a /\ a - b < Word => Sub(a, b) = a - b
  BY ModSmall, WordAssumption DEF Sub
<1>2. QED
  BY <1>1, WordAssumption DEF FitsAxis

-----------------------------------------------------------------------------
(* The invariant.                                                          *)

Fits ==
  /\ mark.width + job.config.margin <= job.config.width
  /\ mark.height + job.config.margin <= job.config.height

(* Every operator below takes what it needs from these facts.              *)
PreparedInv ==
  /\ image \in Decoded /\ mark \in Decoded
  /\ job.config.width # 0 /\ job.config.height # 0
  /\ job.config.width * job.config.height * Channels < Size
  /\ Fits
  /\ crop = CenterCrop(image.width, image.height, job.config.width, job.config.height)

KernelOutput ==
  [p \in {<<ThreadAt(t[1], t[2]), ThreadAt(u[1], u[2])>> :
            t \in AxisThreads(job.config.width), u \in AxisThreads(job.config.height)}
     |-> KernelValue(p[1], p[2])]

PixelInv ==
  /\ job \in Jobs
  /\ image \in Decoded \cup {NoImage} /\ mark \in Decoded \cup {NoImage}
  /\ verdict = "prepare" => image # NoImage /\ mark # NoImage
  /\ verdict = "watermark does not fit" => ~Fits
  /\ Prepared => PreparedInv
  /\ cpu # NoPixels => Prepared /\ cpu = CpuOutput
  /\ gpu # NoPixels => Prepared /\ CanLaunch(job.config) /\ gpu = KernelOutput

(* Nothing is prepared at the start.                                       *)
LEMMA PixelInvInit == Init => PixelInv
BY DEF Init, PixelInv, Prepared

(* Every step keeps the stages of a job in order.                          *)
LEMMA PixelInvNext == PixelInv /\ [Next]_vars => PixelInv'
<1> SUFFICES ASSUME PixelInv, [Next]_vars
             PROVE  PixelInv'
  OBVIOUS
<1>1. job \in Jobs /\ job.image \in Mats /\ job.mark \in Mats /\ job.config \in Configs
  BY JobTypes DEF PixelInv
<1>2. CASE Decode
  <2>1. cpu = NoPixels /\ gpu = NoPixels
    BY <1>2 DEF PixelInv, Prepared, Decode
  <2>2. image' \in Decoded \cup {NoImage} /\ mark' \in Decoded \cup {NoImage}
    BY <1>1, <1>2, DecodersReturn DEF Decode
  <2>3. QED
    BY <1>1, <1>2, <2>1, <2>2 DEF PixelInv, Prepared, Decode
<1>3. CASE Prepare
  <2>1. UNCHANGED <<job, image, mark, cpu, gpu>> /\ cpu = NoPixels /\ gpu = NoPixels
    BY <1>3 DEF PixelInv, Prepared, Prepare
  <2>2. image \in Decoded /\ mark \in Decoded
    BY <1>3 DEF PixelInv, Prepare
  <2>3. ValidConfig(job.config) =>
          /\ job.config.width # 0 /\ job.config.height # 0
          /\ job.config.width * job.config.height * Channels < Size
    <3>1. job.config.width \in Nat /\ job.config.height \in Nat
      BY <1>1 DEF Configs
    <3>2. QED
      BY <3>1, FitIsExact DEF ValidConfig
  <2>4. WatermarkFits(mark, job.config) <=> Fits
    <3>1. /\ mark.width \in 1 .. Word - 1 /\ mark.height \in 1 .. Word - 1
          /\ job.config.margin \in 0 .. Word - 1
          /\ job.config.width \in 0 .. Word - 1 /\ job.config.height \in 0 .. Word - 1
      BY <1>1, <2>2, WordAssumption DEF Decoded, Configs
    <3>2. QED
      BY <3>1, AxisIsExact DEF WatermarkFits, Fits
  <2>5. verdict' = "watermark does not fit" => ~Fits'
    BY <1>3, <2>1, <2>4 DEF Prepare, Fits
  <2>6. verdict' \notin {"launch failed", "prepare"}
    BY <1>3 DEF Prepare
  <2>7. verdict' = "prepared" => PreparedInv'
    BY <1>3, <2>1, <2>2, <2>3, <2>4 DEF Prepare, PreparedInv, Fits
  <2>8. QED
    BY <2>1, <2>2, <2>5, <2>6, <2>7 DEF PixelInv, Prepared
<1>4. ASSUME UNCHANGED <<job, image, mark, crop>>
      PROVE  /\ (Fits' <=> Fits) /\ (PreparedInv' <=> PreparedInv) /\ CpuOutput' = CpuOutput
             /\ KernelOutput' = KernelOutput
             /\ CanLaunch(job.config)' <=> CanLaunch(job.config)
  BY <1>4 DEF Fits, PreparedInv, CpuOutput, KernelOutput, CpuValue, Resized, Marked, Alpha,
              KernelValue, DeviceValue, CanLaunch
<1>5. CASE ProcessOnCpu
  BY <1>4, <1>5 DEF PixelInv, Prepared, ProcessOnCpu
<1>6. CASE LaunchFails
  BY <1>4, <1>6 DEF PixelInv, Prepared, LaunchFails
<1>7. CASE Launch
  BY <1>4, <1>7 DEF PixelInv, Prepared, Launch, KernelOutput
<1>8. CASE UNCHANGED vars
  BY <1>4, <1>8 DEF PixelInv, Prepared, vars
<1>9. QED
  BY <1>2, <1>3, <1>5, <1>6, <1>7, <1>8 DEF Next

(* In every behaviour each stage has what the stages before it made.       *)
LEMMA PixelInvHolds == Spec => []PixelInv
BY PixelInvInit, PixelInvNext, PTL DEF Spec

-----------------------------------------------------------------------------
(* Sizes and the crop.                                                     *)

(* No size check is fooled by a product or a difference that wraps.        *)
THEOREM SizesAreExact == Spec => []SizesExact
<1>1. PixelInv => SizesExact
  <2> SUFFICES ASSUME PixelInv PROVE SizesExact
    OBVIOUS
  <2>1. ASSUME NEW i \in {image, mark}
        PROVE  i.bytes = i.width * i.height * Channels
    <3>1. i \in Decoded \/ i = NoImage
      BY DEF PixelInv
    <3>2. QED
      BY <3>1 DEF Decoded, NoImage, Channels
  <2>2. QED
    BY <2>1 DEF PixelInv, SizesExact, PreparedInv, Fits
<1>2. QED
  BY PixelInvHolds, <1>1, PTL

(* A member that no other exceeds is the largest.                          *)
LEMMA LargestIs ==
  ASSUME NEW S \in SUBSET Nat, NEW v \in S, \A m \in S : m <= v
  PROVE  Largest(S) = v
<1>1. Largest(S) \in S /\ \A m \in S : m <= Largest(S)
  BY DEF Largest
<1>2. Largest(S) \in Nat /\ v \in Nat /\ v <= Largest(S) /\ Largest(S) <= v
  BY <1>1
<1>3. QED
  BY <1>2

(* A side that is too long for the output's ratio is cut to the largest    *)
(* that is not.                                                            *)
LEMMA CutSide ==
  ASSUME NEW side \in Nat \ {0}, NEW other \in Nat \ {0},
         NEW f \in Nat \ {0}, NEW d \in Nat \ {0}, side * d > other * f
  PROVE  /\ CropLength(other, f, d) \in 1 .. side
         /\ CropLength(other, f, d) = Largest({1} \cup {n \in 1 .. side : n * d <= other * f})
<1> DEFINE a == other * f
           q == a \div d
           cut == CropLength(other, f, d)
           S == {1} \cup {n \in 1 .. side : n * d <= a}
<1>1. a \in Nat /\ side * d > a
  BY MulTypes
<1> HIDE DEF a
<1>2. q \in Int /\ \A n \in Int : n <= q <=> n * d <= a
  BY <1>1, DivMod, DivLargest
<1>3. q < side
  BY <1>1, <1>2, MulTypes
<1>4. q >= 0
  BY <1>1, <1>2
<1>5. cut = IF 1 > q THEN 1 ELSE q
  BY DEF CropLength, GreaterOf, a
<1> HIDE DEF q, cut
<1>6. cut \in 1 .. side /\ cut \in S
  BY <1>2, <1>3, <1>4, <1>5
<1>7. \A n \in S : n <= cut
  BY <1>2, <1>4, <1>5
<1>8. S \in SUBSET Nat
  OBVIOUS
<1>9. Largest(S) = cut
  BY <1>6, <1>7, <1>8, LargestIs
<1>10. QED
  BY <1>6, <1>9 DEF a, cut

(* A side that is not too long for the output's ratio stays whole.         *)
LEMMA WholeSide ==
  ASSUME NEW side \in Nat \ {0}, NEW d \in Nat \ {0}, NEW a \in Nat, side * d <= a
  PROVE  side = Largest({1} \cup {n \in 1 .. side : n * d <= a})
<1> DEFINE S == {1} \cup {n \in 1 .. side : n * d <= a}
<1>1. S \in SUBSET Nat /\ side \in S /\ \A n \in S : n <= side
  OBVIOUS
<1>2. QED
  BY <1>1, LargestIs

(* What is left is shared evenly between both ends.                        *)
LEMMA Middle ==
  ASSUME NEW side \in 1 .. Word - 1, NEW cut \in 1 .. side
  PROVE  /\ Sub(side, cut) \div 2 \in Nat
         /\ side - cut - 2 * (Sub(side, cut) \div 2) \in {0, 1}
         /\ Sub(side, cut) \div 2 + cut <= side
<1>1. Sub(side, cut) = side - cut
  BY ModSmall, WordAssumption DEF Sub
<1>2. QED
  BY <1>1

(* The crop lies inside the decoded image and is not empty.                *)
LEMMA CropFacts ==
  ASSUME PixelInv, Prepared
  PROVE  /\ crop.width \in 1 .. image.width /\ crop.height \in 1 .. image.height
         /\ crop.x \in Nat /\ crop.x + crop.width <= image.width
         /\ crop.y \in Nat /\ crop.y + crop.height <= image.height
         /\ image.width - crop.width - 2 * crop.x \in {0, 1}
         /\ image.height - crop.height - 2 * crop.y \in {0, 1}
         /\ LET w == image.width
                h == image.height
                c == job.config
            IN  /\ crop.width = Largest({1} \cup {n \in 1 .. w : n * c.height <= h * c.width})
                /\ crop.height = Largest({1} \cup {n \in 1 .. h : n * c.width <= w * c.height})
<1> DEFINE w == image.width
           h == image.height
           ow == job.config.width
           oh == job.config.height
<1>1. /\ w \in 1 .. Word - 1 /\ h \in 1 .. Word - 1
      /\ w \in Nat \ {0} /\ h \in Nat \ {0} /\ ow \in Nat \ {0} /\ oh \in Nat \ {0}
      /\ crop = CenterCrop(w, h, ow, oh)
  <2>1. image \in Decoded /\ job.config \in Configs /\ ow # 0 /\ oh # 0
    BY JobTypes DEF PixelInv, PreparedInv
  <2>2. w \in 1 .. Word \div 2 - 1 /\ h \in 1 .. Word \div 2 - 1 /\ Word \div 2 - 1 <= Word - 1
    BY <2>1, WordAssumption DEF Decoded
  <2>3. ow \in Nat /\ oh \in Nat
    BY <2>1 DEF Configs
  <2>4. crop = CenterCrop(w, h, ow, oh)
    BY DEF PixelInv, PreparedInv
  <2> HIDE DEF w, h, ow, oh
  <2>5. QED
    BY <2>1, <2>2, <2>3, <2>4, WordAssumption
<1> HIDE DEF w, h, ow, oh
<1> SUFFICES /\ crop.width \in 1 .. w /\ crop.height \in 1 .. h
             /\ crop.x \in Nat /\ crop.x + crop.width <= w
             /\ crop.y \in Nat /\ crop.y + crop.height <= h
             /\ w - crop.width - 2 * crop.x \in {0, 1}
             /\ h - crop.height - 2 * crop.y \in {0, 1}
             /\ crop.width = Largest({1} \cup {n \in 1 .. w : n * oh <= h * ow})
             /\ crop.height = Largest({1} \cup {n \in 1 .. h : n * ow <= w * oh})
  BY DEF w, h, ow, oh
<1>2. w * oh \in Nat /\ h * ow \in Nat
  BY <1>1, MulTypes
<1>3. CASE w * oh > h * ow
  <2> DEFINE cw == CropLength(h, ow, oh)
  <2>1. cw \in 1 .. w /\ cw = Largest({1} \cup {n \in 1 .. w : n * oh <= h * ow})
    BY <1>1, <1>3, CutSide
  <2>2. crop = [x |-> Sub(w, cw) \div 2, y |-> 0, width |-> cw, height |-> h]
    BY <1>1, <1>3 DEF CenterCrop
  <2>3. h = Largest({1} \cup {n \in 1 .. h : n * ow <= w * oh})
    BY <1>1, <1>2, <1>3, WholeSide
  <2> HIDE DEF cw
  <2>4. QED
    BY <1>1, <2>1, <2>2, <2>3, Middle
<1>4. CASE w * oh < h * ow
  <2> DEFINE ch == CropLength(w, oh, ow)
  <2>1. ch \in 1 .. h /\ ch = Largest({1} \cup {n \in 1 .. h : n * ow <= w * oh})
    BY <1>1, <1>2, <1>4, CutSide
  <2>2. crop = [x |-> 0, y |-> Sub(h, ch) \div 2, width |-> w, height |-> ch]
    BY <1>1, <1>2, <1>4 DEF CenterCrop
  <2>3. w = Largest({1} \cup {n \in 1 .. w : n * oh <= h * ow})
    BY <1>1, <1>2, <1>4, WholeSide
  <2> HIDE DEF ch
  <2>4. QED
    BY <1>1, <2>1, <2>2, <2>3, Middle
<1>5. CASE w * oh = h * ow
  <2>1. crop = [x |-> 0, y |-> 0, width |-> w, height |-> h]
    BY <1>1, <1>2, <1>5 DEF CenterCrop
  <2>2. /\ w = Largest({1} \cup {n \in 1 .. w : n * oh <= h * ow})
        /\ h = Largest({1} \cup {n \in 1 .. h : n * ow <= w * oh})
    BY <1>1, <1>2, <1>5, WholeSide
  <2>3. QED
    BY <1>1, <2>1, <2>2
<1>6. QED
  BY <1>2, <1>3, <1>4, <1>5

(* Each side of the crop is that of the largest part of the image with the *)
(* output's proportions, rounded down to whole pixels but at least one,    *)
(* and the crop lies in the middle, for every image and output.            *)
THEOREM CropIsTheLargest == Spec => []CropIsLargest
<1>1. PixelInv => CropIsLargest
  BY CropFacts DEF CropIsLargest
<1>2. QED
  BY PixelInvHolds, <1>1, PTL

-----------------------------------------------------------------------------
(* Samples.                                                                *)

ClampedDistance(length, o, n) == Clamp(Distance(length, o, n), 0, (length - 1) * (2 * n))

(* A sample lies inside the crop; in units of 1 / (2 * n) it is as far     *)
(* from the crop's first pixel as the clamped distance says.               *)
SampledAt(s, start, length, n, distance) ==
  /\ s = [low |-> s.low, high |-> s.high, weight |-> s.weight]
  /\ s.low \in start .. start + length - 1 /\ s.high \in start .. start + length - 1
  /\ s.high = LesserOf(s.low + 1, start + length - 1)
  /\ s.weight \in 0 .. 2 * n - 1
  /\ s.low * (2 * n) + s.weight = start * (2 * n) + distance

(* The two rows or columns of a sample and the weight of the second say    *)
(* where it lies.                                                          *)
LEMMA SampleFacts ==
  ASSUME NEW start \in Nat, NEW length \in Nat \ {0}, NEW n \in Nat \ {0}, NEW o \in 0 .. n - 1
  PROVE  SampledAt(AxisSample(start, length, o, n), start, length, n,
                   ClampedDistance(length, o, n))
<1> DEFINE unit == 2 * n
           at == ClampedDistance(length, o, n)
           s == AxisSample(start, length, o, n)
<1>1. unit \in Nat \ {0} /\ (length - 1) * unit \in Nat
  BY MulTypes
<1>2. at \in 0 .. (length - 1) * unit
  <2>1. Distance(length, o, n) \in Int
    BY MulTypes DEF Distance
  <2>2. QED
    BY <1>1, <2>1 DEF ClampedDistance, Clamp
<1>3. s = [low |-> start + at \div unit,
           high |-> LesserOf(start + at \div unit + 1, start + length - 1),
           weight |-> at % unit]
  BY DEF AxisSample, ClampedDistance
<1> HIDE DEF at, unit, s
<1>4. /\ at \div unit \in Int /\ at % unit \in 0 .. unit - 1
      /\ at = (at \div unit) * unit + (at % unit)
  BY <1>1, <1>2, DivMod, MulTypes
<1>5. at \div unit \in 0 .. length - 1
  <2>1. 0 <= at \div unit
    BY <1>1, <1>2, DivLargest
  <2>2. ~(length <= at \div unit)
    <3>1. length * unit > (length - 1) * unit
      BY <1>1, MulOrder
    <3>2. ~(length * unit <= at)
      BY <1>1, <1>2, <3>1, MulTypes
    <3>3. QED
      BY <1>1, <1>2, <3>2, DivLargest
  <2>3. QED
    BY <1>4, <2>1, <2>2
<1>6. /\ s.low = start + at \div unit /\ s.weight = at % unit
      /\ s.high = LesserOf(s.low + 1, start + length - 1)
      /\ s = [low |-> s.low, high |-> s.high, weight |-> s.weight]
  BY <1>3
<1>7. s.low \in start .. start + length - 1 /\ s.high \in start .. start + length - 1
  BY <1>5, <1>6 DEF LesserOf
<1>8. s.low * unit + s.weight = start * unit + at
  <2>1. s.low * unit = start * unit + (at \div unit) * unit
    BY <1>1, <1>4, <1>6, MulDist
  <2>2. (at \div unit) * unit \in Int /\ start * unit \in Int
    BY <1>1, <1>4, MulTypes
  <2>3. QED
    BY <1>2, <1>4, <1>6, <2>1, <2>2
<1>9. QED
  BY <1>4, <1>6, <1>7, <1>8 DEF unit, at, s, SampledAt

(* The device's right neighbour is the CPU's.                              *)
LEMMA DeviceSamplesAlike ==
  ASSUME NEW start \in Nat, NEW length \in Nat \ {0}, start + length <= Word,
         NEW n \in Nat \ {0}, NEW o \in 0 .. n - 1
  PROVE  DeviceSample(start, length, o, n) = AxisSample(start, length, o, n)
<1> DEFINE s == AxisSample(start, length, o, n)
           right == start + length - 1
<1>1. right % Word = right
  BY ModSmall, WordAssumption
<1>2. /\ s = [low |-> s.low, high |-> s.high, weight |-> s.weight]
      /\ s.low \in start .. right /\ s.high = LesserOf(s.low + 1, right)
  BY SampleFacts DEF SampledAt
<1>3. DeviceSample(start, length, o, n)
        = [s EXCEPT !.high = IF s.low < right % Word THEN s.low + 1 ELSE right % Word]
  BY DEF DeviceSample
<1> HIDE DEF s
<1>4. (IF s.low < right THEN s.low + 1 ELSE right) = s.high
  BY <1>2 DEF LesserOf
<1>5. QED
  BY <1>1, <1>2, <1>3, <1>4 DEF s

(* The distances of a pixel and its mirror image add up to the whole.      *)
LEMMA MirroredDistances ==
  ASSUME NEW length \in Nat \ {0}, NEW n \in Nat \ {0}, NEW o \in 0 .. n - 1
  PROVE  /\ ClampedDistance(length, o, n) \in Nat
         /\ ClampedDistance(length, o, n) + ClampedDistance(length, n - 1 - o, n)
              = (length - 1) * (2 * n)
<1> DEFINE d == Distance(length, o, n)
           e == Distance(length, n - 1 - o, n)
           whole == (length - 1) * (2 * n)
<1>1. d \in Int /\ e \in Int /\ whole \in Nat
  BY MulTypes DEF Distance
<1>2. d + e = whole
  <2>1. (2 * o + 1) * length + (2 * (n - 1 - o) + 1) * length = (2 * n) * length
    <3>1. (2 * o + 1) * length + (2 * (n - 1 - o) + 1) * length
            = ((2 * o + 1) + (2 * (n - 1 - o) + 1)) * length
      BY MulDist
    <3>2. (2 * o + 1) + (2 * (n - 1 - o) + 1) = 2 * n
      OBVIOUS
    <3>3. QED
      BY <3>1, <3>2
  <2>2. (2 * n) * length = whole + 2 * n
    BY MulDist, MulTypes
  <2>3. (2 * o + 1) * length \in Int /\ (2 * (n - 1 - o) + 1) * length \in Int
    BY MulTypes
  <2>4. QED
    BY <1>1, <2>1, <2>2, <2>3 DEF Distance
<1> HIDE DEF d, e, whole
<1>3. QED
  BY <1>1, <1>2 DEF ClampedDistance, Clamp, d, e, whole

(* Along one axis the samples are spread evenly over the crop.             *)
LEMMA AxisIsSampledEvenly ==
  ASSUME NEW start \in Nat, NEW length \in Nat \ {0}, start + length <= Word, NEW n \in Nat \ {0}
  PROVE  SampledEvenly(start, length, n)
<1> SUFFICES ASSUME NEW o \in 0 .. n - 1
             PROVE  LET s == AxisSample(start, length, o, n)
                        m == AxisSample(start, length, n - 1 - o, n)
                    IN  /\ \A p \in {s.low, s.high, DeviceSample(start, length, o, n).high} :
                               p \in start .. start + length - 1
                        /\ (s.low + m.low) * 2 * n + s.weight + m.weight
                             = (2 * start + length - 1) * 2 * n
  BY DEF SampledEvenly
<1> DEFINE mirror == n - 1 - o
           s == AxisSample(start, length, o, n)
           m == AxisSample(start, length, mirror, n)
           a == ClampedDistance(length, o, n)
           b == ClampedDistance(length, mirror, n)
           unit == 2 * n
<1>1. mirror \in 0 .. n - 1 /\ unit \in Nat \ {0}
  OBVIOUS
<1>2. a \in Nat /\ b \in Nat /\ a + b = (length - 1) * unit
  <2>1. a \in Nat /\ a + b = (length - 1) * unit
    BY MirroredDistances
  <2> HIDE DEF mirror
  <2>2. b \in Nat
    BY <1>1, MirroredDistances
  <2>3. QED
    BY <2>1, <2>2
<1> HIDE DEF mirror
<1>3. SampledAt(s, start, length, n, a)
  BY SampleFacts
<1>4. SampledAt(m, start, length, n, b)
  BY <1>1, SampleFacts
<1>5. DeviceSample(start, length, o, n).high = s.high
  BY DeviceSamplesAlike
<1> HIDE DEF s, m, a, b
<1> USE DEF SampledAt
<1>6. (s.low + m.low) * unit + s.weight + m.weight = (2 * start + length - 1) * unit
  <2> DEFINE p == s.low * unit
             q == m.low * unit
             r == start * unit
             t == (length - 1) * unit
  <2>1. (s.low + m.low) * unit = p + q
    BY <1>1, <1>3, <1>4, MulDist
  <2>2. (2 * start + length - 1) * unit = r + r + t
    <3>1. ((start + start) + (length - 1)) * unit = (start + start) * unit + t
      BY <1>1, MulDist
    <3>2. (start + start) * unit = r + r
      BY <1>1, MulDist
    <3>3. 2 * start + length - 1 = (start + start) + (length - 1)
      OBVIOUS
    <3>4. QED
      BY <3>1, <3>2, <3>3
  <2>3. p \in Int /\ q \in Int /\ r \in Int /\ t \in Int
    BY <1>1, <1>3, <1>4, MulTypes
  <2>4. p + s.weight = r + a /\ q + m.weight = r + b /\ a + b = t
    BY <1>2, <1>3, <1>4
  <2>5. s.weight \in Int /\ m.weight \in Int
    BY <1>1, <1>3, <1>4
  <2> HIDE DEF p, q, r, t
  <2>6. p + q + s.weight + m.weight = r + r + t
    BY <1>2, <2>3, <2>4, <2>5
  <2>7. QED
    BY <2>1, <2>2, <2>6
<1>7. /\ (s.low + m.low) * 2 * n = (s.low + m.low) * unit
      /\ (2 * start + length - 1) * 2 * n = (2 * start + length - 1) * unit
  <2> DEFINE x == s.low + m.low
             y == 2 * start + length - 1
  <2>1. x \in Int /\ y \in Int
    BY <1>3, <1>4
  <2> HIDE DEF x, y
  <2>2. x * 2 * n = x * (2 * n) /\ y * 2 * n = y * (2 * n)
    BY <2>1, MulAssoc
  <2>3. QED
    BY <2>2 DEF x, y
<1>8. QED
  BY <1>3, <1>4, <1>5, <1>6, <1>7 DEF s, m, mirror

(* What a prepared image and its crop are to the steps that follow.        *)
LEMMA PreparedFacts ==
  ASSUME PixelInv, Prepared
  PROVE  /\ image \in Decoded /\ mark \in Decoded /\ job.config \in Configs
         /\ image.width \in 1 .. Word - 1 /\ image.height \in 1 .. Word - 1
         /\ mark.width \in 1 .. Word - 1 /\ mark.height \in 1 .. Word - 1
         /\ job.config.width \in 1 .. Word - 1 /\ job.config.height \in 1 .. Word - 1
         /\ job.config.margin \in 0 .. Word - 1
         /\ Fits
<1>1. /\ image \in Decoded /\ mark \in Decoded /\ job.config \in Configs /\ Fits
      /\ job.config.width # 0 /\ job.config.height # 0
  BY JobTypes DEF PixelInv, PreparedInv
<1>2. \A i \in Decoded : i.width \in 1 .. Word - 1 /\ i.height \in 1 .. Word - 1
  <2>1. Word \div 2 - 1 <= Word - 1 /\ Word \div 2 - 1 \in Int
    BY WordAssumption
  <2>2. QED
    BY <2>1, WordAssumption DEF Decoded
<1>3. /\ job.config.width \in 1 .. Word - 1 /\ job.config.height \in 1 .. Word - 1
      /\ job.config.margin \in 0 .. Word - 1
  BY <1>1, WordAssumption DEF Configs
<1>4. QED
  BY <1>1, <1>2, <1>3

(* On both axes and both devices every sample lies inside the crop, the    *)
(* crop inside the image's buffer, and the picture is not shifted.         *)
THEOREM SamplesAreInsideTheCrop == Spec => []SamplesInsideCrop
<1>1. ASSUME PixelInv, Prepared
      PROVE  /\ SampledEvenly(crop.x, crop.width, job.config.width)
             /\ SampledEvenly(crop.y, crop.height, job.config.height)
             /\ (crop.y + crop.height - 1) * image.stride + (crop.x + crop.width) * Channels
                  <= image.bytes
  <2> DEFINE w == image.width
             h == image.height
             bottom == crop.y + crop.height
             right == crop.x + crop.width
  <2>1. /\ w \in 1 .. Word - 1 /\ h \in 1 .. Word - 1
        /\ job.config.width \in Nat \ {0} /\ job.config.height \in Nat \ {0}
        /\ image.stride = w * Channels /\ image.bytes = w * h * Channels
    BY <1>1, PreparedFacts DEF Decoded
  <2>2. /\ crop.width \in 1 .. w /\ crop.height \in 1 .. h
        /\ crop.x \in Nat /\ right <= w /\ crop.y \in Nat /\ bottom <= h
    BY <1>1, CropFacts
  <2>3. /\ SampledEvenly(crop.x, crop.width, job.config.width)
        /\ SampledEvenly(crop.y, crop.height, job.config.height)
    <3>1. crop.width \in Nat \ {0} /\ crop.x \in Nat /\ crop.x + crop.width <= Word
      BY <2>1, <2>2, WordAssumption
    <3>2. crop.height \in Nat \ {0} /\ crop.y \in Nat /\ crop.y + crop.height <= Word
      BY <2>1, <2>2, WordAssumption
    <3>3. QED
      BY <2>1, <3>1, <3>2, AxisIsSampledEvenly
  <2>4. bottom \in Nat \ {0} /\ right \in Nat \ {0}
    BY <2>1, <2>2
  <2> HIDE DEF w, h, bottom, right
  <2>5. (bottom - 1) * (w * Channels) <= (h - 1) * (w * Channels)
    BY <2>1, <2>2, <2>4, MulOrder DEF Channels
  <2>6. right * Channels <= w * Channels
    BY <2>1, <2>2, <2>4 DEF Channels
  <2>7. (h - 1) * (w * Channels) + w * Channels = w * h * Channels
    <3>1. (h - 1) * (w * Channels) + w * Channels = h * (w * Channels)
      BY <2>1, MulDist, MulTypes DEF Channels
    <3>2. QED
      BY <2>1, <3>1, MulTypes, MulAssoc DEF Channels
  <2>8. (bottom - 1) * (w * Channels) + right * Channels <= w * h * Channels
    <3> DEFINE a == (bottom - 1) * (w * Channels)
               b == (h - 1) * (w * Channels)
               c == right * Channels
               d == w * Channels
    <3>1. a \in Int /\ b \in Int /\ c \in Int /\ d \in Int
      BY <2>1, <2>4, MulTypes DEF Channels
    <3>2. a <= b /\ c <= d /\ b + d = w * h * Channels
      BY <2>5, <2>6, <2>7
    <3> HIDE DEF a, b, c, d
    <3>3. a + c <= b + d
      BY <3>1, <3>2
    <3>4. QED
      BY <3>2, <3>3 DEF a, c
  <2>9. image.stride = w * Channels /\ image.bytes = w * h * Channels
    BY <2>1
  <2>10. (bottom - 1) * image.stride + right * Channels <= image.bytes
    BY <2>8, <2>9
  <2>11. bottom - 1 = crop.y + crop.height - 1
    BY <2>2 DEF bottom
  <2>12. QED
    BY <2>3, <2>10, <2>11 DEF right
<1>2. PixelInv => SamplesInsideCrop
  BY <1>1 DEF SamplesInsideCrop
<1>3. QED
  BY PixelInvHolds, <1>2, PTL

-----------------------------------------------------------------------------
(* The threads of a launch.                                                *)

(* A grid that has blocks has enough of them, and no coordinate wraps.     *)
LEMMA BlocksCover ==
  ASSUME NEW n \in 1 .. Word - 1, Blocks(n) # 0
  PROVE  /\ Blocks(n) \in Nat /\ n <= Blocks(n) * BlockSize
         /\ Blocks(n) * BlockSize < Word
<1> DEFINE m == n + (BlockSize - 1)
<1>1. m \in Nat /\ m < 2 * Word /\ m = n + BlockSize - 1
  BY WordAssumption, BlockAssumption
<1>2. m < Word
  <2>1. SUFFICES ASSUME m >= Word PROVE FALSE
    BY <1>1, WordAssumption
  <2>2. m % Word = m - Word
    <3>1. m = Word * 1 + (m - Word) /\ 0 <= m - Word /\ m - Word < Word
      BY <1>1, <2>1, WordAssumption
    <3>2. (Word * 1 + (m - Word)) % Word = m - Word
      BY <1>1, <3>1, DivModUnique, WordAssumption
    <3>3. QED
      BY <3>1, <3>2
  <2>3. m - Word \in Int /\ 0 <= m - Word /\ m - Word < BlockSize
    BY <1>1, <2>1, WordAssumption, BlockAssumption
  <2>4. (m - Word) \div BlockSize = 0
    BY <2>3, BlockAssumption
  <2>5. QED
    BY <1>1, <2>2, <2>4 DEF Blocks
<1>3. m % Word = m
  BY <1>1, <1>2, ModSmall, WordAssumption
<1> DEFINE b == m \div BlockSize
<1>4. Blocks(n) = b
  BY <1>1, <1>3 DEF Blocks
<1>5. b \in Int /\ b * BlockSize <= m /\ m < b * BlockSize + BlockSize /\ b >= 0
  <2>1. /\ b \in Int /\ m % BlockSize \in 0 .. BlockSize - 1
        /\ m = BlockSize * b + (m % BlockSize)
    BY <1>1, DivMod, BlockAssumption
  <2>2. b >= 0
    BY <1>1, DivLargest, BlockAssumption
  <2>3. BlockSize * b = b * BlockSize /\ b * BlockSize \in Int
    BY <2>1, MulTypes, BlockAssumption
  <2> HIDE DEF b, m
  <2>4. QED
    BY <1>1, <2>1, <2>2, <2>3, BlockAssumption
<1> HIDE DEF b
<1>6. b * BlockSize \in Int
  BY <1>5, MulTypes, BlockAssumption
<1>7. QED
  BY <1>1, <1>2, <1>4, <1>5, <1>6, WordAssumption, BlockAssumption

(* Along an axis, each coordinate is found by exactly one thread.          *)
LEMMA ThreadsOfAxis ==
  ASSUME NEW n \in 1 .. Word - 1, Blocks(n) # 0
  PROVE  /\ Cardinality(AxisThreads(n)) = n
         /\ \A t \in AxisThreads(n) : ThreadAt(t[1], t[2]) \in 0 .. n - 1
         /\ \A i \in 0 .. n - 1 : \E t \in AxisThreads(n) : ThreadAt(t[1], t[2]) = i
<1> DEFINE B == Blocks(n)
           D == BlockSize
           f == [i \in 0 .. n - 1 |-> <<i \div D, i % D>>]
<1>1. B \in Nat /\ n <= B * D /\ B * D < Word /\ D \in Nat \ {0} /\ B * D \in Nat
  BY BlocksCover, MulTypes, BlockAssumption
<1>2. ASSUME NEW b \in 0 .. B - 1, NEW t \in 0 .. D - 1
      PROVE  /\ ThreadAt(b, t) = b * D + t /\ b * D + t \in Nat
             /\ (b * D + t) \div D = b /\ (b * D + t) % D = t
  <2>1. b * D \in Nat /\ b * D = D * b
    BY <1>1, MulTypes
  <2>2. (b + 1) * D <= B * D
    BY <1>1, MulOrder
  <2>3. (b + 1) * D = b * D + D
    BY <1>1, MulDist
  <2>4. b * D + t < Word
    <3> DEFINE x == b * D
               y == B * D
    <3>1. x \in Int /\ y \in Int /\ x + D <= y /\ y < Word
      BY <1>1, <2>1, <2>2, <2>3
    <3> HIDE DEF x, y
    <3>2. x + t < Word
      BY <1>1, <3>1, WordAssumption
    <3>3. QED
      BY <3>2 DEF x
  <2>5. (b * D + t) % Word = b * D + t
    BY <2>1, <2>4, ModSmall, WordAssumption
  <2>6. (D * b + t) \div D = b /\ (D * b + t) % D = t
    <3>1. D \in Nat \ {0} /\ b \in Int /\ t \in Int /\ 0 <= t /\ t < D
      BY <1>1
    <3> HIDE DEF D
    <3>2. QED
      BY <3>1, DivModUnique
  <2>7. QED
    BY <1>1, <2>1, <2>5, <2>6 DEF ThreadAt
<1>3. ASSUME NEW i \in 0 .. n - 1
      PROVE  f[i] \in AxisThreads(n) /\ ThreadAt(f[i][1], f[i][2]) = i
  <2> DEFINE b == i \div D
             t == i % D
  <2>1. b \in Int /\ t \in 0 .. D - 1 /\ i = D * b + t
    BY <1>1, DivMod
  <2>2. 0 <= b
    BY <1>1, DivLargest
  <2>3. b < B
    <3>1. B * D > i
      BY <1>1
    <3>2. ~(B <= b)
      BY <1>1, <3>1, DivLargest
    <3>3. QED
      BY <1>1, <2>1, <3>2
  <2>4. f[i] = <<b, t>>
    OBVIOUS
  <2> HIDE DEF b, t, f
  <2>5. b \in 0 .. B - 1 /\ t \in 0 .. D - 1
    BY <1>1, <2>1, <2>2, <2>3
  <2>6. D * b = b * D
    BY <1>1, <2>1, MulTypes
  <2>7. ThreadAt(b, t) = i
    BY <1>2, <2>1, <2>5, <2>6
  <2>8. <<b, t>> \in (0 .. B - 1) \X (0 .. D - 1)
    BY <2>5
  <2>9. QED
    BY <2>4, <2>7, <2>8 DEF AxisThreads
<1>4. ASSUME NEW t \in AxisThreads(n)
      PROVE  ThreadAt(t[1], t[2]) \in 0 .. n - 1 /\ f[ThreadAt(t[1], t[2])] = t
  <2>1. /\ t[1] \in 0 .. B - 1 /\ t[2] \in 0 .. D - 1 /\ t = <<t[1], t[2]>>
        /\ ThreadAt(t[1], t[2]) < n
    BY DEF AxisThreads
  <2>2. /\ ThreadAt(t[1], t[2]) \in Nat
        /\ ThreadAt(t[1], t[2]) \div D = t[1] /\ ThreadAt(t[1], t[2]) % D = t[2]
    BY <1>2, <2>1
  <2>3. ThreadAt(t[1], t[2]) \in 0 .. n - 1
    BY <2>1, <2>2
  <2>4. QED
    BY <2>1, <2>2, <2>3
<1> HIDE DEF B, D, f
<1>5. f \in Bijection(0 .. n - 1, AxisThreads(n))
  <2>1. f \in [0 .. n - 1 -> AxisThreads(n)]
    BY <1>3 DEF f
  <2>2. \A i, j \in 0 .. n - 1 : f[i] = f[j] => i = j
    BY <1>3
  <2>3. QED
    BY <1>4, <2>1, <2>2 DEF Bijection, Injection, Surjection, IsInjective
<1>6. Cardinality(AxisThreads(n)) = n
  <2>1. IsFiniteSet(0 .. n - 1) /\ Cardinality(0 .. n - 1) = n
    BY FS_Interval
  <2>2. QED
    BY <1>5, <2>1, FS_Bijection DEF ExistsBijection
<1>7. QED
  BY <1>3, <1>4, <1>6

(* A chunk that can be launched has an addressable number of bytes, and    *)
(* each of its grid's axes has blocks.                                     *)
LEMMA ChunkFits ==
  ASSUME PixelInv, Prepared, CanLaunch(job.config)
  PROVE  LET c == job.config
             area == c.width * c.height
         IN  /\ c.width \in 1 .. Word - 1 /\ c.height \in 1 .. Word - 1
             /\ Blocks(c.width) # 0 /\ Blocks(c.height) # 0
             /\ job.count \in Nat \ {0} /\ area \in Nat \ {0}
             /\ job.count * area * Channels < Size
<1> DEFINE c == job.config
           area == c.width * c.height
<1>1. /\ c.width \in 1 .. Word - 1 /\ c.height \in 1 .. Word - 1
      /\ job.count \in Nat \ {0}
  BY PreparedFacts, JobTypes DEF PixelInv
<1>2. area \in Nat \ {0} /\ area * Channels \in Nat \ {0}
  BY <1>1, MulTypes DEF Channels
<1>3. /\ job.count <= (Size - 1) \div (c.width * c.height * Channels)
      /\ Blocks(c.width) # 0 /\ Blocks(c.height) # 0
  BY DEF CanLaunch
<1> HIDE DEF area
<1>4. job.count * (area * Channels) <= Size - 1
  <2>1. job.count <= (Size - 1) \div (area * Channels)
    BY <1>3 DEF area
  <2>2. QED
    BY <1>1, <1>2, <2>1, DivLargest, WordAssumption
<1>5. job.count * area * Channels = job.count * (area * Channels)
  BY <1>1, <1>2, MulAssoc DEF Channels
<1>6. job.count * (area * Channels) \in Int
  BY <1>1, <1>2, MulTypes
<1>7. QED
  BY <1>1, <1>2, <1>3, <1>4, <1>5, <1>6, WordAssumption DEF area

(* The threads reach exactly the pixels of the output.                     *)
LEMMA KernelCoversOutput ==
  ASSUME PixelInv, Prepared, CanLaunch(job.config)
  PROVE  DOMAIN KernelOutput = Output(job.config)
<1> DEFINE w == job.config.width
           h == job.config.height
           At(t) == ThreadAt(t[1], t[2])
           D == {<<At(t), At(u)>> : t \in AxisThreads(w), u \in AxisThreads(h)}
<1>1. /\ \A t \in AxisThreads(w) : At(t) \in 0 .. w - 1
      /\ \A i \in 0 .. w - 1 : \E t \in AxisThreads(w) : At(t) = i
      /\ \A t \in AxisThreads(h) : At(t) \in 0 .. h - 1
      /\ \A i \in 0 .. h - 1 : \E t \in AxisThreads(h) : At(t) = i
  BY ChunkFits, ThreadsOfAxis
<1>2. DOMAIN KernelOutput = D
  BY DEF KernelOutput
<1> HIDE DEF At
<1>3. D = (0 .. w - 1) \X (0 .. h - 1)
  <2>1. ASSUME NEW p \in D PROVE p \in (0 .. w - 1) \X (0 .. h - 1)
    BY <1>1
  <2>2. ASSUME NEW x \in 0 .. w - 1, NEW y \in 0 .. h - 1 PROVE <<x, y>> \in D
    <3>1. PICK t \in AxisThreads(w), u \in AxisThreads(h) : At(t) = x /\ At(u) = y
      BY <1>1
    <3>2. QED
      BY <3>1
  <2>3. QED
    BY <2>1, <2>2
<1>4. QED
  BY <1>2, <1>3 DEF Output

(* Pixels of a chunk of n images of w by h, counted row by row and image   *)
(* by image.                                                               *)
Place(n, x, y, w, h) == n * (w * h) + (y * w + x)

PlacesFill(total, count, w, h) ==
  /\ \A n \in 0 .. count - 1, x \in 0 .. w - 1, y \in 0 .. h - 1 :
       Place(n, x, y, w, h) \in 0 .. total - 1
  /\ \A i \in 0 .. total - 1 :
       \E n \in 0 .. count - 1, x \in 0 .. w - 1, y \in 0 .. h - 1 :
         Place(n, x, y, w, h) = i

(* The places of all pixels of all outputs are the buffer, nothing         *)
(* outside.                                                                *)
LEMMA PlacesCover ==
  ASSUME NEW count \in Nat \ {0}, NEW w \in Nat \ {0}, NEW h \in Nat \ {0}
  PROVE  PlacesFill(count * (w * h), count, w, h)
<1> DEFINE area == w * h
<1>1. area \in Nat \ {0} /\ count * area \in Nat /\ area = h * w
  BY MulTypes
<1> HIDE DEF area
<1>2. ASSUME NEW m \in Nat \ {0}, NEW d \in Nat \ {0}, NEW q \in 0 .. m - 1, NEW r \in 0 .. d - 1
      PROVE  q * d + r \in 0 .. m * d - 1
  <2> DEFINE a == q * d
             b == m * d
             e == (q + 1) * d
  <2>1. a \in Nat /\ b \in Nat /\ e <= b /\ e = a + d
    BY MulTypes, MulOrder, MulDist
  <2> HIDE DEF a, b, e
  <2>2. a + r \in 0 .. b - 1
    BY <2>1
  <2>3. QED
    BY <2>2 DEF a, b
<1>3. ASSUME NEW m \in Nat \ {0}, NEW d \in Nat \ {0}, NEW i \in 0 .. m * d - 1
      PROVE  \E q \in 0 .. m - 1, r \in 0 .. d - 1 : i = q * d + r
  <2> DEFINE q == i \div d
             r == i % d
  <2>1. m * d \in Nat /\ i \in Nat /\ i < m * d
    BY MulTypes
  <2>2. q \in Int /\ r \in 0 .. d - 1 /\ i = d * q + r
    BY <2>1, DivMod
  <2>3. 0 <= q
    BY <2>1, DivLargest
  <2>4. ~(m <= q)
    BY <2>1, DivLargest
  <2> HIDE DEF q, r
  <2>5. q \in 0 .. m - 1 /\ i = q * d + r
    BY <2>2, <2>3, <2>4, MulTypes
  <2>6. QED
    BY <2>2, <2>5
<1>4. ASSUME NEW n \in 0 .. count - 1, NEW x \in 0 .. w - 1, NEW y \in 0 .. h - 1
      PROVE  n * area + (y * w + x) \in 0 .. count * area - 1
  <2>1. y * w + x \in 0 .. area - 1
    BY <1>1, <1>2
  <2>2. QED
    BY <1>1, <1>2, <2>1
<1>5. ASSUME NEW i \in 0 .. count * area - 1
      PROVE  \E n \in 0 .. count - 1, x \in 0 .. w - 1, y \in 0 .. h - 1 :
               n * area + (y * w + x) = i
  <2>1. PICK n \in 0 .. count - 1, r \in 0 .. area - 1 : i = n * area + r
    BY <1>1, <1>3
  <2>2. PICK y \in 0 .. h - 1, x \in 0 .. w - 1 : r = y * w + x
    BY <1>1, <1>3
  <2>3. QED
    BY <2>1, <2>2
<1>6. QED
  BY <1>4, <1>5 DEF PlacesFill, Place, area

(* A thread writes where its pixel is.                                     *)
LEMMA KernelIndexIsPlace ==
  ASSUME PixelInv, Prepared, CanLaunch(job.config),
         NEW n \in 0 .. job.count - 1,
         NEW x \in 0 .. job.config.width - 1, NEW y \in 0 .. job.config.height - 1
  PROVE  KernelIndex(n, x, y) = Channels * Place(n, x, y, job.config.width, job.config.height)
<1> DEFINE w == job.config.width
           h == job.config.height
           i == Place(n, x, y, w, h)
           pixels == job.count * (w * h)
<1>1. /\ w \in Nat \ {0} /\ h \in Nat \ {0} /\ job.count \in Nat \ {0}
      /\ pixels * Channels < Size /\ w * h \in Nat
      /\ x \in 0 .. w - 1 /\ y \in 0 .. h - 1
  BY ChunkFits
<1> HIDE DEF w, h
<1>2. i \in 0 .. pixels - 1
  <2>1. PlacesFill(pixels, job.count, w, h)
    BY <1>1, PlacesCover
  <2> HIDE DEF pixels
  <2>2. QED
    BY <1>1, <2>1 DEF PlacesFill
<1>3. pixels \in Nat
  BY <1>1, MulTypes
<1>4. Channels * i \in Nat /\ Channels * i < Word * Word
  <2>1. Word * Word \in Nat /\ Size <= Word * Word
    BY MulTypes, WordAssumption
  <2> HIDE DEF pixels, i
  <2>2. QED
    BY <1>1, <1>2, <1>3, <2>1, WordAssumption DEF Channels
<1>5. n * (w * Channels * h) + y * (w * Channels) + x * Channels = Channels * i
  <2>1. w * Channels * h = (w * h) * Channels
    BY <1>1 DEF Channels
  <2>2. n * ((w * h) * Channels) = (n * (w * h)) * Channels
    BY <1>1, MulAssoc DEF Channels
  <2>3. y * (w * Channels) = (y * w) * Channels
    BY <1>1, MulAssoc DEF Channels
  <2> DEFINE a == n * (w * h)
             b == y * w
  <2>4. a \in Int /\ b \in Int /\ x \in Int
    BY <1>1, MulTypes
  <2>5. i = a + (b + x)
    BY DEF Place
  <2> HIDE DEF a, b, i
  <2>6. a * Channels + b * Channels + x * Channels = Channels * i
    BY <2>4, <2>5 DEF Channels
  <2>7. QED
    BY <2>1, <2>2, <2>3, <2>6 DEF a, b
<1>6. (Channels * i) % (Word * Word) = Channels * i
  <2>1. Word * Word \in Nat \ {0}
    BY MulTypes, WordAssumption
  <2>2. QED
    BY <1>4, <2>1, ModSmall
<1>7. QED
  BY <1>5, <1>6 DEF KernelIndex, w, h

(* The threads of a launch write every pixel of a chunk once, inside the   *)
(* buffer that was reserved for it.                                        *)
THEOREM KernelWritesEachPixelOnce == Spec => []KernelWritesOnce
<1>1. ASSUME PixelInv, gpu # NoPixels
      PROVE  LET c == job.config
                 pixels == job.count * c.width * c.height
                 written == {KernelIndex(n, p[1], p[2]) :
                               n \in 0 .. job.count - 1, p \in DOMAIN gpu}
             IN  /\ Cardinality(AxisThreads(c.width)) * Cardinality(AxisThreads(c.height))
                      = c.width * c.height
                 /\ Cardinality(written) = pixels
                 /\ \A i \in written : i + Channels <= pixels * Channels
  <2> DEFINE w == job.config.width
             h == job.config.height
             count == job.count
             total == count * (w * h)
             written == {KernelIndex(n, p[1], p[2]) : n \in 0 .. count - 1, p \in DOMAIN gpu}
             places == {Channels * i : i \in 0 .. total - 1}
  <2>1. Prepared /\ CanLaunch(job.config) /\ gpu = KernelOutput
    BY <1>1 DEF PixelInv
  <2>2. /\ w \in 1 .. Word - 1 /\ h \in 1 .. Word - 1 /\ count \in Nat \ {0} /\ w * h \in Nat
        /\ Blocks(w) # 0 /\ Blocks(h) # 0
    BY <1>1, <2>1, ChunkFits
  <2>3. total \in Nat /\ count * w * h = total
    BY <2>2, MulTypes, MulAssoc
  <2>4. DOMAIN gpu = (0 .. w - 1) \X (0 .. h - 1)
    BY <1>1, <2>1, KernelCoversOutput DEF Output
  <2>5. \A n \in 0 .. count - 1, x \in 0 .. w - 1, y \in 0 .. h - 1 :
          KernelIndex(n, x, y) = Channels * Place(n, x, y, w, h)
    BY <1>1, <2>1, KernelIndexIsPlace
  <2>6. Cardinality(AxisThreads(w)) * Cardinality(AxisThreads(h)) = w * h
    BY <2>2, ThreadsOfAxis
  <2> HIDE DEF w, h, count
  <2>7. PlacesFill(total, count, w, h)
    <3>1. w \in Nat \ {0} /\ h \in Nat \ {0} /\ count \in Nat \ {0}
      BY <2>2, WordAssumption
    <3>2. QED
      BY <3>1, PlacesCover
  <2> HIDE DEF total
  <2>8. written = places
    <3>1. ASSUME NEW v \in written PROVE v \in places
      <4>1. PICK n \in 0 .. count - 1, p \in DOMAIN gpu : v = KernelIndex(n, p[1], p[2])
        OBVIOUS
      <4>2. p[1] \in 0 .. w - 1 /\ p[2] \in 0 .. h - 1
        BY <2>4
      <4>3. QED
        BY <2>5, <2>7, <4>1, <4>2 DEF PlacesFill
    <3>2. ASSUME NEW v \in places PROVE v \in written
      <4>1. PICK i \in 0 .. total - 1 : v = Channels * i
        OBVIOUS
      <4>2. PICK n \in 0 .. count - 1, x \in 0 .. w - 1, y \in 0 .. h - 1 :
              Place(n, x, y, w, h) = i
        BY <2>7 DEF PlacesFill
      <4>3. <<x, y>> \in DOMAIN gpu /\ <<x, y>>[1] = x /\ <<x, y>>[2] = y
        BY <2>4
      <4>4. v = KernelIndex(n, <<x, y>>[1], <<x, y>>[2])
        BY <2>5, <4>1, <4>2, <4>3
      <4>5. QED
        BY <4>3, <4>4
    <3>3. QED
      BY <3>1, <3>2
  <2> HIDE DEF written
  <2>9. Cardinality(places) = total
    <3> DEFINE f == [i \in 0 .. total - 1 |-> Channels * i]
    <3>1. f \in Bijection(0 .. total - 1, places)
      <4>1. f \in [0 .. total - 1 -> places] /\ \A i \in 0 .. total - 1 : f[i] = Channels * i
        OBVIOUS
      <4> HIDE DEF f
      <4>2. \A i, j \in 0 .. total - 1 : f[i] = f[j] => i = j
        BY <2>3, <4>1 DEF Channels
      <4>3. \A v \in places : \E i \in 0 .. total - 1 : f[i] = v
        BY <4>1
      <4> HIDE DEF places
      <4>4. QED
        BY <4>1, <4>2, <4>3 DEF Bijection, Injection, Surjection, IsInjective
    <3>2. IsFiniteSet(0 .. total - 1) /\ Cardinality(0 .. total - 1) = total
      BY <2>3, FS_Interval
    <3>3. QED
      BY <3>1, <3>2, FS_Bijection DEF ExistsBijection
  <2>10. \A v \in places : v + Channels <= total * Channels
    BY <2>3 DEF Channels
  <2>11. /\ Cardinality(written) = count * w * h
         /\ \A v \in written : v + Channels <= count * w * h * Channels
    BY <2>3, <2>8, <2>9, <2>10
  <2>12. QED
    BY <2>6, <2>11 DEF w, h, count, written
<1>2. PixelInv => KernelWritesOnce
  BY <1>1 DEF KernelWritesOnce
<1>3. QED
  BY PixelInvHolds, <1>2, PTL

-----------------------------------------------------------------------------
(* Values.                                                                 *)

(* A rounded fraction stays between bounds that are channel values.        *)
LEMMA RoundingStaysBetween ==
  ASSUME NEW n \in Int, NEW d \in Nat \ {0}, NEW low \in 0 .. MaxValue, NEW high \in 0 .. MaxValue,
         low * d <= n, n <= high * d
  PROVE  RoundAndClamp(n, d) \in low .. high
<1> DEFINE q == (2 * n + d) \div (2 * d)
<1>1. low \in Nat /\ high \in Nat /\ MaxValue \in Nat
  BY BlockAssumption
<1>2. low <= high
  <2>1. low * d <= high * d
    <3>1. low * d \in Int /\ high * d \in Int
      BY <1>1, MulTypes
    <3>2. QED
      BY <3>1
  <2>2. QED
    BY <1>1, <2>1, MulOrder
<1>3. CASE n <= 0
  <2>1. ~(0 < low)
    <3>1. 0 < low => 0 * d < low * d
      BY <1>1, MulOrder
    <3>2. low * d \in Int
      BY <1>1, MulTypes
    <3>3. QED
      BY <1>3, <3>1, <3>2
  <2>2. QED
    BY <1>1, <1>3, <2>1 DEF RoundAndClamp
<1>4. CASE n > 0 /\ n >= MaxValue * d
  <2>1. MaxValue * d <= high * d
    <3>1. MaxValue * d \in Int /\ high * d \in Int
      BY <1>1, MulTypes
    <3>2. QED
      BY <1>4, <3>1
  <2>2. MaxValue <= high
    BY <1>1, <2>1, MulOrder
  <2>3. QED
    BY <1>1, <1>2, <1>4, <2>2 DEF RoundAndClamp
<1>5. CASE n > 0 /\ ~(n >= MaxValue * d)
  <2>1. 2 * d \in Nat \ {0} /\ 2 * n + d \in Int
    OBVIOUS
  <2>2. low * (2 * d) = 2 * (low * d) /\ (high + 1) * (2 * d) = 2 * (high * d) + 2 * d
    <3>1. low * (2 * d) = (low * d) * 2
      BY <1>1
    <3>2. (high + 1) * (2 * d) = high * (2 * d) + 2 * d
      BY <1>1, MulDist
    <3>3. high * (2 * d) = 2 * (high * d)
      BY <1>1
    <3>4. QED
      BY <1>1, <3>1, <3>2, <3>3
  <2> DEFINE a == low * d
             b == high * d
  <2>3. a \in Int /\ b \in Int /\ a <= n /\ n <= b
    BY <1>1, MulTypes
  <2>4. low * (2 * d) = 2 * a /\ (high + 1) * (2 * d) = 2 * b + 2 * d
    BY <2>2
  <2> HIDE DEF a, b
  <2>5. low * (2 * d) <= 2 * n + d /\ ~((high + 1) * (2 * d) <= 2 * n + d)
    BY <2>3, <2>4
  <2>6. low <= q /\ ~(high + 1 <= q)
    BY <1>1, <2>1, <2>5, DivLargest
  <2>7. q \in Int
    BY <2>1, DivMod
  <2>8. RoundAndClamp(n, d) = q
    BY <1>5 DEF RoundAndClamp
  <2> HIDE DEF q
  <2>9. QED
    BY <1>1, <2>6, <2>7, <2>8
<1>6. QED
  BY <1>3, <1>4, <1>5

(* A rounded and clamped fraction is a channel value.                      *)
LEMMA RoundingType ==
  ASSUME NEW n \in Int, NEW d \in Nat \ {0}
  PROVE  RoundAndClamp(n, d) \in 0 .. MaxValue
<1>1. MaxValue \in Nat \ {0} /\ 0 \in 0 .. MaxValue /\ MaxValue \in 0 .. MaxValue
  BY BlockAssumption
<1>2. CASE n <= 0
  BY <1>1, <1>2 DEF RoundAndClamp
<1>3. CASE n > 0 /\ n >= MaxValue * d
  BY <1>1, <1>3 DEF RoundAndClamp
<1>4. CASE n > 0 /\ ~(n >= MaxValue * d)
  <2>1. 0 * d <= n /\ n <= MaxValue * d
    <3>1. MaxValue * d \in Int
      BY <1>1, MulTypes
    <3>2. QED
      BY <1>4, <3>1
  <2>2. QED
    BY <1>1, <2>1, RoundingStaysBetween
<1>5. QED
  BY <1>2, <1>3, <1>4

(* A mixture lies between its parts.                                       *)
LEMMA BlendBetween ==
  ASSUME NEW base \in 0 .. MaxValue, NEW colour \in 0 .. MaxValue, NEW alpha \in 0 .. MaxValue,
         NEW c \in Configs, c.opacity[1] <= c.opacity[2]
  PROVE  Blended(base, colour, alpha, c) \in LesserOf(base, colour) .. GreaterOf(base, colour)
<1> DEFINE one == MaxValue * c.opacity[2]
           part == alpha * c.opacity[1]
           low == LesserOf(base, colour)
           high == GreaterOf(base, colour)
           n == base * (one - part) + colour * part
<1>1. /\ c.opacity[1] \in Nat /\ c.opacity[2] \in Nat \ {0}
      /\ alpha \in Nat /\ MaxValue \in Nat \ {0} /\ alpha <= MaxValue
      /\ base \in Nat /\ colour \in Nat
  BY BlockAssumption DEF Configs
<1>2. part \in Nat /\ one \in Nat \ {0}
  BY <1>1, MulTypes
<1>3. part <= one
  <2>1. CASE c.opacity[1] = 0
    BY <1>1, <1>2, <2>1
  <2>2. CASE c.opacity[1] # 0
    <3>1. alpha * c.opacity[1] <= MaxValue * c.opacity[1]
      BY <1>1, <2>2, MulOrder
    <3>2. c.opacity[1] * MaxValue <= c.opacity[2] * MaxValue
      BY <1>1, MulOrder
    <3> DEFINE x == MaxValue * c.opacity[1]
    <3>3. x \in Int /\ c.opacity[1] * MaxValue = x /\ c.opacity[2] * MaxValue = one
      BY <1>1, MulTypes
    <3>4. part <= x
      BY <3>1
    <3> HIDE DEF x, one, part
    <3>5. QED
      BY <1>2, <3>2, <3>3, <3>4
  <2>3. QED
    BY <2>1, <2>2
<1>4. Blended(base, colour, alpha, c) = RoundAndClamp(n, one)
  BY DEF Blended
<1> HIDE DEF one, part
<1>5. /\ low \in 0 .. MaxValue /\ high \in 0 .. MaxValue
      /\ low <= base /\ low <= colour /\ base <= high /\ colour <= high
  BY <1>1 DEF LesserOf, GreaterOf
<1> HIDE DEF low, high
<1> DEFINE rest == one - part
<1>6. rest \in Nat /\ one = rest + part
  BY <1>2, <1>3
<1>7. ASSUME NEW a \in Nat, NEW b \in Nat, NEW r \in Nat, a <= b
      PROVE  a * r <= b * r /\ a * r \in Int /\ b * r \in Int
  BY <1>7, MulTypes, MulOrder
<1> HIDE DEF rest
<1>8. low \in Nat /\ high \in Nat
  BY <1>5, BlockAssumption
<1>9. /\ low * rest <= base * rest /\ base * rest <= high * rest
      /\ low * part <= colour * part /\ colour * part <= high * part
      /\ low * rest \in Int /\ base * rest \in Int /\ high * rest \in Int
      /\ low * part \in Int /\ colour * part \in Int /\ high * part \in Int
  BY <1>1, <1>2, <1>5, <1>6, <1>7, <1>8
<1>10. low * one = low * rest + low * part /\ high * one = high * rest + high * part
  <2>1. (rest + part) * low = rest * low + part * low
        /\ (rest + part) * high = rest * high + part * high
    BY <1>2, <1>6, <1>8, MulDist
  <2>2. QED
    BY <1>2, <1>6, <1>8, <2>1, MulTypes
<1>11. n = base * rest + colour * part
  BY DEF rest
<1>12. low * one <= n /\ n <= high * one /\ n \in Int
  <2> DEFINE a1 == low * rest
             a2 == low * part
             b1 == base * rest
             b2 == colour * part
             c1 == high * rest
             c2 == high * part
  <2>1. /\ a1 <= b1 /\ b1 <= c1 /\ a2 <= b2 /\ b2 <= c2
        /\ a1 \in Int /\ a2 \in Int /\ b1 \in Int /\ b2 \in Int /\ c1 \in Int /\ c2 \in Int
    BY <1>9
  <2>2. low * one = a1 + a2 /\ high * one = c1 + c2 /\ n = b1 + b2
    BY <1>10, <1>11
  <2> HIDE DEF a1, a2, b1, b2, c1, c2, n
  <2>3. QED
    BY <2>1, <2>2
<1> HIDE DEF n
<1>13. QED
  BY <1>2, <1>4, <1>5, <1>12, RoundingStaysBetween DEF low, high

(* What is interpolated is a channel value.                                *)
LEMMA InterpolatedType ==
  ASSUME NEW i \in Decoded, NEW sx, NEW sy, NEW dx \in Nat \ {0}, NEW dy \in Nat \ {0},
         sx.low \in Int, sx.high \in Int, sx.weight \in Int,
         sy.low \in Int, sy.high \in Int, sy.weight \in Int
  PROVE  Interpolated(i, sx, sy, dx, dy) \in 0 .. MaxValue
<1> DEFINE P(x, y) == Content(PixelIndex(i, x, y))
           Row(y) == P(sx.low, y) * dx + (P(sx.high, y) - P(sx.low, y)) * sx.weight
           n == Row(sy.low) * dy + (Row(sy.high) - Row(sy.low)) * sy.weight
<1>1. ASSUME NEW x \in Int, NEW y \in Int
      PROVE  P(x, y) \in Int
  <2>1. y * i.stride + x * Channels \in Int
    BY MulTypes DEF Decoded, Channels
  <2>2. PixelIndex(i, x, y) \in 0 .. Size - 1
    BY <2>1, DivMod, WordAssumption DEF PixelIndex
  <2>3. QED
    BY <2>2, ContentAssumption, BlockAssumption
<1> HIDE DEF P
<1>2. ASSUME NEW y \in Int
      PROVE  Row(y) \in Int
  <2>1. P(sx.low, y) \in Int /\ P(sx.high, y) \in Int
    BY <1>1
  <2>2. P(sx.low, y) * dx \in Int /\ (P(sx.high, y) - P(sx.low, y)) * sx.weight \in Int
    BY <2>1, MulTypes
  <2>3. QED
    BY <2>2
<1> HIDE DEF Row
<1>3. n \in Int
  <2>1. Row(sy.low) \in Int /\ Row(sy.high) \in Int
    BY <1>2
  <2>2. Row(sy.low) * dy \in Int /\ (Row(sy.high) - Row(sy.low)) * sy.weight \in Int
    BY <2>1, MulTypes
  <2>3. QED
    BY <2>2
<1>4. Interpolated(i, sx, sy, dx, dy) = RoundAndClamp(n, dx * dy)
  BY DEF Interpolated, n, Row, P
<1> HIDE DEF n
<1>5. dx * dy \in Nat \ {0}
  BY MulTypes
<1>6. QED
  BY <1>3, <1>4, <1>5, RoundingType

(* What both back ends compute for a pixel of the output.                  *)
LEMMA SameValues ==
  ASSUME PixelInv, Prepared,
         NEW x \in 0 .. job.config.width - 1, NEW y \in 0 .. job.config.height - 1
  PROVE  CpuValue(x, y) \in 0 .. MaxValue /\ DeviceValue(x, y) = CpuValue(x, y)
<1> DEFINE c == job.config
           sx == AxisSample(crop.x, crop.width, x, c.width)
           sy == AxisSample(crop.y, crop.height, y, c.height)
           v == Interpolated(image, sx, sy, 2 * c.width, 2 * c.height)
<1>1. /\ image \in Decoded /\ c \in Configs /\ c.width \in Nat \ {0} /\ c.height \in Nat \ {0}
      /\ image.width \in 1 .. Word - 1 /\ image.height \in 1 .. Word - 1
  BY PreparedFacts, WordAssumption
<1>2. /\ crop.x \in Nat /\ crop.width \in Nat \ {0} /\ crop.x + crop.width <= Word
      /\ crop.y \in Nat /\ crop.height \in Nat \ {0} /\ crop.y + crop.height <= Word
  <2>1. /\ crop.width \in 1 .. image.width /\ crop.height \in 1 .. image.height
        /\ crop.x \in Nat /\ crop.x + crop.width <= image.width
        /\ crop.y \in Nat /\ crop.y + crop.height <= image.height
    BY CropFacts
  <2>2. QED
    BY <1>1, <2>1, WordAssumption
<1>3. /\ DeviceSample(crop.x, crop.width, x, c.width) = sx
      /\ DeviceSample(crop.y, crop.height, y, c.height) = sy
  BY <1>1, <1>2, DeviceSamplesAlike
<1>4. /\ SampledAt(sx, crop.x, crop.width, c.width, ClampedDistance(crop.width, x, c.width))
      /\ SampledAt(sy, crop.y, crop.height, c.height, ClampedDistance(crop.height, y, c.height))
  BY <1>1, <1>2, SampleFacts
<1> HIDE DEF sx, sy
<1>5. /\ sx.low \in Int /\ sx.high \in Int /\ sx.weight \in Int
      /\ sy.low \in Int /\ sy.high \in Int /\ sy.weight \in Int
  BY <1>1, <1>2, <1>4 DEF SampledAt
<1>6. 2 * c.width \in Nat \ {0} /\ 2 * c.height \in Nat \ {0}
  BY <1>1
<1>7. v \in 0 .. MaxValue
  BY <1>1, <1>5, <1>6, InterpolatedType
<1>8. CpuValue(x, y) = Brightened(v, c) /\ DeviceValue(x, y) = Brightened(v, c)
  BY <1>3 DEF CpuValue, DeviceValue, Resized, sx, sy
<1> HIDE DEF v
<1>9. Brightened(v, c) \in 0 .. MaxValue
  <2>1. v \in Int /\ c.brightness[1] \in Int /\ c.brightness[2] \in Nat \ {0}
    BY <1>1, <1>7, BlockAssumption DEF Configs
  <2>2. v * c.brightness[1] \in Int
    BY <2>1, MulTypes
  <2>3. QED
    BY <2>1, <2>2, RoundingType DEF Brightened
<1>10. QED
  BY <1>8, <1>9

(* The watermark's place on an axis of the output.                         *)
LEMMA MarkPlace ==
  ASSUME NEW length \in 1 .. Word - 1, NEW margin \in 0 .. Word - 1, NEW output \in 1 .. Word - 1,
         length + margin <= output
  PROVE  LET origin == Sub(Sub(output, margin), length)
         IN  /\ origin = output - margin - length /\ origin \in 0 .. output - 1
             /\ \A k \in 0 .. length - 1 :
                  (origin + k) % Word = origin + k /\ origin + k \in 0 .. output - 1
             /\ \A v \in 0 .. output - 1 :
                  /\ Inside(v, origin, length) <=> v - origin \in 0 .. length - 1
                  /\ Inside(v, origin, length) => Sub(v, origin) = v - origin
<1> DEFINE origin == Sub(Sub(output, margin), length)
<1>1. origin = output - margin - length
  BY AxisIsExact, WordAssumption
<1>2. origin \in 0 .. output - 1 /\ origin + length \in 0 .. output /\ output < Word
  BY <1>1, WordAssumption
<1> HIDE DEF origin
<1>3. \A k \in 0 .. length : (origin + k) % Word = origin + k
  BY <1>2, ModSmall, WordAssumption
<1>4. \A v \in 0 .. output - 1 : v >= origin => Sub(v, origin) = v - origin
  BY <1>2, ModSmall, WordAssumption DEF Sub
<1>5. length \in 0 .. length
  BY WordAssumption
<1>6. \A v \in 0 .. output - 1 : Inside(v, origin, length) <=> v - origin \in 0 .. length - 1
  BY <1>2, <1>3, <1>5, WordAssumption DEF Inside
<1>7. \A k \in 0 .. length - 1 :
        (origin + k) % Word = origin + k /\ origin + k \in 0 .. output - 1
  BY <1>1, <1>2, <1>3, WordAssumption
<1>8. \A v \in 0 .. output - 1 : Inside(v, origin, length) => Sub(v, origin) = v - origin
  BY <1>2, <1>4, <1>6, WordAssumption
<1>9. QED
  BY <1>1, <1>2, <1>6, <1>7, <1>8 DEF origin

(* The opacity of a pixel of the watermark is a channel value.             *)
LEMMA AlphaType ==
  ASSUME PixelInv, Prepared, NEW mx \in 0 .. mark.width - 1, NEW my \in 0 .. mark.height - 1
  PROVE  Alpha(mx, my) \in 0 .. MaxValue
<1> DEFINE w == mark.width
           h == mark.height
           row == my * w
           area == w * h
<1>1. w \in Nat \ {0} /\ h \in Nat \ {0} /\ area * Channels < Size /\ area \in Nat
  BY PreparedFacts, MulTypes DEF Decoded
<1>2. row + w <= area /\ row \in Nat
  <2>1. (my + 1) * w <= h * w
    BY <1>1, MulOrder
  <2>2. (my + 1) * w = row + w /\ h * w = area
    BY <1>1, MulDist, MulTypes
  <2>3. row \in Nat
    BY <1>1, MulTypes
  <2>4. QED
    BY <2>1, <2>2, <2>3
<1> HIDE DEF row, area
<1>3. row + mx \in 0 .. Size - 1
  BY <1>1, <1>2, WordAssumption DEF Channels
<1>4. Content(row + mx) \in 0 .. MaxValue
  BY <1>3, ContentAssumption
<1>5. MaxValue \in 0 .. MaxValue
  BY BlockAssumption
<1>6. QED
  BY <1>4, <1>5 DEF Alpha, row

(* The loop over the watermark blends the pixels that the threads inside   *)
(* it blend.                                                               *)
LEMMA OutputsAgree ==
  ASSUME PixelInv, Prepared
  PROVE  /\ CanLaunch(job.config) => CpuOutput = KernelOutput
         /\ \A mx \in 0 .. mark.width - 1, my \in 0 .. mark.height - 1 :
              LET x == job.config.width - job.config.margin - mark.width + mx
                  y == job.config.height - job.config.margin - mark.height + my
              IN  /\ x \in 0 .. job.config.width - 1 /\ y \in 0 .. job.config.height - 1
                  /\ CpuOutput[<<x, y>>] = Marked(CpuValue(x, y), mx, my)
<1> DEFINE c == job.config
           ox == Sub(Sub(c.width, c.margin), mark.width)
           oy == Sub(Sub(c.height, c.margin), mark.height)
           blended == {<<(ox + mx) % Word, (oy + my) % Word>> :
                         mx \in 0 .. mark.width - 1, my \in 0 .. mark.height - 1}
           inside(x, y) == Inside(x, ox, mark.width) /\ Inside(y, oy, mark.height)
           Value(x, y) == IF inside(x, y) THEN Marked(CpuValue(x, y), x - ox, y - oy)
                                          ELSE CpuValue(x, y)
<1>1. /\ mark.width \in 1 .. Word - 1 /\ mark.height \in 1 .. Word - 1
      /\ c.width \in 1 .. Word - 1 /\ c.height \in 1 .. Word - 1
      /\ c.margin \in 0 .. Word - 1
      /\ mark.width + c.margin <= c.width /\ mark.height + c.margin <= c.height
  BY PreparedFacts DEF Fits
<1>2. /\ ox = c.width - c.margin - mark.width /\ ox \in 0 .. c.width - 1
      /\ \A k \in 0 .. mark.width - 1 : (ox + k) % Word = ox + k /\ ox + k \in 0 .. c.width - 1
      /\ \A v \in 0 .. c.width - 1 :
           /\ Inside(v, ox, mark.width) <=> v - ox \in 0 .. mark.width - 1
           /\ Inside(v, ox, mark.width) => Sub(v, ox) = v - ox
  BY <1>1, MarkPlace
<1>3. /\ oy = c.height - c.margin - mark.height /\ oy \in 0 .. c.height - 1
      /\ \A k \in 0 .. mark.height - 1 : (oy + k) % Word = oy + k /\ oy + k \in 0 .. c.height - 1
      /\ \A v \in 0 .. c.height - 1 :
           /\ Inside(v, oy, mark.height) <=> v - oy \in 0 .. mark.height - 1
           /\ Inside(v, oy, mark.height) => Sub(v, oy) = v - oy
  BY <1>1, MarkPlace
<1>4. Origin(mark, c) = <<ox, oy>>
  BY DEF Origin
<1>5. CpuOutput = [p \in Output(c) |->
                     IF p \in blended
                       THEN Marked(CpuValue(p[1], p[2]), p[1] - ox, p[2] - oy)
                       ELSE CpuValue(p[1], p[2])]
  BY <1>4 DEF CpuOutput
<1>6. Output(c) = (0 .. c.width - 1) \X (0 .. c.height - 1)
  BY DEF Output
<1> HIDE DEF ox, oy
<1>7. ASSUME NEW x \in 0 .. c.width - 1, NEW y \in 0 .. c.height - 1
      PROVE  <<x, y>> \in blended <=> inside(x, y)
  <2>1. ASSUME <<x, y>> \in blended PROVE inside(x, y)
    <3>1. PICK mx \in 0 .. mark.width - 1, my \in 0 .. mark.height - 1 :
            <<x, y>> = <<(ox + mx) % Word, (oy + my) % Word>>
      BY <2>1
    <3>2. x = ox + mx /\ y = oy + my
      BY <1>2, <1>3, <3>1
    <3>3. QED
      BY <1>2, <1>3, <3>2
  <2>2. ASSUME inside(x, y) PROVE <<x, y>> \in blended
    <3> DEFINE mx == x - ox
               my == y - oy
    <3>1. mx \in 0 .. mark.width - 1 /\ my \in 0 .. mark.height - 1
      BY <1>2, <1>3, <2>2
    <3>2. ox + mx = x /\ oy + my = y
      BY <1>2, <1>3
    <3> HIDE DEF mx, my
    <3>3. <<x, y>> = <<(ox + mx) % Word, (oy + my) % Word>>
      BY <1>2, <1>3, <3>1, <3>2
    <3>4. QED
      BY <3>1, <3>3
  <2>3. QED
    BY <2>1, <2>2
<1> HIDE DEF blended, inside
<1>8. ASSUME NEW x \in 0 .. c.width - 1, NEW y \in 0 .. c.height - 1
      PROVE  CpuOutput[<<x, y>>] = Value(x, y)
  <2>1. <<x, y>> \in Output(c) /\ <<x, y>>[1] = x /\ <<x, y>>[2] = y
    BY <1>6
  <2>2. CpuOutput[<<x, y>>] = Value(x, y)
    BY <1>5, <1>7, <2>1
  <2>3. QED
    BY <2>2
<1>9. ASSUME CanLaunch(c)
      PROVE  CpuOutput = KernelOutput
  <2>1. DOMAIN KernelOutput = Output(c)
    BY <1>9, KernelCoversOutput
  <2> DEFINE D == {<<ThreadAt(t[1], t[2]), ThreadAt(u[1], u[2])>> :
                     t \in AxisThreads(job.config.width), u \in AxisThreads(job.config.height)}
  <2>2. KernelOutput = [p \in D |-> KernelValue(p[1], p[2])]
    BY DEF KernelOutput
  <2> HIDE DEF D
  <2>3. KernelOutput = [p \in Output(c) |-> KernelValue(p[1], p[2])]
    BY <2>1, <2>2
  <2>4. ASSUME NEW x \in 0 .. c.width - 1, NEW y \in 0 .. c.height - 1
        PROVE  KernelValue(x, y) = Value(x, y)
    <3>1. DeviceValue(x, y) = CpuValue(x, y)
      BY SameValues
    <3>2. KernelValue(x, y) = IF inside(x, y)
                                THEN Marked(DeviceValue(x, y), Sub(x, ox), Sub(y, oy))
                                ELSE DeviceValue(x, y)
      BY <1>4 DEF KernelValue, inside
    <3>3. inside(x, y) => Sub(x, ox) = x - ox /\ Sub(y, oy) = y - oy
      BY <1>2, <1>3 DEF inside
    <3>4. QED
      BY <3>1, <3>2, <3>3
  <2>5. ASSUME NEW p \in Output(c)
        PROVE  CpuOutput[p] = KernelOutput[p]
    <3>1. p[1] \in 0 .. c.width - 1 /\ p[2] \in 0 .. c.height - 1 /\ p = <<p[1], p[2]>>
      BY <1>6
    <3>2. p \in blended <=> inside(p[1], p[2])
      BY <1>7, <3>1
    <3>3. CpuOutput[p] = Value(p[1], p[2])
      BY <1>5, <3>2
    <3>4. QED
      BY <2>3, <2>4, <3>1, <3>3
  <2>6. QED
    BY <1>5, <2>3, <2>5
<1>10. ASSUME NEW mx \in 0 .. mark.width - 1, NEW my \in 0 .. mark.height - 1
       PROVE  LET x == c.width - c.margin - mark.width + mx
                  y == c.height - c.margin - mark.height + my
              IN  /\ x \in 0 .. c.width - 1 /\ y \in 0 .. c.height - 1
                  /\ CpuOutput[<<x, y>>] = Marked(CpuValue(x, y), mx, my)
  <2> DEFINE x == c.width - c.margin - mark.width + mx
             y == c.height - c.margin - mark.height + my
  <2>1. x = ox + mx /\ y = oy + my
    BY <1>2, <1>3
  <2> HIDE DEF x, y
  <2>2. x \in 0 .. c.width - 1 /\ y \in 0 .. c.height - 1
    BY <1>2, <1>3, <2>1
  <2>3. x - ox = mx /\ y - oy = my
    BY <1>2, <1>3, <2>1
  <2>4. inside(x, y)
    BY <1>2, <1>3, <2>2, <2>3 DEF inside
  <2>5. CpuOutput[<<x, y>>] = Marked(CpuValue(x, y), mx, my)
    BY <1>8, <2>2, <2>3, <2>4
  <2>6. QED
    BY <2>2, <2>5 DEF x, y
<1>11. QED
  BY <1>9, <1>10

(* The kernel computes what the loops compute, for every image, output,    *)
(* watermark and block size, and blending leaves each pixel between what   *)
(* it was and the watermark.                                               *)
THEOREM BackEndsComputeTheSame == Spec => []BackEndsAgree
<1>1. ASSUME PixelInv, cpu # NoPixels, gpu # NoPixels
      PROVE  cpu = gpu
  BY <1>1, OutputsAgree DEF PixelInv
<1>2. ASSUME PixelInv, cpu # NoPixels,
             NEW mx \in 0 .. mark.width - 1, NEW my \in 0 .. mark.height - 1
      PROVE  LET x == job.config.width - job.config.margin - mark.width + mx
                 y == job.config.height - job.config.margin - mark.height + my
                 v == CpuValue(x, y)
                 colour == Content(PixelIndex(mark, mx, my))
             IN  cpu[<<x, y>>] \in LesserOf(v, colour) .. GreaterOf(v, colour)
  <2> DEFINE x == job.config.width - job.config.margin - mark.width + mx
             y == job.config.height - job.config.margin - mark.height + my
             v == CpuValue(x, y)
             colour == Content(PixelIndex(mark, mx, my))
  <2>1. Prepared /\ cpu = CpuOutput
    BY <1>2 DEF PixelInv
  <2>2. /\ x \in 0 .. job.config.width - 1 /\ y \in 0 .. job.config.height - 1
        /\ cpu[<<x, y>>] = Marked(v, mx, my)
    BY <1>2, <2>1, OutputsAgree
  <2> HIDE DEF x, y
  <2>3. v \in 0 .. MaxValue
    BY <1>2, <2>1, <2>2, SameValues
  <2> HIDE DEF v
  <2>4. mark \in Decoded /\ job.config \in Configs /\ job.config.opacity[1] <= job.config.opacity[2]
    BY <1>2, <2>1, PreparedFacts, JobTypes DEF PixelInv
  <2>5. colour \in 0 .. MaxValue
    <3>1. my * mark.stride + mx * Channels \in Int
      BY <2>4, MulTypes DEF Decoded, Channels
    <3>2. PixelIndex(mark, mx, my) \in 0 .. Size - 1
      BY <3>1, DivMod, WordAssumption DEF PixelIndex
    <3>3. QED
      BY <3>2, ContentAssumption
  <2>6. Alpha(mx, my) \in 0 .. MaxValue
    BY <1>2, <2>1, AlphaType
  <2>7. Marked(v, mx, my) = Blended(v, colour, Alpha(mx, my), job.config)
    BY DEF Marked
  <2> HIDE DEF colour
  <2>8. cpu[<<x, y>>] \in LesserOf(v, colour) .. GreaterOf(v, colour)
    BY <2>2, <2>3, <2>4, <2>5, <2>6, <2>7, BlendBetween
  <2>9. QED
    BY <2>8 DEF x, y, v, colour
<1>3. PixelInv => BackEndsAgree
  BY <1>1, <1>2 DEF BackEndsAgree
<1>4. QED
  BY PixelInvHolds, <1>3, PTL
==============================================================================
