-------------------------------- MODULE Pixels --------------------------------
(***************************************************************************)
(* One image and one watermark from the decoder to an output image: the    *)
(* checks on sizes, the center crop, bilinear resizing, brightness and the *)
(* watermark, by the loops of the CPU back ends and by the threads of the  *)
(* CUDA kernel.  Words wrap as in the code; the arithmetic on double is    *)
(* exact here, a fraction is a numerator over a known denominator.  The    *)
(* three channels of a pixel are treated alike and only one is computed.   *)
(***************************************************************************)
EXTENDS Integers, FiniteSets

CONSTANTS
  Jobs,        \* the inputs: two decoded matrices, a config, images of a chunk
  Word,        \* values of uint32_t; those of int are half of them
  Size,        \* values of size_t
  BlockSize,   \* block_size of the kernel launch
  MaxGridY,    \* blocks of a grid along y: 65535
  MaxValue,    \* 255, the largest value of a channel
  Content(_)   \* value of a byte of an image, colour or alpha, by its index

ASSUME WordAssumption ==
  Word \in Nat \ {0} /\ Size \in Nat \ {0} /\ Word <= Size /\ Size <= Word * Word
ASSUME BlockAssumption ==
  /\ BlockSize \in Nat \ {0} /\ BlockSize <= Word /\ MaxValue \in Nat \ {0}
  /\ MaxGridY \in Nat \ {0}
ASSUME ContentAssumption == \A i \in 0 .. Size - 1 : Content(i) \in 0 .. MaxValue

(* imdecode's sides are int; brightness and opacity are the constants of   *)
(* ProcessingConfig, which is_valid_processing_config accepts.             *)
Mats ==
  [cols : 0 .. Word \div 2 - 1, rows : 0 .. Word \div 2 - 1, channels : Nat, depth : Nat]
Configs ==
  [width : 0 .. Word - 1, height : 0 .. Word - 1, margin : 0 .. Word - 1,
   brightness : (Nat \ {0}) \X (Nat \ {0}), opacity : Nat \X (Nat \ {0})]
ASSUME JobsAssumption ==
  /\ Jobs \subseteq [image : Mats, mark : Mats, config : Configs, count : Nat \ {0}]
  /\ \A j \in Jobs : j.config.opacity[1] <= j.config.opacity[2]

VARIABLES
  job,      \* the input
  image,    \* the decoded Image, or NoImage
  mark,     \* the decoded Watermark, or NoImage
  verdict,  \* "decode", then what prepare_processing_batch says
  crop,     \* the CropRegion of the image
  cpu,      \* the output of the loops: pixel -> value
  gpu       \* the output of the kernel, or "launch failed"

vars == <<job, image, mark, verdict, crop, cpu, gpu>>

Channels == 3
NoImage == [width |-> 0, height |-> 0, stride |-> 0, bytes |-> 0]
NoPixels == <<>>

LesserOf(a, b) == IF a < b THEN a ELSE b
GreaterOf(a, b) == IF a > b THEN a ELSE b
Clamp(v, low, high) == IF v < low THEN low ELSE IF high < v THEN high ELSE v
Sub(a, b) == (a - b) % Word

-----------------------------------------------------------------------------
(* Sizes.                                                                  *)

(* Faulty: the height is not checked.                                      *)
UncheckedFit(width, height) == width <= (Size - 1) \div Channels

(* width rows of three bytes a pixel, and height of them, are addressable. *)
SizesFit(width, height) ==
  /\ width <= (Size - 1) \div Channels
  /\ height <= (Size - 1) \div (width * Channels)

Packed(width, height) ==
  [width |-> width, height |-> height, stride |-> width * Channels,
   bytes |-> (width * Channels * height) % Size]

(* make_bgr_image, for what imdecode returned.                             *)
BgrImage(mat) ==
  IF mat.depth = 8 /\ mat.channels = Channels /\ mat.cols > 0 /\ mat.rows > 0
     /\ SizesFit(mat.cols, mat.rows)
    THEN Packed(mat.cols, mat.rows) ELSE NoImage

(* decode_watermark: the mat keeps its own number of channels.             *)
WatermarkImage(mat) ==
  IF mat.depth = 8 /\ mat.channels \in {1, 3, 4} /\ mat.cols > 0 /\ mat.rows > 0
     /\ SizesFit(mat.cols, mat.rows)
    THEN Packed(mat.cols, mat.rows) ELSE NoImage

ValidImage(i) ==
  /\ i.width # 0 /\ i.height # 0 /\ SizesFit(i.width, i.height)
  /\ i.stride = i.width * Channels /\ i.bytes = (i.stride * i.height) % Size

ValidConfig(c) ==
  c.width # 0 /\ c.height # 0 /\ SizesFit(c.width, c.height)

(* The watermark with its margin, on one axis.                             *)
FitsAxis(length, margin, output) == length <= output /\ margin <= Sub(output, length)

WatermarkFits(m, c) ==
  FitsAxis(m.width, c.margin, c.width) /\ FitsAxis(m.height, c.margin, c.height)

-----------------------------------------------------------------------------
(* Center crop and sampling.                                               *)

(* Faulty: rounded up.                                                     *)
RoundedUp(side, factor, divisor) == GreaterOf(1, (side * factor + divisor - 1) \div divisor)

(* The other side times the output's ratio, in uint64_t and at least 1.    *)
CropLength(side, factor, divisor) == GreaterOf(1, (side * factor) \div divisor)

(* compute_center_crop.                                                    *)
CenterCrop(w, h, ow, oh) ==
  IF w * oh > h * ow
    THEN LET cw == CropLength(h, ow, oh)
         IN  [x |-> Sub(w, cw) \div 2, y |-> 0, width |-> cw, height |-> h]
    ELSE IF w * oh < h * ow
    THEN LET ch == CropLength(w, oh, ow)
         IN  [x |-> 0, y |-> Sub(h, ch) \div 2, width |-> w, height |-> ch]
    ELSE [x |-> 0, y |-> 0, width |-> w, height |-> h]

(* Faulty: the pixels' corners are aligned instead of their centers.       *)
CornerDistance(length, o, outLength) == 2 * o * length

(* (o + 0.5) * length / outLength - 0.5, in units of 1 / (2 * outLength):  *)
(* how far the sample is from the center of the crop's first pixel.        *)
Distance(length, o, outLength) == (2 * o + 1) * length - outLength

(* The two source pixels of sample_bilinear on one axis and the weight of  *)
(* the second in units of 1 / (2 * outLength).                             *)
AxisSample(start, length, o, outLength) ==
  LET unit == 2 * outLength
      at == Clamp(Distance(length, o, outLength), 0, (length - 1) * unit)
      low == start + at \div unit
  IN  [low |-> low, high |-> LesserOf(low + 1, start + length - 1), weight |-> at % unit]

(* The same in sample_bilinear_device.                                     *)
DeviceSample(start, length, o, outLength) ==
  LET right == (start + length - 1) % Word
      sample == AxisSample(start, length, o, outLength)
  IN  [sample EXCEPT !.high = IF sample.low < right THEN sample.low + 1 ELSE right]

PixelIndex(i, x, y) == (y * i.stride + x * Channels) % Size

RoundAndClamp(n, d) ==
  IF n <= 0 THEN 0 ELSE IF n >= MaxValue * d THEN MaxValue ELSE (2 * n + d) \div (2 * d)

(* Bilinear interpolation between the four source pixels.                  *)
Interpolated(i, sx, sy, dx, dy) ==
  LET P(x, y) == Content(PixelIndex(i, x, y))
      Row(y) == P(sx.low, y) * dx + (P(sx.high, y) - P(sx.low, y)) * sx.weight
      top == Row(sy.low)
      bottom == Row(sy.high)
  IN  RoundAndClamp(top * dy + (bottom - top) * sy.weight, dx * dy)

Brightened(v, c) == RoundAndClamp(v * c.brightness[1], c.brightness[2])

(* blend_watermark_channel with the opacity as a fraction.                 *)
Blended(base, colour, alpha, c) ==
  LET one == MaxValue * c.opacity[2]
      part == alpha * c.opacity[1]
  IN  RoundAndClamp(base * (one - part) + colour * part, one)

-----------------------------------------------------------------------------
(* The output image.                                                       *)

Output(c) == (0 .. c.width - 1) \X (0 .. c.height - 1)
Origin(m, c) == <<Sub(Sub(c.width, c.margin), m.width), Sub(Sub(c.height, c.margin), m.height)>>

(* A watermark without an alpha channel is opaque.                         *)
Alpha(mx, my) == IF job.mark.channels = 4 THEN Content(my * mark.width + mx) ELSE MaxValue
Marked(v, mx, my) == Blended(v, Content(PixelIndex(mark, mx, my)), Alpha(mx, my), job.config)

Resized(sx, sy) ==
  LET c == job.config
  IN  Brightened(Interpolated(image, sx, sy, 2 * c.width, 2 * c.height), c)

CpuValue(x, y) ==
  Resized(AxisSample(crop.x, crop.width, x, job.config.width),
          AxisSample(crop.y, crop.height, y, job.config.height))

DeviceValue(x, y) ==
  Resized(DeviceSample(crop.x, crop.width, x, job.config.width),
          DeviceSample(crop.y, crop.height, y, job.config.height))

(* process_image: a loop over the output, then one over the watermark.     *)
CpuOutput ==
  LET c == job.config
      origin == Origin(mark, c)
      blended == {<<(origin[1] + mx) % Word, (origin[2] + my) % Word>> :
                    mx \in 0 .. mark.width - 1, my \in 0 .. mark.height - 1}
  IN  [p \in Output(c) |->
         LET v == CpuValue(p[1], p[2])
         IN  IF p \in blended THEN Marked(v, p[1] - origin[1], p[2] - origin[2]) ELSE v]

(* Faulty: the blocks at the right and the bottom are missing.             *)
WholeBlocks(n) == n \div BlockSize

(* Blocks of a grid over n pixels.                                         *)
Blocks(n) == ((n + BlockSize - 1) % Word) \div BlockSize

(* The coordinates that the threads along one axis find.                   *)
ThreadAt(block, thread) == (block * BlockSize + thread) % Word
AxisThreads(n) ==
  {t \in (0 .. Blocks(n) - 1) \X (0 .. BlockSize - 1) : ThreadAt(t[1], t[2]) < n}

(* Faulty: one more column and row.                                        *)
InsideInclusive(v, origin, length) == v >= origin /\ v <= (origin + length) % Word

Inside(v, origin, length) == v >= origin /\ v < (origin + length) % Word

(* process_batch_kernel: the value a thread writes for an image.           *)
KernelValue(x, y) ==
  LET c == job.config
      origin == Origin(mark, c)
      v == DeviceValue(x, y)
  IN  IF Inside(x, origin[1], mark.width) /\ Inside(y, origin[2], mark.height)
        THEN Marked(v, Sub(x, origin[1]), Sub(y, origin[2])) ELSE v

(* Where it writes the first channel, in a buffer of whole images.         *)
KernelIndex(n, x, y) ==
  LET stride == job.config.width * Channels
  IN  (n * (stride * job.config.height) + y * stride + x * Channels) % (Word * Word)

-----------------------------------------------------------------------------
Init ==
  /\ job \in Jobs
  /\ image = NoImage /\ mark = NoImage /\ verdict = "decode"
  /\ crop = [x |-> 0, y |-> 0, width |-> 0, height |-> 0]
  /\ cpu = NoPixels /\ gpu = NoPixels

Decode ==
  /\ verdict = "decode"
  /\ image' = BgrImage(job.image) /\ mark' = WatermarkImage(job.mark)
  /\ verdict' = IF NoImage \in {image', mark'} THEN "undecodable" ELSE "prepare"
  /\ UNCHANGED <<job, crop, cpu, gpu>>

(* prepare_processing_batch, and prepare_batch of the OpenMP back end.     *)
Prepare ==
  /\ verdict = "prepare"
  /\ verdict' = IF ~ValidConfig(job.config) THEN "invalid config"
                ELSE IF ~ValidImage(mark) THEN "invalid watermark"
                ELSE IF ~WatermarkFits(mark, job.config) THEN "watermark does not fit"
                ELSE IF ~ValidImage(image) THEN "invalid image"
                ELSE "prepared"
  /\ crop' = IF verdict' = "prepared"
               THEN CenterCrop(image.width, image.height, job.config.width, job.config.height)
               ELSE crop
  /\ UNCHANGED <<job, image, mark, cpu, gpu>>

ProcessOnCpu ==
  /\ verdict = "prepared" /\ cpu = NoPixels
  /\ cpu' = CpuOutput
  /\ UNCHANGED <<job, image, mark, verdict, crop, gpu>>

(* checked_byte_count accepts the chunk, and its grid has blocks, but not  *)
(* more rows of them than a device takes: else its configuration is        *)
(* invalid.                                                                *)
CanLaunch(c) ==
  /\ job.count <= (Size - 1) \div (c.width * c.height * Channels)
  /\ 0 \notin {Blocks(c.width), Blocks(c.height)} /\ Blocks(c.height) <= MaxGridY

LaunchFails ==
  /\ verdict = "prepared" /\ gpu = NoPixels /\ ~CanLaunch(job.config)
  /\ verdict' = "launch failed"
  /\ UNCHANGED <<job, image, mark, crop, cpu, gpu>>

Launch ==
  /\ verdict = "prepared" /\ gpu = NoPixels /\ CanLaunch(job.config)
  /\ gpu' = [p \in {<<ThreadAt(t[1], t[2]), ThreadAt(u[1], u[2])>> :
                      t \in AxisThreads(job.config.width), u \in AxisThreads(job.config.height)}
               |-> KernelValue(p[1], p[2])]
  /\ UNCHANGED <<job, image, mark, verdict, crop, cpu>>

Next == Decode \/ Prepare \/ ProcessOnCpu \/ LaunchFails \/ Launch
Spec == Init /\ [][Next]_vars

-----------------------------------------------------------------------------
(* Properties.                                                             *)

Prepared == verdict \in {"prepared", "launch failed"}
Largest(S) == CHOOSE n \in S : \A m \in S : m <= n

(* No check is fooled by a product or a difference that wraps: buffers are *)
(* as long as their images, and a watermark is accepted exactly when it    *)
(* and its margin fit the output.                                          *)
SizesExact ==
  LET c == job.config
      fits == /\ mark.width + c.margin <= c.width
              /\ mark.height + c.margin <= c.height
  IN  /\ \A i \in {image, mark} : i.bytes = i.width * i.height * Channels
      /\ verdict = "watermark does not fit" => ~fits
      /\ Prepared => fits /\ c.width * c.height * Channels < Size

(* The crop has the output's proportions and as much of the image as they  *)
(* allow: each of its sides is that side of the largest part of the image  *)
(* with exactly those proportions, rounded down to whole pixels but at     *)
(* least one.  And it is in the middle.                                    *)
CropIsLargest ==
  LET w == image.width
      h == image.height
      c == job.config
      within(side, Fits(_)) == Largest({1} \cup {n \in 1 .. side : Fits(n)})
      spare == {<<w - crop.width, crop.x>>, <<h - crop.height, crop.y>>}
  IN  Prepared =>
        /\ crop.width = within(w, LAMBDA n : n * c.height <= h * c.width)
        /\ crop.height = within(h, LAMBDA n : n * c.width <= w * c.height)
        /\ \A s \in spare : s[1] - 2 * s[2] \in {0, 1}

(* On both axes and both devices an output pixel is sampled inside the     *)
(* crop, and the sample of its mirror image is its sample's mirror image.  *)
SampledEvenly(start, length, n) ==
  \A o \in 0 .. n - 1 :
    LET s == AxisSample(start, length, o, n)
        m == AxisSample(start, length, n - 1 - o, n)
    IN  /\ \A p \in {s.low, s.high, DeviceSample(start, length, o, n).high} :
               p \in start .. start + length - 1
        /\ (s.low + m.low) * 2 * n + s.weight + m.weight = (2 * start + length - 1) * 2 * n

(* No pixel is read outside the crop or outside the image's buffer, and    *)
(* resizing does not shift the picture.                                    *)
SamplesInsideCrop ==
  Prepared =>
    /\ SampledEvenly(crop.x, crop.width, job.config.width)
    /\ SampledEvenly(crop.y, crop.height, job.config.height)
    /\ (crop.y + crop.height - 1) * image.stride + (crop.x + crop.width) * Channels <= image.bytes

(* The threads of a launch write every pixel of every image of the chunk   *)
(* once, inside the buffer that was reserved for it.                       *)
KernelWritesOnce ==
  gpu # NoPixels =>
    LET c == job.config
        pixels == job.count * c.width * c.height
        written == {KernelIndex(n, p[1], p[2]) : n \in 0 .. job.count - 1, p \in DOMAIN gpu}
    IN  /\ Cardinality(AxisThreads(c.width)) * Cardinality(AxisThreads(c.height))
             = c.width * c.height
        /\ Cardinality(written) = pixels
        /\ \A i \in written : i + Channels <= pixels * Channels

(* The kernel's output is the loops' output, and blending leaves a pixel   *)
(* between what it was and the watermark.                                  *)
BackEndsAgree ==
  /\ cpu # NoPixels /\ gpu # NoPixels => cpu = gpu
  /\ cpu # NoPixels =>
       \A mx \in 0 .. mark.width - 1, my \in 0 .. mark.height - 1 :
         LET x == job.config.width - job.config.margin - mark.width + mx
             y == job.config.height - job.config.margin - mark.height + my
             v == CpuValue(x, y)
             colour == Content(PixelIndex(mark, mx, my))
         IN  cpu[<<x, y>>] \in LesserOf(v, colour) .. GreaterOf(v, colour)
==============================================================================
