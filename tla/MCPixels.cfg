\* Words of four bits; images of at most 21 pixels are addressable.
SPECIFICATION Spec
CONSTANTS
  Jobs <- SmallJobs
  Word = 16
  Size = 64
  BlockSize = 2
  MaxGridY = 2
  MaxValue = 255
  Content <- Uneven
INVARIANTS
  SizesExact
  CropIsLargest
  SamplesInsideCrop
  KernelWritesOnce
  BackEndsAgree
CHECK_DEADLOCK FALSE
