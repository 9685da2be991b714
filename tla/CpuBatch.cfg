\* Enough images for a full interval and a remainder, and more threads than
\* the small batches have images.  Of the watermark's rows 3 and 4, two threads
\* and three share out row 3 to another thread than the one that resized it.
SPECIFICATION FairSpec
CONSTANTS
  MaxImages = 5
  MaxThreads = 3
  OutputRows = 4
  Margin = 0
  MarkHeight = 2
  ProgressInterval = 3
INVARIANTS
  TypeOK
  PixelsAsSequential
  SamplesAccountForImages
PROPERTIES
  ImplementsBatch
  EveryCallReturns
