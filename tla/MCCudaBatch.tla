----------------------------- MODULE MCCudaBatch -----------------------------
(* Batches of small images for model checking CudaBatch.                   *)
EXTENDS CudaBatch, SequencesExt

Batch(sizes, n) ==
  [images |-> Len(sizes), batch |-> n,
   bytes |-> [i \in 0 .. Len(sizes) |-> FoldLeft(LAMBDA a, b : a + b, 0, SubSeq(sizes, 1, i))]]

(* Batch sizes 0 to 5 over one image larger than the others, at different  *)
(* places; 5 exceeds the grid, 3 and 2 leave a smaller last chunk.         *)
SmallRequests == {Batch(<<1, 3, 1, 1, 1>>, n) : n \in {0, 2, 5}}
                 \cup {Batch(<<1, 1, 3>>, n) : n \in {1, 3}}
==============================================================================
