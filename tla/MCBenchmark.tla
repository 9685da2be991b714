----------------------------- MODULE MCBenchmark -----------------------------
(* Plans that small command lines expand to, for model checking Controller. *)
EXTENDS Controller

Request(backends, counts, threads, batches) ==
  [backends |-> backends, counts |-> counts, threads |-> threads, batches |-> batches]

(* OpenMP and CUDA with image counts 1 and 2, one of them given twice, all *)
(* three back ends with one count, and a Sequential run alone.             *)
ColdStartPlans ==
  {BuildPlan(Request(<<OpenMP>>, <<2, 1, 2>>, <<2>>, <<>>)),
   BuildPlan(Request(<<Cuda>>, <<1, 2>>, <<>>, <<2>>)),
   BuildPlan(Request(<<Cuda, OpenMP>>, <<1>>, <<2>>, <<2>>)),
   BuildPlan(Request(<<Sequential>>, <<1>>, <<>>, <<>>))}

(* One image count; CUDA may fall back to half its batch size.             *)
RoundsPlans ==
  {BuildPlan(Request(<<OpenMP, Cuda>>, <<1>>, <<2>>, <<2>>)),
   BuildPlan(Request(<<Cuda>>, <<1>>, <<>>, <<2, 1>>))}

(* The smallest matrix with a parallel back end.                           *)
OutputPlans == {BuildPlan(Request(<<OpenMP>>, <<1>>, <<2>>, <<>>))}
==============================================================================
