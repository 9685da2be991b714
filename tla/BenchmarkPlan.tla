---------------------------- MODULE BenchmarkPlan ----------------------------
(***************************************************************************)
(* The experiment matrix of one run: how build_benchmark_plan expands an   *)
(* accepted command line into the ordered list of experiments that the     *)
(* benchmark runner executes one after the other.                          *)
(***************************************************************************)
EXTENDS Naturals, Sequences, SequencesExt

Sequential == "sequential"
OpenMP == "openmp"
Cuda == "cuda"
Backends == {Sequential, OpenMP, Cuda}

(* ExperimentSpec: `threads` and `batch` are std::optional in the code and *)
(* 0 here when they are empty (parse_cli rejects zero for both lists).     *)
Experiment ==
  [backend : Backends, count : Nat \ {0}, threads : Nat, batch : Nat]

ExperimentSpec(b, n, t, c) == [backend |-> b, count |-> n, threads |-> t, batch |-> c]

UniquePreservingOrder(values) ==
  LET result[n \in 0 .. Len(values)] ==
        IF n = 0 THEN <<>>
        ELSE IF Contains(result[n - 1], values[n]) THEN result[n - 1]
        ELSE Append(result[n - 1], values[n])
  IN  result[Len(values)]

(* A set of back ends with the baseline it needs, in the stable order.     *)
WithBaseline(chosen) ==
  chosen \cup IF chosen \cap {OpenMP, Cuda} # {} THEN {Sequential} ELSE {}
InOrder(chosen) ==
  LET only(b) == IF b \in chosen THEN <<b>> ELSE <<>>
  IN  only(Sequential) \o only(OpenMP) \o only(Cuda)

NormalizeBackends(requested) ==
  InOrder(WithBaseline({requested[i] : i \in DOMAIN requested}))

(* The configurations of one backend at one image count.                   *)
Configurations(b, n, request) ==
  CASE b = Sequential -> <<ExperimentSpec(b, n, 0, 0)>>
    [] b = OpenMP -> LET ts == UniquePreservingOrder(request.threads)
                     IN  [i \in DOMAIN ts |-> ExperimentSpec(b, n, ts[i], 0)]
    [] b = Cuda -> LET cs == UniquePreservingOrder(request.batches)
                   IN  [i \in DOMAIN cs |-> ExperimentSpec(b, n, 0, cs[i])]

BuildPlan(request) ==
  LET backends == NormalizeBackends(request.backends)
      counts == UniquePreservingOrder(request.counts)
      ofBackend(b) ==
        FlattenSeq([j \in DOMAIN counts |-> Configurations(b, counts[j], request)])
  IN  FlattenSeq([i \in DOMAIN backends |-> ofBackend(backends[i])])
==============================================================================
