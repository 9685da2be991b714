---------------------------- MODULE MCCommandLine ----------------------------
(* Forms and tokens for model checking CommandLine.                        *)
EXTENDS CommandLine

(* The dashboard's and the user's words are strings.                       *)
AllTexts == STRING

SmallNumbers ==
  [i \in {"0", "1", "2", "5", "10"} |->
     CASE i = "0" -> 0 [] i = "1" -> 1 [] i = "2" -> 2 [] i = "5" -> 5 [] i = "10" -> 10]

(* The selections of back ends, good and bad lists, a cold run.            *)
SmallForms ==
  {[backends |-> b, count |-> "1", cold |-> c, csv |-> f, openmp |-> t, cuda |-> k] :
     b \in {{}, {Sequential}, {OpenMP}, {Cuda}, {OpenMP, Cuda}}, c \in BOOLEAN,
     f \in {"results.csv", "results.txt"},
     t \in {<<"2", "1", "2">>, <<"10">>}, k \in {<<"1">>, <<"x", "1">>}}

(* Nothing, one token, or an option with a value.                          *)
SmallSpare ==
  {<<>>} \cup
  {<<t>> : t \in {Help, Option("--verbose"), Option("--append"), Option("--cold-start"),
                  Blank, Value(<<"0">>), Value(<<"1">>), Value(<<"5">>), Value(<<"10">>),
                  Value(<<"2", "x">>), Value(<<"2", "5">>), Value(<<Cuda, Sequential>>),
                  Value(<<"results.csv">>), Value(<<"results.txt">>)}} \cup
  {<<Option("--threads"), Value(<<"5">>)>>, <<Option("--repetitions"), Value(<<"5">>)>>}
==============================================================================
