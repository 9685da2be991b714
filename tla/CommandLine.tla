----------------------------- MODULE CommandLine -----------------------------
(***************************************************************************)
(* From what somebody fills in to an experiment matrix: the dashboard's    *)
(* form becomes a command line, a user at a terminal changes it, main      *)
(* converts the arguments, and parse_cli accepts them or not.  A value is  *)
(* the sequence of its items between commas, blanks around them removed;   *)
(* Number says which items are numbers.                                    *)
(***************************************************************************)
EXTENDS BenchmarkPlan, FiniteSets

CONSTANTS
  Texts,     \* the names and items that occur
  Number,    \* the numbers that items are, none too large for Nat
  MaxUint,   \* the largest std::uint32_t
  Forms,     \* what the dashboard's form may hold
  Spare      \* tokens a user at a terminal may put in

VARIABLES
  form,       \* the fields of the sidebar
  edited,     \* whether somebody changed the dashboard's command line
  arguments,  \* what main passes to run_cli
  index,      \* the loop of parse_cli
  values,     \* OptionMap values
  flags,      \* append and cold_start
  pc,
  plan,       \* what the pipeline is given
  exit        \* ExitCode of a command line that is not accepted

vars == <<form, edited, arguments, index, values, flags, pc, plan, exit>>

Option(name) == [option |-> name, items |-> <<>>]
Value(items) == [option |-> "", items |-> items]
Blank == Value(<<"">>)
Missing == Value(<<>>)

RequiredOptions ==
  {"--input", "--output", "--watermark", "--backends", "--image-counts",
   "--warmups", "--repetitions", "--csv"}
ValueOptions == RequiredOptions \cup {"--threads", "--cuda-batches"}
Flags == {"--append", "--cold-start"}
Benchmark == Value(<<"benchmark">>)
Help == Option("--help")

(* An option has a name and a value has items, one at least.               *)
Tokens == {t \in [option : Texts, items : Seq(Texts)] : t.option = "" <=> t.items # <<>>}

(* The count is a bounded number field, the lists are split at commas; a   *)
(* numeral is entered the way str writes the number.                       *)
Form ==
  [backends : SUBSET Backends, count : DOMAIN Number, cold : BOOLEAN, csv : Texts,
   openmp : Seq(Texts) \ {<<>>}, cuda : Seq(Texts) \ {<<>>}]

ASSUME TextsAssumption ==
  Backends \cup ValueOptions \cup Flags \cup DOMAIN Number \cup
    {"", "benchmark", "images", "output", "mark.png", "results.csv"} \subseteq Texts
ASSUME NumberAssumption ==
  /\ Number \in [DOMAIN Number -> Nat]
  /\ {"0", "1", "2", "5"} \subseteq DOMAIN Number /\ "" \notin DOMAIN Number
  /\ Number["0"] = 0 /\ Number["1"] = 1 /\ Number["2"] = 2 /\ Number["5"] = 5
  /\ MaxUint \in Nat /\ MaxUint >= 5
ASSUME FormsAssumption ==
  Forms \subseteq {f \in Form : Number[f.count] \in 1 .. MaxUint}
ASSUME SpareAssumption == Spare \subseteq Seq(Tokens)

-----------------------------------------------------------------------------
(* The dashboard.                                                          *)

(* parse_positive_integer_list, and the form's own minimum for the count.  *)
Entered(items) ==
  \A i \in DOMAIN items :
    items[i] \in DOMAIN Number /\ Number[items[i]] \in 1 .. MaxUint
Numbers(items) == [i \in DOMAIN items |-> Number[items[i]]]

(* The lists are shown, and read, for the back ends that are selected.     *)
Shown(b, items) == IF b \in form.backends THEN items ELSE <<>>

(* validate_request.                                                       *)
Validated ==
  /\ form.backends # {}
  /\ \A b \in {OpenMP, Cuda} \cap form.backends : Entered(form[b])
  /\ form.csv = "results.csv"

Schedule == IF form.cold THEN <<"0", "1">> ELSE <<"2", "5">>
Selected == WithBaseline(form.backends)

(* command_args: the paths are absolute, none begins with a dash.          *)
Pair(option, items) == IF items = <<>> THEN <<>> ELSE <<Option(option), Value(items)>>
CommandArgs ==
  LET list(option, b) ==
        Pair(option, UniquePreservingOrder(Shown(b, form[b])))
  IN  <<Benchmark>>
      \o Pair("--input", <<"images">>) \o Pair("--output", <<"output">>)
      \o Pair("--watermark", <<"mark.png">>) \o Pair("--backends", InOrder(Selected))
      \o Pair("--image-counts", <<form.count>>)
      \o Pair("--warmups", <<Schedule[1]>>) \o Pair("--repetitions", <<Schedule[2]>>)
      \o Pair("--csv", <<form.csv>>)
      \o (IF form.cold THEN <<Option("--cold-start")>> ELSE <<>>)
      \o list("--threads", OpenMP) \o list("--cuda-batches", Cuda)
      \o <<Option("--append")>>

Init ==
  /\ form \in Forms
  /\ edited = FALSE /\ arguments = <<>> /\ index = 1
  /\ values = [o \in ValueOptions |-> Missing] /\ flags = {}
  /\ pc = "form" /\ plan = <<>> /\ exit = "none"

Submit ==
  /\ pc = "form"
  /\ IF Validated THEN arguments' = CommandArgs /\ pc' = "convert"
                  ELSE pc' = "refused" /\ UNCHANGED arguments
  /\ UNCHANGED <<form, edited, index, values, flags, plan, exit>>

-----------------------------------------------------------------------------
(* A terminal, and main.                                                   *)

(* The user leaves out up to n tokens from some place on and types others. *)
Edit ==
  /\ pc = "convert" /\ ~edited /\ edited' = TRUE
  /\ \E at \in 1 .. Len(arguments) + 1, n \in 0 .. 2, new \in Spare :
       /\ at + n <= Len(arguments) + 1
       /\ arguments' = SubSeq(arguments, 1, at - 1) \o new
                         \o SubSeq(arguments, at + n, Len(arguments))
  /\ UNCHANGED <<form, index, values, flags, pc, plan, exit>>

(* wide_to_utf8: an argument that is not valid UTF-16 becomes empty.  The  *)
(* dashboard's are valid.                                                  *)
Convert ==
  /\ pc = "convert" /\ pc' = "command"
  /\ \/ UNCHANGED arguments
     \/ edited /\ \E i \in DOMAIN arguments : arguments' = [arguments EXCEPT ![i] = Blank]
  /\ UNCHANGED <<form, edited, index, values, flags, plan, exit>>

-----------------------------------------------------------------------------
(* parse_cli, and what run_cli does with its verdict.                      *)

Ends(code) == pc' = "ended" /\ exit' = code /\ UNCHANGED plan
Reject == Ends("64")

Command ==
  /\ pc = "command"
  /\ IF arguments \in {<<Help>>, <<Benchmark, Help>>} THEN Ends("0")
     ELSE IF arguments = <<>> \/ arguments[1] # Benchmark THEN Reject
     ELSE pc' = "options" /\ UNCHANGED <<plan, exit>>
  /\ index' = 2
  /\ UNCHANGED <<form, edited, arguments, values, flags>>

Token == arguments[index]

(* Faulty: what is given twice keeps its first value.                      *)
Kept == FALSE

Duplicate == values[Token.option] # Missing

TakeFlag ==
  /\ pc = "options" /\ index <= Len(arguments) /\ Token.option \in Flags
  /\ IF Token.option \in flags THEN Reject /\ UNCHANGED <<flags, index>>
     ELSE flags' = flags \cup {Token.option} /\ index' = index + 1 /\ UNCHANGED <<pc, plan, exit>>
  /\ UNCHANGED <<form, edited, arguments, values>>

HasValue == index < Len(arguments) /\ arguments[index + 1].option = ""

(* values.emplace does not replace a value.                                *)
TakeValue ==
  /\ pc = "options" /\ index <= Len(arguments) /\ Token.option \notin Flags
  /\ IF Token.option \notin ValueOptions \/ Duplicate \/ ~HasValue
       THEN Reject /\ UNCHANGED <<values, index>>
       ELSE /\ values' = [values EXCEPT ![Token.option] =
                            IF @ = Missing THEN arguments[index + 1] ELSE @]
            /\ index' = index + 2 /\ UNCHANGED <<pc, plan, exit>>
  /\ UNCHANGED <<form, edited, arguments, flags>>

Items(option) == values[option].items
Given(option) == values[option] # Missing
Cold == "--cold-start" \in flags

Nonnegative(item) == item \in DOMAIN Number /\ Number[item] <= MaxUint
Positive(item) == Nonnegative(item) /\ Number[item] # 0
PositiveList(option) == \A i \in DOMAIN Items(option) : Positive(Items(option)[i])

Requests(b) == Contains(Items("--backends"), b)

(* Faulty: a back end may come without its list.                           *)
NothingNeeded == TRUE

(* Faulty: the lists are wanted for every run.                             *)
AllNeeded == Given("--threads") /\ Given("--cuda-batches")

ListsGiven ==
  (Requests(OpenMP) => Given("--threads")) /\ (Requests(Cuda) => Given("--cuda-batches"))

AnInteger(option, range) ==
  /\ Len(Items(option)) = 1 /\ Nonnegative(Items(option)[1])
  /\ Number[Items(option)[1]] \in range

Acceptable ==
  /\ \A o \in RequiredOptions : Given(o) /\ values[o] # Blank
  /\ \A i \in DOMAIN Items("--backends") : Items("--backends")[i] \in Backends
  /\ ListsGiven
  /\ \A o \in {"--image-counts", "--threads", "--cuda-batches"} : PositiveList(o)
  /\ AnInteger("--warmups", {IF Cold THEN 0 ELSE 2})
  /\ AnInteger("--repetitions", IF Cold THEN {1} ELSE 5 .. MaxUint)
  /\ Items("--csv") = <<"results.csv">>

BenchmarkRequest ==
  [backends |-> Items("--backends"), counts |-> Numbers(Items("--image-counts")),
   threads |-> Numbers(Items("--threads")), batches |-> Numbers(Items("--cuda-batches"))]

Finish ==
  /\ pc = "options" /\ index > Len(arguments)
  /\ IF Acceptable
       THEN plan' = BuildPlan(BenchmarkRequest) /\ pc' = "accepted" /\ UNCHANGED exit
       ELSE Reject
  /\ UNCHANGED <<form, edited, arguments, index, values, flags>>

Next == Submit \/ Edit \/ Convert \/ Command \/ TakeFlag \/ TakeValue \/ Finish

Spec == Init /\ [][Next]_vars

-----------------------------------------------------------------------------
(* Properties.                                                             *)

(* The command line of a form that the dashboard finds valid is accepted,  *)
(* and its matrix is the one the form describes.                           *)
ValidatedIsAccepted ==
  /\ pc = "ended" => edited
  /\ pc = "accepted" /\ ~edited =>
       plan = BuildPlan(
         [backends |-> InOrder(form.backends), counts |-> <<Number[form.count]>>,
          threads |-> Numbers(Shown(OpenMP, form[OpenMP])),
          batches |-> Numbers(Shown(Cuda, form[Cuda]))])

(* A request that is accepted can run as it is: there is an experiment for *)
(* every back end it names at every image count, the Sequential baseline   *)
(* comes first, and the schedule is that of a steady or of a cold run.     *)
AcceptedIsRunnable ==
  pc = "accepted" =>
    /\ \A i \in DOMAIN Items("--backends"), j \in DOMAIN Items("--image-counts") :
         \E k \in DOMAIN plan : /\ plan[k].backend = Items("--backends")[i]
                                /\ plan[k].count = Number[Items("--image-counts")[j]]
    /\ plan # <<>> /\ plan[1].backend = Sequential
    /\ Cold <=> Number[Items("--warmups")[1]] = 0
    /\ Cold <=> Number[Items("--repetitions")[1]] = 1

(* Nothing the user typed is dropped: in an accepted command line every    *)
(* argument is the command, a flag, an option, or the value in effect of   *)
(* the option before it.                                                   *)
NothingDropped ==
  pc = "accepted" =>
    \A i \in 2 .. Len(arguments) :
      \/ arguments[i].option \in flags
      \/ arguments[i].option \in ValueOptions /\ i < Len(arguments)
         /\ values[arguments[i].option] = arguments[i + 1]
      \/ arguments[i].option = "" /\ arguments[i - 1].option \in ValueOptions
==============================================================================
