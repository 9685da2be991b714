------------------------------ MODULE CsvProofs ------------------------------
(***************************************************************************)
(* For any number of runs that write the result CSV, with crashes and      *)
(* failures of the disk anywhere and other programs that replace it at     *)
(* will: it is whole and keeps its rows and its header but for what a run  *)
(* whose reading ended early did to it, and a session of the dashboard     *)
(* finds its own run in it.                                                *)
(***************************************************************************)
EXTENDS Dashboard, FiniteSetTheorems, SequenceTheorems, TLAPS

Headers == {"none", "ours", "foreign"}
Ids == Processes \cup {"garbled"}
Content == [header : Headers, runs : Seq(Ids), whole : BOOLEAN]
Steps == {"idle", "validate", "measure", "revalidate", "inspect", "read", "create",
          "write", "move", "succeeded", "failed", "crashed"}
Prepared == {"create", "write", "move"}

TypeInv ==
  /\ mode \in [Processes -> {"append", "overwrite"}]
  /\ file \in Content
  /\ temporary \in [Processes -> Content]
  /\ contents \in [Processes -> Content]
  /\ pc \in [Processes -> Steps]
  /\ changed \in [Processes -> SUBSET (Processes \cup {"other"})]
  /\ swapped \in [Processes -> BOOLEAN]
  /\ short \subseteq Processes

NoDuplicates(f) ==
  \A j, k \in DOMAIN f.runs :
    f.runs[j] = f.runs[k] /\ f.runs[j] \in Processes => j = k

(* Whole, but for what a run whose reading ended early has put there.      *)
Intact(f) == f.whole \/ \E p \in short : p \in Runs(f)

(* A file without a header is no file at all.                              *)
FileInv ==
  /\ Intact(file) /\ NoDuplicates(file)
  /\ file.header = "none" => file = Absent
  /\ \A p \in Processes : p \in Runs(file) => pc[p] = "succeeded"

(* What a process is going to write, and what it read that from.           *)
PreparedInv(p) ==
  pc[p] \in Prepared =>
    /\ Intact(contents[p]) /\ contents[p].header \in {"ours", "foreign"}
    /\ NoDuplicates(contents[p])
    /\ \A q \in Processes : q \in Runs(contents[p]) => q = p \/ pc[q] = "succeeded"
    /\ mode[p] = "append" /\ changed[p] = {} /\ p \notin short => ~Loses(file, contents[p])
    /\ ~swapped[p] /\ p \notin short => contents[p].header = "ours"

(* The file a process is going to read is one it may append to.            *)
CheckedInv(p) ==
  /\ pc[p] \in {"inspect", "read"} /\ mode[p] = "append" /\ ~swapped[p] /\ Exists =>
       file.header = "ours"
  /\ pc[p] = "read" => mode[p] = "append"
  /\ pc[p] = "move" => temporary[p] = contents[p]

CsvInv == TypeInv /\ FileInv /\ \A p \in Processes : PreparedInv(p) /\ CheckedInv(p)

-----------------------------------------------------------------------------
(* Sequences of runs.                                                      *)

(* A file with a row more holds the runs of the old one and the new run.   *)
LEMMA RunsOfAppend ==
  ASSUME NEW f \in Content, NEW p \in Ids, NEW w \in BOOLEAN,
         NEW g, g = Csv(f.header, Append(f.runs, p), w)
  PROVE  /\ g \in Content
         /\ Runs(g) = Runs(f) \cup {p}
         /\ NoDuplicates(f) /\ (p \in Processes => p \notin Runs(f)) => NoDuplicates(g)
<1>1. f.runs \in Seq(Ids) /\ f.header \in Headers
  BY DEF Content
<1>2. g.runs = Append(f.runs, p) /\ g \in Content
  BY <1>1 DEF Csv, Content
<1>3. /\ DOMAIN f.runs = 1 .. Len(f.runs) /\ Len(f.runs) \in Nat
      /\ DOMAIN g.runs = 1 .. Len(f.runs) + 1
      /\ g.runs[Len(f.runs) + 1] = p
      /\ \A k \in 1 .. Len(f.runs) : g.runs[k] = f.runs[k]
  <2> DEFINE s == f.runs
  <2> DEFINE t == Append(s, p)
  <2>1. s \in Seq(Ids) /\ g.runs = t
    BY <1>1, <1>2
  <2> HIDE DEF s
  <2>2. /\ DOMAIN s = 1 .. Len(s) /\ Len(s) \in Nat
        /\ DOMAIN t = 1 .. Len(s) + 1 /\ t[Len(s) + 1] = p
        /\ \A k \in 1 .. Len(s) : t[k] = s[k]
    BY <2>1
  <2> HIDE DEF t
  <2>3. QED
    BY <2>1, <2>2 DEF s
<1>4. Runs(g) = Runs(f) \cup {p}
  <2>1. ASSUME NEW r \in Runs(g)
        PROVE  r \in Runs(f) \cup {p}
    <3>1. PICK k \in 1 .. Len(f.runs) + 1 : r = g.runs[k]
      BY <1>3 DEF Runs
    <3>2. k = Len(f.runs) + 1 \/ k \in 1 .. Len(f.runs)
      BY <1>3
    <3>3. QED
      BY <3>1, <3>2, <1>3 DEF Runs
  <2>2. ASSUME NEW r \in Runs(f) \cup {p}
        PROVE  r \in Runs(g)
    <3>1. PICK k \in 1 .. Len(f.runs) + 1 : r = g.runs[k]
      <4>1. CASE r = p
        <5>1. Len(f.runs) + 1 \in 1 .. Len(f.runs) + 1
          BY <1>3
        <5>2. QED
          BY <4>1, <5>1, <1>3
      <4>2. CASE r \in Runs(f)
        <5>1. PICK k \in 1 .. Len(f.runs) : r = f.runs[k]
          BY <4>2, <1>3 DEF Runs
        <5>2. k \in 1 .. Len(f.runs) + 1
          BY <1>3
        <5>3. QED
          BY <5>1, <5>2, <1>3
      <4>3. QED
        BY <4>1, <4>2
    <3>2. QED
      BY <3>1, <1>3 DEF Runs
  <2>3. QED
    BY <2>1, <2>2
<1>5. ASSUME NoDuplicates(f), p \in Processes => p \notin Runs(f)
      PROVE  NoDuplicates(g)
  <2>1. p \in Processes => \A k \in 1 .. Len(f.runs) : f.runs[k] # p
    BY <1>3, <1>5 DEF Runs
  <2>2. SUFFICES ASSUME NEW j \in 1 .. Len(f.runs) + 1, NEW k \in 1 .. Len(f.runs) + 1,
                        g.runs[j] = g.runs[k], g.runs[j] \in Processes
                 PROVE  j = k
    BY <1>3 DEF NoDuplicates
  <2>3. /\ j = Len(f.runs) + 1 \/ j \in 1 .. Len(f.runs)
        /\ k = Len(f.runs) + 1 \/ k \in 1 .. Len(f.runs)
    BY <1>3
  <2>4. CASE j \in 1 .. Len(f.runs) /\ k \in 1 .. Len(f.runs)
    BY <2>2, <2>4, <1>3, <1>5 DEF NoDuplicates
  <2>5. QED
    BY <2>1, <2>2, <2>3, <2>4, <1>3
<1>6. QED
  BY <1>2, <1>4, <1>5

(* A file of one run.                                                      *)
LEMMA RunsOfOne ==
  ASSUME NEW p \in Processes, NEW g, g = Csv("ours", <<p>>, TRUE)
  PROVE  g \in Content /\ Runs(g) = {p} /\ NoDuplicates(g)
<1>1. g.runs = <<p>> /\ g \in Content
  BY DEF Csv, Content, Headers, Ids
<1>2. DOMAIN g.runs = {1} /\ g.runs[1] = p
  <2> DEFINE t == <<p>>
  <2>1. DOMAIN t = {1} /\ t[1] = p
    OBVIOUS
  <2> HIDE DEF t
  <2>2. g.runs = t
    BY <1>1 DEF t
  <2>3. QED
    BY <2>1, <2>2
<1>3. QED
  BY <1>1, <1>2 DEF Runs, NoDuplicates

(* A file without rows, whatever its header.                               *)
LEMMA RunsOfNone ==
  ASSUME NEW h \in Headers, NEW w \in BOOLEAN
  PROVE  /\ Csv(h, <<>>, w) \in Content /\ Csv(h, <<>>, w).runs = <<>>
         /\ Runs(Csv(h, <<>>, w)) = {} /\ NoDuplicates(Csv(h, <<>>, w))
         /\ Absent = Csv("none", <<>>, TRUE)
BY DEF Csv, Content, Headers, Absent, Runs, NoDuplicates

(* The first of a file's runs.                                             *)
LEMMA RunsOfBeginning ==
  ASSUME NEW f \in Content, NEW n \in 0 .. Len(f.runs),
         NEW g, g.runs = SubSeq(f.runs, 1, n)
  PROVE  /\ g.runs \in Seq(Ids) /\ Runs(g) \subseteq Runs(f)
         /\ NoDuplicates(f) => NoDuplicates(g)
<1> DEFINE s == f.runs
           b == g.runs
<1>1. s \in Seq(Ids) /\ n \in 0 .. Len(s) /\ b = SubSeq(s, 1, n)
  BY DEF Content
<1>2. g.runs = b /\ f.runs = s
  OBVIOUS
<1> HIDE DEF s, b
<1>3. Len(s) \in Nat /\ DOMAIN s = 1 .. Len(s) /\ \A k \in 1 .. Len(s) : s[k] \in Ids
  BY <1>1
<1>4. n \in Nat /\ \A k \in 1 .. n : k \in 1 .. Len(s)
  BY <1>1, <1>3
<1>5. b \in Seq(Ids) /\ Len(b) = n /\ \A k \in 1 .. n : b[k] = s[k]
  BY <1>1, <1>3, <1>4, SubSeqProperties
<1>6. DOMAIN b = 1 .. n
  BY <1>5
<1>7. Runs(g) \subseteq Runs(f)
  BY <1>2, <1>3, <1>4, <1>5, <1>6 DEF Runs
<1>8. ASSUME NoDuplicates(f)
      PROVE  NoDuplicates(g)
  BY <1>2, <1>3, <1>4, <1>5, <1>6, <1>8 DEF NoDuplicates
<1>9. QED
  BY <1>2, <1>5, <1>7, <1>8

(* What is left of a file has no other run's rows than the file, and its   *)
(* header or none of the schema's.                                         *)
LEMMA RunsOfCut ==
  ASSUME NEW f \in Content, NEW part \in Cut(f)
  PROVE  /\ part \in Content /\ Runs(part) \subseteq Runs(f) \cup {"garbled"}
         /\ part.header \in {f.header, "foreign"}
         /\ NoDuplicates(f) => NoDuplicates(part)
<1> DEFINE b(n) == SubSeq(f.runs, 1, n)
           Empty == {Csv("foreign", <<>>, TRUE), Csv(f.header, <<>>, TRUE)}
           Beginnings == {Csv(f.header, b(n), w) : n \in 1 .. Len(f.runs), w \in BOOLEAN}
           Torn == {Csv(f.header, Append(b(n), "garbled"), FALSE) :
                      n \in 0 .. Len(f.runs) - 1}
<1>1. f.header \in Headers /\ Len(f.runs) \in Nat
  BY DEF Content
<1>2. part \in Empty \/ part \in Beginnings \/ part \in Torn
  <2>1. Cut(f) = Empty \cup Beginnings \cup Torn
    BY DEF Cut
  <2> HIDE DEF Empty, Beginnings, Torn
  <2>2. QED
    BY <2>1
<1>3. CASE part \in Empty
  <2>1. PICK h \in {f.header, "foreign"} : part = Csv(h, <<>>, TRUE)
    BY <1>3
  <2>2. h \in Headers /\ part.header = h
    BY <1>1, <2>1 DEF Headers, Csv
  <2>3. QED
    BY <2>1, <2>2, RunsOfNone
<1>4. CASE part \in Beginnings
  <2>1. PICK n \in 1 .. Len(f.runs), w \in BOOLEAN : part = Csv(f.header, b(n), w)
    BY <1>4
  <2>2. n \in 0 .. Len(f.runs)
    BY <1>1
  <2>3. part.header = f.header /\ part.runs = b(n)
    BY <2>1 DEF Csv
  <2>4. /\ part.runs \in Seq(Ids) /\ Runs(part) \subseteq Runs(f)
        /\ NoDuplicates(f) => NoDuplicates(part)
    BY <2>2, <2>3, RunsOfBeginning
  <2>5. b(n) \in Seq(Ids)
    BY <2>3, <2>4
  <2> HIDE DEF b
  <2>6. part \in Content
    BY <1>1, <2>1, <2>5 DEF Csv, Content
  <2>7. QED
    BY <2>3, <2>4, <2>6
<1>5. CASE part \in Torn
  <2>1. PICK n \in 0 .. Len(f.runs) - 1 :
               part = Csv(f.header, Append(b(n), "garbled"), FALSE)
    BY <1>5
  <2>2. n \in 0 .. Len(f.runs)
    BY <1>1
  <2> DEFINE g == Csv(f.header, b(n), TRUE)
  <2>3. g.header = f.header /\ g.runs = b(n) /\ g = Csv(g.header, g.runs, TRUE)
    BY DEF Csv
  <2>4. part = Csv(g.header, Append(g.runs, "garbled"), FALSE)
    BY <2>1, <2>3
  <2> HIDE DEF g
  <2>5. /\ g.runs \in Seq(Ids) /\ Runs(g) \subseteq Runs(f)
        /\ NoDuplicates(f) => NoDuplicates(g)
    BY <2>2, <2>3, RunsOfBeginning
  <2>6. g \in Content
    <3>1. b(n) \in Seq(Ids) /\ g = Csv(f.header, b(n), TRUE)
      BY <2>3, <2>5
    <3> HIDE DEF b
    <3>2. QED
      BY <1>1, <3>1 DEF Csv, Content
  <2>7. "garbled" \in Ids /\ "garbled" \notin Processes
    BY ProcessesAssumption DEF Ids
  <2>8. /\ part \in Content /\ Runs(part) = Runs(g) \cup {"garbled"}
        /\ NoDuplicates(g) => NoDuplicates(part)
    BY <2>4, <2>6, <2>7, RunsOfAppend
  <2>9. part.header = f.header
    BY <2>1 DEF Csv
  <2>10. QED
    BY <2>5, <2>8, <2>9
<1> HIDE DEF Empty, Beginnings, Torn
<1>6. QED
  BY <1>2, <1>3, <1>4, <1>5

-----------------------------------------------------------------------------
(* The invariant is inductive.                                             *)

(* The file may exist before any process runs.                             *)
LEMMA CsvInvInit == Init => CsvInv
<1> SUFFICES ASSUME Init PROVE CsvInv
  OBVIOUS
<1>1. file \in {Absent, Csv("ours", <<>>, TRUE), Csv("foreign", <<>>, TRUE)}
  BY DEF Init
<1>2. Absent \in Content /\ \A h \in Headers : Csv(h, <<>>, TRUE) \in Content
  BY RunsOfNone DEF Headers
<1>3. TypeInv
  <2>1. file \in Content
    BY <1>1, <1>2 DEF Headers
  <2>2. pc \in [Processes -> Steps] /\ changed \in [Processes -> SUBSET (Processes \cup {"other"})]
    BY DEF Init, Steps
  <2>3. QED
    BY <1>2, <2>1, <2>2 DEF Init, TypeInv
<1>4. FileInv
  <2>1. Intact(file) /\ (file.header = "none" => file = Absent)
    BY <1>1 DEF Csv, Absent, Intact
  <2>2. Runs(file) = {} /\ NoDuplicates(file)
    BY <1>1, RunsOfNone DEF Headers
  <2>3. QED
    BY <2>1, <2>2 DEF FileInv
<1>5. ASSUME NEW p \in Processes
      PROVE  PreparedInv(p) /\ CheckedInv(p)
  <2>1. pc[p] = "idle" /\ "idle" \notin Prepared \cup {"inspect", "read"}
    BY DEF Init, Prepared
  <2>2. QED
    BY <2>1, Zenon DEF PreparedInv, CheckedInv, Prepared
<1>6. QED
  BY <1>3, <1>4, <1>5 DEF CsvInv

(* A step of one process that leaves the file, and the contents of every   *)
(* process that is past its reading, alone.                                *)
LEMMA QuietStep ==
  ASSUME CsvInv, TypeInv', NEW p \in Processes,
         UNCHANGED <<mode, file, contents, changed, short>>,
         \A q \in Processes : q # p => UNCHANGED <<pc[q], temporary[q], swapped[q]>>,
         pc[p] # "succeeded",
         pc'[p] \in Prepared => pc[p] \in Prepared /\ swapped'[p] = swapped[p],
         CheckedInv(p)'
  PROVE  CsvInv'
<1>1. FileInv'
  BY DEF CsvInv, FileInv, Runs, NoDuplicates, Absent, Intact
<1>2. ASSUME NEW q \in Processes
      PROVE  PreparedInv(q)' /\ CheckedInv(q)'
  <2>1. \A r \in Processes : pc[r] = "succeeded" => pc'[r] = "succeeded"
    OBVIOUS
  <2>2. /\ Runs(file)' = Runs(file) /\ Runs(contents[q])' = Runs(contents[q])
        /\ NoDuplicates(contents[q])' = NoDuplicates(contents[q]) /\ Exists' = Exists
        /\ Intact(contents[q])' = Intact(contents[q])
        /\ Loses(file, contents[q])' = Loses(file, contents[q])
    BY DEF Runs, NoDuplicates, Exists, Absent, Intact, Loses
  <2>3. PreparedInv(q) /\ CheckedInv(q)
    BY DEF CsvInv
  <2>4. CASE q # p
    BY <2>1, <2>2, <2>3, <2>4 DEF PreparedInv, CheckedInv
  <2>5. CASE q = p
    BY <2>1, <2>2, <2>3, <2>5 DEF PreparedInv
  <2>6. QED
    BY <2>4, <2>5
<1>3. QED
  BY <1>1, <1>2 DEF CsvInv

(* A process has read the file, or found that it need not.                 *)
LEMMA ReadingStep ==
  ASSUME CsvInv, TypeInv', NEW p \in Processes, NEW c \in Content,
         pc[p] \in {"inspect", "read"}, pc' = [pc EXCEPT ![p] = "create"],
         contents' = [contents EXCEPT ![p] = c], changed' = [changed EXCEPT ![p] = {}],
         UNCHANGED <<mode, file, temporary, swapped>>, short \subseteq short',
         Intact(c)', c.header \in {"ours", "foreign"}, NoDuplicates(c),
         \A q \in Processes : q \in Runs(c) => q = p \/ q \in Runs(file),
         mode[p] = "append" /\ p \notin short' => ~Loses(file, c),
         ~swapped[p] /\ p \notin short' => c.header = "ours"
  PROVE  CsvInv'
<1>1. \A q \in Processes : /\ pc'[q] = (IF q = p THEN "create" ELSE pc[q])
                            /\ contents'[q] = (IF q = p THEN c ELSE contents[q])
                            /\ changed'[q] = (IF q = p THEN {} ELSE changed[q])
  BY DEF CsvInv, TypeInv
<1>2. \A r \in Processes : pc[r] = "succeeded" => pc'[r] = "succeeded"
  BY <1>1
<1>3. FileInv'
  BY <1>2 DEF CsvInv, FileInv, Runs, NoDuplicates, Absent, Intact
<1>4. ASSUME NEW q \in Processes
      PROVE  PreparedInv(q)' /\ CheckedInv(q)'
  <2>1. CASE q = p
    <3>1. pc'[q] = "create" /\ contents'[q] = c
      BY <1>1, <2>1
    <3>2. \A r \in Processes : r \in Runs(c) => r = q \/ pc'[r] = "succeeded"
      BY <1>2, <2>1 DEF CsvInv, FileInv
    <3>3. Runs(file)' = Runs(file) /\ Runs(contents[q])' = Runs(c)
          /\ (NoDuplicates(contents[q]))' = NoDuplicates(c)
          /\ Intact(contents[q])' = Intact(c)' /\ Loses(file, contents[q])' = Loses(file, c)
      BY <3>1 DEF Runs, NoDuplicates, Intact, Loses
    <3>4. QED
      BY <2>1, <3>1, <3>2, <3>3 DEF PreparedInv, CheckedInv
  <2>2. CASE q # p
    <3>1. contents'[q] = contents[q] /\ pc'[q] = pc[q] /\ changed'[q] = changed[q]
      BY <1>1, <2>2
    <3>2. /\ Runs(file)' = Runs(file) /\ Runs(contents[q])' = Runs(contents[q])
          /\ NoDuplicates(contents[q])' = NoDuplicates(contents[q]) /\ Exists' = Exists
      BY <3>1 DEF Runs, NoDuplicates, Exists, Absent
    <3>3. Loses(file, contents[q])' = Loses(file, contents[q])
      BY <3>1, <3>2 DEF Loses
    <3>4. Intact(contents[q]) => Intact(contents[q])'
      BY <3>1, <3>2 DEF Intact
    <3>5. PreparedInv(q) /\ CheckedInv(q)
      BY DEF CsvInv
    <3>6. PreparedInv(q)'
      BY <1>2, <3>1, <3>2, <3>3, <3>4, <3>5 DEF PreparedInv
    <3>7. QED
      BY <3>1, <3>2, <3>5, <3>6 DEF CheckedInv
  <2>3. QED
    BY <2>1, <2>2
<1>5. QED
  BY <1>3, <1>4 DEF CsvInv

(* A new file takes the place of the old one.                              *)
LEMMA ReplacingStep ==
  ASSUME CsvInv, TypeInv', NEW by, NEW new \in Content, Replace(by, new),
         UNCHANGED <<mode, contents, short>>,
         \A q \in Processes : /\ pc'[q] = pc[q] \/ pc'[q] = "succeeded"
                              /\ pc'[q] = "move" => temporary'[q] = temporary[q],
         Intact(new), NoDuplicates(new), new.header = "none" => new = Absent,
         \A q \in Processes : q \in Runs(new) => pc'[q] = "succeeded"
  PROVE  CsvInv'
<1>1. /\ file' = new
      /\ \A q \in Processes : changed'[q] # {}
      /\ \A q \in Processes : ~swapped'[q] => ~swapped[q] /\ new.header # "foreign"
  BY DEF Replace
<1>2. FileInv'
  BY <1>1 DEF FileInv, Runs, NoDuplicates, Absent, Intact
<1>3. \A r \in Processes : pc[r] = "succeeded" => pc'[r] = "succeeded"
  OBVIOUS
<1>4. ASSUME NEW q \in Processes
      PROVE  PreparedInv(q)' /\ CheckedInv(q)'
  <2>1. CASE pc'[q] = "succeeded"
    BY <2>1 DEF PreparedInv, CheckedInv, Prepared
  <2>2. CASE pc'[q] = pc[q]
    <3>1. PreparedInv(q)'
      <4>1. /\ Runs(contents[q])' = Runs(contents[q])
            /\ NoDuplicates(contents[q])' = NoDuplicates(contents[q])
            /\ Intact(contents[q])' = Intact(contents[q])
        BY DEF Runs, NoDuplicates, Intact
      <4>2. PreparedInv(q)
        BY DEF CsvInv
      <4>3. QED
        BY <1>1, <1>3, <2>2, <4>1, <4>2 DEF PreparedInv
    <3>2. CheckedInv(q)'
      <4>1. new.header \in {"ours", "foreign"} \/ new = Absent
        BY DEF Content, Headers
      <4>2. Exists' = (new # Absent)
        BY <1>1 DEF Exists, Absent
      <4>3. QED
        BY <1>1, <2>2, <4>1, <4>2 DEF CsvInv, CheckedInv
    <3>3. QED
      BY <3>1, <3>2
  <2>3. QED
    BY <2>1, <2>2
<1>5. QED
  BY <1>2, <1>4 DEF CsvInv

(* Every step of a process keeps the types.                                *)
LEMMA TypeStep ==
  ASSUME CsvInv, [Next]_csvVars
  PROVE  TypeInv'
<1> USE DEF CsvInv, TypeInv, Goto, history, Steps
<1>1. Absent \in Content /\ \A h \in Headers, w \in BOOLEAN : Csv(h, <<>>, w) \in Content
  BY RunsOfNone DEF Headers
<1>2. ASSUME NEW p \in Processes, Start(p) \/ Crash(p) \/ Validate(p) \/ Measure(p)
      PROVE  TypeInv'
  BY <1>2 DEF Start, Crash, Validate, Measure
<1>3. ASSUME NEW p \in Processes, Revalidate(p)
      PROVE  TypeInv'
  BY <1>3 DEF Revalidate
<1>4. ASSUME NEW p \in Processes, Inspect(p)
      PROVE  TypeInv'
  BY <1>4, RunsOfOne DEF Inspect
<1>5. ASSUME NEW p \in Processes, Read(p)
      PROVE  TypeInv'
  <2>1. CASE ~Exists
    BY <1>5, <2>1 DEF Read
  <2>2. CASE Exists
    <3>1. PICK part \in {file} \cup Cut(file) :
            /\ contents' = [contents EXCEPT ![p] =
                 Csv(part.header, Append(part.runs, p), part.whole)]
            /\ short' = IF part = file THEN short ELSE short \cup {p}
      BY <1>5, <2>2 DEF Read, OldAndNewRows
    <3>2. /\ pc' = [pc EXCEPT ![p] = "create"] /\ changed' = [changed EXCEPT ![p] = {}]
          /\ UNCHANGED <<mode, file, temporary, swapped>>
      BY <1>5, <2>2 DEF Read
    <3> DEFINE c == Csv(part.header, Append(part.runs, p), part.whole)
    <3>3. part \in Content /\ part.whole \in BOOLEAN
      BY RunsOfCut DEF Content
    <3>4. c \in Content
      BY <3>3, RunsOfAppend DEF Ids
    <3> HIDE DEF c
    <3>5. contents' = [contents EXCEPT ![p] = c] /\ short' \subseteq Processes
      BY <3>1 DEF c
    <3>6. QED
      BY <3>2, <3>4, <3>5
  <2>3. QED
    BY <2>1, <2>2
<1>6. ASSUME NEW p \in Processes, CreateTemporary(p)
      PROVE  TypeInv'
  BY <1>1, <1>6 DEF CreateTemporary, Headers
<1>7. ASSUME NEW p \in Processes, WriteTemporary(p)
      PROVE  TypeInv'
  <2>1. \A w \in BOOLEAN : [contents[p] EXCEPT !.whole = @ /\ w] \in Content
    BY DEF Content
  <2>2. QED
    BY <1>1, <1>7, <2>1 DEF WriteTemporary, Discard
<1>8. ASSUME NEW p \in Processes, Move(p)
      PROVE  TypeInv'
  BY <1>1, <1>8 DEF Move, Replace, Discard
<1>9. ASSUME NEW p \in Processes, DiskFails(p)
      PROVE  TypeInv'
  BY <1>1, <1>9 DEF DiskFails, Discard
<1>10. ASSUME Meddle
       PROVE  TypeInv'
  <2>1. PICK new \in {Csv("foreign", <<>>, TRUE), Absent} : Replace("other", new)
    BY <1>10 DEF Meddle
  <2>2. UNCHANGED <<mode, temporary, contents, pc, short>>
    BY <1>10 DEF Meddle
  <2>3. file' \in Content
    BY <1>1, <2>1 DEF Headers, Replace
  <2>4. changed' \in [Processes -> SUBSET (Processes \cup {"other"})]
    BY <2>1 DEF Replace
  <2>5. swapped' \in [Processes -> BOOLEAN]
    BY <2>1 DEF Replace
  <2>6. QED
    BY <2>2, <2>3, <2>4, <2>5
<1>11. CASE UNCHANGED csvVars
  BY <1>11 DEF csvVars
<1>12. QED
  BY <1>2, <1>3, <1>4, <1>5, <1>6, <1>7, <1>8, <1>9, <1>10, <1>11 DEF Next, Work

(* Every step of a process keeps the file whole and each writer's rows its *)
(* own.                                                                    *)
LEMMA CsvInvNext ==
  ASSUME CsvInv, [Next]_csvVars
  PROVE  CsvInv'
<1>1. TypeInv'
  BY TypeStep
<1>2. ASSUME NEW p \in Processes
      PROVE  /\ contents[p] \in Content /\ temporary[p] \in Content /\ file \in Content
             /\ pc[p] \in Steps
             /\ Runs(Absent) = {} /\ NoDuplicates(Absent)
  BY RunsOfNone DEF CsvInv, TypeInv, Headers
<1>3. ASSUME NEW p \in Processes, Start(p) \/ Crash(p) \/ Validate(p) \/ Measure(p)
      PROVE  CsvInv'
  <2>1. /\ UNCHANGED <<mode, file, contents, changed, short>> /\ pc[p] # "succeeded"
        /\ UNCHANGED <<temporary, swapped>>
        /\ \E s \in {"validate", "measure", "revalidate", "failed", "crashed"} :
             pc' = [pc EXCEPT ![p] = s]
    BY <1>3 DEF Start, Crash, Validate, Measure, Goto, history, Running
  <2>2. \A q \in Processes : q # p => UNCHANGED <<pc[q], temporary[q], swapped[q]>>
    BY <2>1 DEF CsvInv, TypeInv
  <2>3. pc'[p] \in Prepared => pc[p] \in Prepared /\ swapped'[p] = swapped[p]
    BY <2>1 DEF CsvInv, TypeInv, Prepared
  <2>4. CheckedInv(p)'
    BY <2>1 DEF CsvInv, TypeInv, CheckedInv
  <2>5. QED
    BY <1>1, <2>1, <2>2, <2>3, <2>4, QuietStep
<1>4. ASSUME NEW p \in Processes, Revalidate(p)
      PROVE  CsvInv'
  <2>1. /\ UNCHANGED <<mode, file, contents, changed, short>> /\ pc[p] # "succeeded"
        /\ temporary' = temporary /\ swapped' = [swapped EXCEPT ![p] = FALSE]
        /\ \E s \in {"inspect", "failed"} :
             /\ pc' = [pc EXCEPT ![p] = s]
             /\ s = "inspect" => ExistingIsUsable(p)
    BY <1>4 DEF Revalidate, Goto
  <2>2. \A q \in Processes : q # p => UNCHANGED <<pc[q], temporary[q], swapped[q]>>
    BY <2>1 DEF CsvInv, TypeInv
  <2>3. pc'[p] \in Prepared => pc[p] \in Prepared /\ swapped'[p] = swapped[p]
    BY <2>1 DEF CsvInv, TypeInv, Prepared
  <2>4. CheckedInv(p)'
    <3>1. Exists' = Exists
      BY <2>1 DEF Exists, Absent
    <3>2. QED
      BY <2>1, <3>1 DEF CsvInv, TypeInv, CheckedInv, ExistingIsUsable
  <2>5. QED
    BY <1>1, <2>1, <2>2, <2>3, <2>4, QuietStep
<1>5. ASSUME NEW p \in Processes, CreateTemporary(p) \/ DiskFails(p)
      PROVE  CsvInv'
  <2>1. /\ UNCHANGED <<mode, file, contents, changed, short>> /\ pc[p] # "succeeded"
        /\ swapped' = swapped /\ \E t : temporary' = [temporary EXCEPT ![p] = t]
        /\ \/ pc[p] = "create" /\ pc' = [pc EXCEPT ![p] = "write"]
           \/ pc' = [pc EXCEPT ![p] = "failed"]
    BY <1>5 DEF CreateTemporary, DiskFails, Discard, Goto, history
  <2>2. \A q \in Processes : q # p => UNCHANGED <<pc[q], temporary[q], swapped[q]>>
    BY <2>1 DEF CsvInv, TypeInv
  <2>3. pc'[p] \in Prepared => pc[p] \in Prepared /\ swapped'[p] = swapped[p]
    BY <2>1 DEF CsvInv, TypeInv, Prepared
  <2>4. CheckedInv(p)'
    BY <2>1 DEF CsvInv, TypeInv, CheckedInv
  <2>5. QED
    BY <1>1, <2>1, <2>2, <2>3, <2>4, QuietStep
<1>6. ASSUME NEW p \in Processes, WriteTemporary(p)
       PROVE  CsvInv'
  <2>1. /\ UNCHANGED <<mode, file, contents, changed, swapped, short>> /\ pc[p] = "write"
        /\ \/ /\ pc' = [pc EXCEPT ![p] = "move"]
              /\ temporary' = [temporary EXCEPT ![p] =
                   [contents[p] EXCEPT !.whole = @ /\ TRUE]]
           \/ /\ pc' = [pc EXCEPT ![p] = "failed"]
              /\ temporary' = [temporary EXCEPT ![p] = Absent]
    BY <1>6 DEF WriteTemporary, Flushed, Discard, Goto, history
  <2>2. \A q \in Processes : q # p => UNCHANGED <<pc[q], temporary[q], swapped[q]>>
    BY <2>1 DEF CsvInv, TypeInv
  <2>3. pc'[p] \in Prepared => pc[p] \in Prepared /\ swapped'[p] = swapped[p]
    BY <2>1 DEF Prepared
  <2>4. CheckedInv(p)'
    <3>1. contents[p].whole \in BOOLEAN
      BY <1>2 DEF Content
    <3>2. [contents[p] EXCEPT !.whole = @ /\ TRUE] = contents[p]
      BY <1>2, <3>1 DEF Content
    <3>3. QED
      BY <2>1, <3>2 DEF CsvInv, TypeInv, CheckedInv
  <2>5. QED
    BY <1>1, <2>1, <2>2, <2>3, <2>4, QuietStep
<1>7. ASSUME NEW p \in Processes, Inspect(p)
      PROVE  CsvInv'
  <2>1. CASE Exists /\ mode[p] = "append"
    <3>1. /\ pc[p] = "inspect" /\ pc' = [pc EXCEPT ![p] = "read"]
          /\ UNCHANGED <<mode, file, temporary, contents, changed, swapped, short>>
      BY <1>7, <2>1 DEF Inspect, Goto
    <3>2. CheckedInv(p)'
      <4>1. Exists' = Exists
        BY <3>1 DEF Exists, Absent
      <4>2. QED
        BY <2>1, <3>1, <4>1 DEF CsvInv, TypeInv, CheckedInv
    <3>3. QED
      BY <1>1, <3>1, <3>2, QuietStep DEF CsvInv, TypeInv, Prepared
  <2>2. CASE ~(Exists /\ mode[p] = "append")
    <3> DEFINE c == Csv("ours", <<p>>, TRUE)
    <3>1. /\ pc[p] = "inspect" /\ pc' = [pc EXCEPT ![p] = "create"]
          /\ contents' = [contents EXCEPT ![p] = c] /\ changed' = [changed EXCEPT ![p] = {}]
          /\ UNCHANGED <<mode, file, temporary, swapped, short>>
      BY <1>7, <2>2 DEF Inspect, Goto
    <3>2. c \in Content /\ Runs(c) = {p} /\ NoDuplicates(c) /\ c.whole /\ c.header = "ours"
      BY RunsOfOne DEF Csv
    <3>3. Intact(c)' /\ (mode[p] = "append" => ~Loses(file, c))
      BY <2>2, <1>2, <3>2 DEF Exists, Loses, Intact
    <3> HIDE DEF c
    <3>4. QED
      BY <1>1, <3>1, <3>2, <3>3, ReadingStep
  <2>3. QED
    BY <2>1, <2>2
<1>8. ASSUME NEW p \in Processes, Read(p)
      PROVE  CsvInv'
  <2>1. CASE ~Exists
    <3>1. /\ pc[p] = "read" /\ pc' = [pc EXCEPT ![p] = "failed"]
          /\ UNCHANGED <<mode, file, temporary, contents, changed, swapped, short>>
      BY <1>8, <2>1 DEF Read, Goto
    <3>2. CheckedInv(p)'
      BY <3>1 DEF CsvInv, TypeInv, CheckedInv
    <3>3. QED
      BY <1>1, <3>1, <3>2, QuietStep DEF CsvInv, TypeInv, Prepared
  <2>2. CASE Exists
    <3>1. PICK part \in {file} \cup Cut(file) :
            /\ contents' = [contents EXCEPT ![p] =
                 Csv(part.header, Append(part.runs, p), part.whole)]
            /\ short' = IF part = file THEN short ELSE short \cup {p}
      BY <1>8, <2>2 DEF Read, OldAndNewRows
    <3>2. /\ pc[p] = "read" /\ pc' = [pc EXCEPT ![p] = "create"]
          /\ changed' = [changed EXCEPT ![p] = {}]
          /\ UNCHANGED <<mode, file, temporary, swapped>>
      BY <1>8, <2>2 DEF Read, Goto
    <3> DEFINE c == Csv(part.header, Append(part.runs, p), part.whole)
    <3>3. /\ part \in Content /\ part.whole \in BOOLEAN /\ NoDuplicates(part)
          /\ Runs(part) \subseteq Runs(file) \cup {"garbled"}
          /\ part.header \in {file.header, "foreign"}
      BY <1>2, RunsOfCut DEF CsvInv, FileInv, Content
    <3>4. p \notin Runs(part) /\ p \in Ids
      BY <3>2, <3>3, ProcessesAssumption DEF CsvInv, FileInv, Ids
    <3>5. c \in Content /\ Runs(c) = Runs(part) \cup {p} /\ NoDuplicates(c)
      BY <3>3, <3>4, RunsOfAppend
    <3>6. c.whole = part.whole /\ c.header = part.header
      BY DEF Csv
    <3>7. file.header \in {"ours", "foreign"}
      BY <1>2, <2>2 DEF CsvInv, FileInv, Content, Headers, Exists
    <3>8. \A q \in Processes : q \in Runs(c) => q = p \/ q \in Runs(file)
      BY <3>3, <3>5, ProcessesAssumption
    <3>9. mode[p] = "append" /\ (~swapped[p] => file.header = "ours")
      BY <3>2, <2>2 DEF CsvInv, CheckedInv
    <3> HIDE DEF c
    <3>10. contents' = [contents EXCEPT ![p] = c]
      BY <3>1 DEF c
    <3>11. Intact(c)'
      <4>1. c' = c /\ part' = part
        BY <3>1
      <4>2. CASE part = file
        BY <4>2, <3>1, <3>5, <3>6 DEF CsvInv, FileInv, Intact
      <4>3. CASE part # file
        BY <4>3, <3>1, <3>5 DEF Intact
      <4>4. QED
        BY <4>2, <4>3
    <3>12. p \notin short' => part = file
      BY <3>1
    <3>13. p \notin short' => ~Loses(file, c)
      BY <3>12, <3>5, <3>6 DEF Loses
    <3>14. ~swapped[p] /\ p \notin short' => c.header = "ours"
      BY <3>12, <3>9, <3>6
    <3>15. short \subseteq short' /\ c.header \in {"ours", "foreign"}
      BY <3>1, <3>3, <3>6, <3>7
    <3>16. QED
      BY <1>1, <3>2, <3>5, <3>8, <3>10, <3>11, <3>13, <3>14, <3>15, ReadingStep
  <2>3. QED
    BY <2>1, <2>2
<1>9. ASSUME NEW p \in Processes, Move(p)
      PROVE  CsvInv'
  <2>1. /\ pc[p] = "move" /\ pc' = [pc EXCEPT ![p] = "succeeded"]
        /\ temporary' = [temporary EXCEPT ![p] = Absent]
        /\ Replace(p, temporary[p]) /\ UNCHANGED <<mode, contents, short>>
    BY <1>9 DEF Move, Goto, Discard
  <2>2. /\ temporary[p] = contents[p] /\ Intact(contents[p]) /\ NoDuplicates(contents[p])
        /\ contents[p].header # "none"
        /\ \A q \in Processes : q \in Runs(contents[p]) => q = p \/ pc[q] = "succeeded"
    BY <2>1 DEF CsvInv, PreparedInv, CheckedInv, Prepared
  <2>3. \A q \in Processes : /\ pc'[q] = IF q = p THEN "succeeded" ELSE pc[q]
                             /\ q # p => temporary'[q] = temporary[q]
    BY <2>1 DEF CsvInv, TypeInv
  <2>4. QED
    BY <1>1, <1>2, <2>1, <2>2, <2>3, ReplacingStep
<1>10. ASSUME Meddle
      PROVE  CsvInv'
  <2>1. PICK new \in {Csv("foreign", <<>>, TRUE), Absent} : Replace("other", new)
    BY <1>10 DEF Meddle
  <2>2. UNCHANGED <<mode, temporary, contents, pc, short>>
    BY <1>10 DEF Meddle
  <2>3. /\ new \in Content /\ new.whole /\ NoDuplicates(new) /\ Runs(new) = {}
        /\ new.header = "none" => new = Absent
    <3>1. CASE new = Absent
      BY <3>1, RunsOfNone DEF Headers, Absent
    <3>2. CASE new = Csv("foreign", <<>>, TRUE)
      <4>1. new.whole /\ new.header = "foreign"
        BY <3>2 DEF Csv
      <4>2. QED
        BY <3>2, <4>1, RunsOfNone DEF Headers
    <3>3. QED
      BY <2>1, <3>1, <3>2
  <2>4. QED
    BY <1>1, <2>1, <2>2, <2>3, ReplacingStep DEF Intact
<1>11. CASE UNCHANGED csvVars
  <2>1. UNCHANGED <<mode, file, temporary, contents, pc, changed, swapped, short>>
    BY <1>11 DEF csvVars, history
  <2>2. FileInv'
    BY <2>1 DEF CsvInv, FileInv, Runs, NoDuplicates, Absent, Intact
  <2>3. ASSUME NEW p \in Processes
        PROVE  PreparedInv(p)' /\ CheckedInv(p)'
    <3>1. /\ Runs(file)' = Runs(file) /\ Runs(contents[p])' = Runs(contents[p])
          /\ NoDuplicates(contents[p])' = NoDuplicates(contents[p]) /\ Exists' = Exists
          /\ Intact(contents[p])' = Intact(contents[p])
          /\ Loses(file, contents[p])' = Loses(file, contents[p])
      BY <2>1 DEF Runs, NoDuplicates, Exists, Absent, Intact, Loses
    <3>2. PreparedInv(p) /\ CheckedInv(p)
      BY DEF CsvInv
    <3>3. QED
      BY <2>1, <3>1, <3>2 DEF PreparedInv, CheckedInv
  <2>4. QED
    BY <1>1, <2>2, <2>3 DEF CsvInv
<1>12. QED
  BY <1>3, <1>4, <1>5, <1>6, <1>7, <1>8, <1>9, <1>10, <1>11 DEF Next, Work

(* In every behaviour of the CLI's processes the invariant holds.          *)
LEMMA CsvInvHolds == Spec => []CsvInv
<1>1. CsvInv /\ [Next]_csvVars => CsvInv'
  BY CsvInvNext
<1>2. QED
  BY CsvInvInit, <1>1, PTL DEF Spec

-----------------------------------------------------------------------------
(* Theorems.                                                               *)

(* Every row of the result CSV is whole unless a run whose reading ended   *)
(* early has put its rows there, and no run has its rows in it twice.      *)
THEOREM FileIsWhole == Spec => []FileWhole
<1>1. CsvInv => FileWhole
  BY DEF CsvInv, FileInv, Intact, NoDuplicates, FileWhole
<1>2. QED
  BY CsvInvHolds, <1>1, PTL

(* The step with which a process succeeds is its move.                     *)
LEMMA SucceedsByMove ==
  ASSUME CsvInv, [Next]_csvVars, NEW p \in Processes, pc[p] = "move", pc'[p] = "succeeded"
  PROVE  Move(p) /\ file' = contents[p]
<1>1. ASSUME NEW q \in Processes, Start(q) \/ Work(q) \/ Crash(q), ~Move(p)
      PROVE  pc'[p] # "succeeded"
  <2>1. CASE Move(q)
    BY <1>1, <2>1 DEF CsvInv, TypeInv, Move, Goto
  <2>2. CASE Read(q)
    BY <2>2 DEF CsvInv, TypeInv, Read, Goto
  <2>3. CASE ~Move(q) /\ ~Read(q)
    BY <1>1, <2>3 DEF CsvInv, TypeInv, Start, Work, Crash, Validate, Measure, Revalidate,
                      Inspect, CreateTemporary, WriteTemporary, DiskFails, Goto
  <2>4. QED
    BY <2>1, <2>2, <2>3
<1>2. Meddle \/ UNCHANGED csvVars => pc' = pc
  BY DEF Meddle, csvVars
<1>3. Move(p)
  BY <1>1, <1>2 DEF Next
<1>4. QED
  BY <1>3 DEF CsvInv, CheckedInv, Move, Replace

(* Only an overwriting run, one overtaken since it read, or one whose      *)
(* reading ended early, loses rows.                                        *)
THEOREM RowsAreKept == Spec => RowsKept
<1>1. ASSUME CsvInv, [Next]_csvVars, NEW p \in Processes,
             pc[p] = "move", pc'[p] = "succeeded", Loses(file, file')
      PROVE  mode[p] = "overwrite" \/ changed[p] # {} \/ p \in short
  <2>1. file' = contents[p]
    BY <1>1, SucceedsByMove
  <2>2. mode[p] \in {"append", "overwrite"}
    BY <1>1 DEF CsvInv, TypeInv
  <2>3. QED
    BY <1>1, <2>1, <2>2 DEF CsvInv, PreparedInv, Prepared
<1>2. CsvInv /\ [Next]_csvVars =>
        [\A p \in Processes :
           pc[p] = "move" /\ pc'[p] = "succeeded" /\ Loses(file, file') =>
             mode[p] = "overwrite" \/ changed[p] # {} \/ p \in short]_csvVars
  BY <1>1
<1>3. QED
  BY CsvInvHolds, <1>2, PTL DEF Spec, RowsKept

(* Rows are written under the header of the schema unless a foreign file   *)
(* appeared after the last check, or the reading ended early.              *)
THEOREM RowsAreUnderOwnHeader == Spec => RowsUnderOwnHeader
<1>1. ASSUME CsvInv, [Next]_csvVars, NEW p \in Processes,
             pc[p] = "move", pc'[p] = "succeeded", ~swapped[p], p \notin short
      PROVE  file'.header = "ours"
  <2>1. file' = contents[p]
    BY <1>1, SucceedsByMove
  <2>2. QED
    BY <1>1, <2>1 DEF CsvInv, PreparedInv, Prepared
<1>2. CsvInv /\ [Next]_csvVars =>
        [\A p \in Processes :
           pc[p] = "move" /\ pc'[p] = "succeeded" /\ ~swapped[p] /\ p \notin short =>
             file'.header = "ours"]_csvVars
  BY <1>1
<1>3. QED
  BY CsvInvHolds, <1>2, PTL DEF Spec, RowsUnderOwnHeader

-----------------------------------------------------------------------------
(* Sessions of the dashboard.                                              *)

Sessions == {"idle", "launch", "wait", "look", "open", "record", "flush", "load", "returned"}
SidecarLine == [run : Ids \cup {"run_id"}, by : Processes \cup {"cold_start_cli_ms"}]

DashType ==
  /\ mode = [p \in Processes |-> "append"]
  /\ session \in [Processes -> Sessions]
  /\ before \in [Processes -> SUBSET Ids]
  /\ newRuns \in [Processes -> SUBSET Ids]
  /\ disturbed \in [Processes -> BOOLEAN]
  /\ sidecar.lines \in Seq(SidecarLine)
  /\ sidecar = [exists |-> sidecar.exists, lines |-> sidecar.lines]

(* What a session has seen of its own process and of its new runs.         *)
ProgressInv(p) ==
  /\ session[p] \in {"idle", "launch"} => pc[p] = "idle"
  /\ session[p] = "look" \/ Succeeded(p) => pc[p] = "succeeded"
  /\ session[p] # "idle" => p \notin before[p]
  /\ IsFiniteSet(newRuns[p])

(* The CSV of a session that is not disturbed holds what was there before, *)
(* and, once its process has moved it into place, the session's own run as *)
(* well, if the process could read all of it.                              *)
UndisturbedInv(p) ==
  session[p] # "idle" /\ ~disturbed[p] =>
    /\ pc[p] # "succeeded" => before[p] = Runs(file)
    /\ pc[p] \in {"measure", "revalidate", "inspect", "read"} /\ Exists =>
         file.header = "ours"
    /\ pc[p] \in Prepared /\ p \notin short =>
         contents[p].header = "ours" /\ Runs(contents[p]) = before[p] \cup {p}
    /\ pc[p] = "succeeded" /\ p \notin short =>
         file.header = "ours" /\ Runs(file) = before[p] \cup {p}
    /\ Succeeded(p) /\ p \notin short => newRuns[p] = {p}

(* Whoever recorded a line has done so, and for another run only when      *)
(* disturbed, or when its CLI could not read all of the CSV.               *)
SidecarInv ==
  \A k \in DOMAIN sidecar.lines :
    LET l == sidecar.lines[k]
    IN  \/ l = Header
        \/ /\ l.by \in Processes /\ session[l.by] \in {"load", "returned"}
           /\ l.run # l.by => disturbed[l.by] \/ l.by \in short

DashInv ==
  CsvInv /\ DashType /\ SidecarInv /\ \A p \in Processes : ProgressInv(p) /\ UndisturbedInv(p)

(* The runs in a file are finitely many.                                   *)
LEMMA RunsFinite ==
  ASSUME NEW f \in Content
  PROVE  IsFiniteSet(Runs(f)) /\ Runs(f) \subseteq Ids
<1>1. f.runs \in Seq(Ids)
  BY DEF Content
<1> DEFINE s == f.runs
<1>2. s \in [1 .. Len(s) -> Ids] /\ Len(s) \in Nat /\ DOMAIN s = 1 .. Len(s)
  BY <1>1
<1>3. Runs(f) = {s[k] : k \in 1 .. Len(s)}
  BY <1>2 DEF Runs
<1> HIDE DEF s
<1>4. s \in Surjection(1 .. Len(s), Runs(f))
  BY <1>2, <1>3 DEF Surjection
<1>5. ExistsSurjection(1 .. Len(s), Runs(f))
  BY <1>4 DEF ExistsSurjection
<1>6. QED
  BY <1>2, <1>3, <1>5, FS_NatSurjection

(* SetToSeq lists the elements of a finite set.                            *)
LEMMA ListOfSet ==
  ASSUME NEW S, IsFiniteSet(S)
  PROVE  Cardinality(S) \in Nat /\ SetToSeq(S) \in [1 .. Cardinality(S) -> S]
<1>1. Cardinality(S) \in Nat /\ ExistsBijection(1 .. Cardinality(S), S)
  BY FS_CardinalityType
<1>2. PICK f \in [1 .. Cardinality(S) -> S] : IsInjective(f)
  BY <1>1 DEF ExistsBijection, Bijection, Injection, IsInjective
<1>3. QED
  BY <1>1, <1>2 DEF SetToSeq

(* A function on 1 .. n is a sequence of length n.                         *)
LEMMA FunctionIsSeq ==
  ASSUME NEW S, NEW n \in Nat, NEW f \in [1 .. n -> S]
  PROVE  f \in Seq(S) /\ Len(f) = n
OBVIOUS

(* What reading the file may give.                                         *)
LEMMA ReadableRuns ==
  ASSUME TypeInv, FileInv, NEW runs \in RunIds
  PROVE  /\ runs \subseteq Ids /\ IsFiniteSet(runs)
         /\ \A p \in Processes : p \in runs => pc[p] = "succeeded"
         /\ file.header = "ours" => runs \in {Runs(file), {}}
<1>1. file.header \in Headers /\ IsFiniteSet(Runs(file)) /\ Runs(file) \subseteq Ids
  BY RunsFinite DEF TypeInv, Content
<1>2. runs \in {Runs(file), {"garbled"}, {}} /\ (file.header = "ours" => runs \in {Runs(file), {}})
  BY <1>1 DEF RunIds, Headers
<1>3. IsFiniteSet({}) /\ IsFiniteSet({"garbled"})
  BY FS_EmptySet, FS_Singleton
<1>4. \A p \in Processes : p \in Runs(file) => pc[p] = "succeeded"
  BY DEF FileInv
<1>5. QED
  BY <1>1, <1>2, <1>3, <1>4, ProcessesAssumption DEF Ids

(* An entry of three sequences, one behind the other, is one of theirs.    *)
LEMMA EntryOfThree ==
  ASSUME NEW S, NEW a \in Seq(S), NEW b \in Seq(S), NEW c \in Seq(S),
         NEW k \in 1 .. Len((a \o b) \o c)
  PROVE  \/ k \in 1 .. Len(a) /\ ((a \o b) \o c)[k] = a[k]
         \/ \E j \in 1 .. Len(b) : ((a \o b) \o c)[k] = b[j]
         \/ \E j \in 1 .. Len(c) : ((a \o b) \o c)[k] = c[j]
<1> DEFINE ab == a \o b
           m == Len(a)
           n == Len(b)
<1>1. /\ ab \in Seq(S) /\ Len(ab) = m + n
      /\ \A j \in 1 .. m + n : ab[j] = IF j <= m THEN a[j] ELSE b[j - m]
  <2>1. a \in Seq(S) /\ b \in Seq(S)
    OBVIOUS
  <2>2. ab \in Seq(S) /\ Len(ab) = m + n
    BY <2>1
  <2>3. \A j \in 1 .. m + n : ab[j] = IF j <= m THEN a[j] ELSE b[j - m]
    BY <2>1, ConcatProperties, Zenon
  <2>4. QED
    BY <2>2, <2>3, Zenon
<1> DEFINE all == (a \o b) \o c
<1>2. /\ Len(all) = Len(ab) + Len(c)
      /\ \A j \in 1 .. Len(ab) + Len(c) :
           all[j] = IF j <= Len(ab) THEN ab[j] ELSE c[j - Len(ab)]
  <2>1. ab \in Seq(S) /\ c \in Seq(S)
    BY <1>1
  <2> HIDE DEF ab
  <2>2. all = ab \o c
    BY DEF ab
  <2> HIDE DEF all
  <2>3. Len(all) = Len(ab) + Len(c)
    BY <2>1, <2>2
  <2>4. \A j \in 1 .. Len(ab) + Len(c) :
          all[j] = IF j <= Len(ab) THEN ab[j] ELSE c[j - Len(ab)]
    BY <2>1, <2>2, ConcatProperties, Zenon
  <2>5. QED
    BY <2>3, <2>4, Zenon
<1>3. m \in Nat /\ n \in Nat /\ Len(c) \in Nat /\ k \in 1 .. Len(all)
  OBVIOUS
<1> HIDE DEF all, ab, m, n
<1>4. CASE k \in 1 .. m
  <2>1. all[k] = a[k]
    BY <1>1, <1>2, <1>3, <1>4
  <2>2. QED
    BY <1>4, <2>1 DEF all, m
<1>5. CASE k \in m + 1 .. m + n
  <2>1. all[k] = b[k - m] /\ k - m \in 1 .. n
    BY <1>1, <1>2, <1>3, <1>5
  <2>2. QED
    BY <2>1 DEF all, n
<1>6. CASE k \in Len(ab) + 1 .. Len(ab) + Len(c)
  <2>1. all[k] = c[k - Len(ab)] /\ k - Len(ab) \in 1 .. Len(c)
    BY <1>1, <1>2, <1>3, <1>6
  <2>2. QED
    BY <2>1 DEF all
<1>7. QED
  BY <1>1, <1>2, <1>3, <1>4, <1>5, <1>6

(* Every step of the dashboard is one of the CLI's processes or changes    *)
(* nothing of theirs.                                                      *)
LEMMA DashImpliesCsv ==
  ASSUME [DashNext]_vars
  PROVE  [Next]_csvVars
BY DEF DashNext, vars, Session, Process, ReadBefore, Launch, LaunchFails, Wait, Look,
       InspectSidecar, OpenSidecar, FlushSidecar, RecordFails, Load, Next

(* No session has read anything at the start.                              *)
LEMMA DashInvInit == DashInit => DashInv
<1> SUFFICES ASSUME DashInit PROVE DashInv
  OBVIOUS
<1>1. CsvInv
  BY CsvInvInit DEF DashInit
<1>2. DashType
  BY DEF DashInit, DashType, Sessions
<1>3. SidecarInv
  BY DEF DashInit, SidecarInv
<1>4. ASSUME NEW p \in Processes
      PROVE  ProgressInv(p) /\ UndisturbedInv(p)
  <2>1. newRuns[p] = {} /\ session[p] = "idle" /\ pc[p] = "idle"
    BY DEF DashInit, Init
  <2>2. QED
    BY <2>1, FS_EmptySet DEF ProgressInv, UndisturbedInv, Succeeded
<1>5. QED
  BY <1>1, <1>2, <1>3, <1>4 DEF DashInv

(* A session that does not move and whose process does not either keeps    *)
(* what it knows, unless the file changes, and that disturbs it.           *)
LEMMA Untouched ==
  ASSUME DashInv, NEW q \in Processes,
         UNCHANGED <<session[q], before[q], newRuns[q], pc[q], contents[q]>>,
         disturbed[q] => disturbed'[q], q \in short => q \in short',
         file' = file \/ disturbed'[q]
  PROVE  ProgressInv(q)' /\ UndisturbedInv(q)'
<1>1. ProgressInv(q) /\ UndisturbedInv(q)
  BY DEF DashInv
<1>2. ProgressInv(q)'
  BY <1>1 DEF ProgressInv, Succeeded
<1>3. CASE disturbed'[q]
  BY <1>3, <1>2 DEF UndisturbedInv
<1>4. CASE file' = file /\ ~disturbed'[q]
  <2>1. Runs(contents[q])' = Runs(contents[q]) /\ Exists' = Exists
        /\ Runs(file)' = Runs(file)
    BY <1>4 DEF Runs, Exists, Absent
  <2>2. QED
    BY <1>1, <1>2, <1>4, <2>1 DEF UndisturbedInv, Succeeded
<1>5. QED
  BY <1>3, <1>4

(* What sessions recorded stays so while they stay where they are.         *)
LEMMA SidecarKept ==
  ASSUME DashInv, sidecar'.lines = sidecar.lines, short \subseteq short',
         \A q \in Processes : session[q] \in {"load", "returned"} =>
           session'[q] \in {"load", "returned"} /\ (disturbed[q] => disturbed'[q])
  PROVE  SidecarInv'
BY DEF DashInv, SidecarInv

(* A step of a process, seen by its own session.                           *)
LEMMA OwnStep ==
  ASSUME DashInv, DashType', NEW p \in Processes, Work(p),
         UNCHANGED <<session, before, newRuns, disturbed[p]>>
  PROVE  ProgressInv(p)' /\ UndisturbedInv(p)'
<1>1. ProgressInv(p) /\ UndisturbedInv(p) /\ PreparedInv(p) /\ CheckedInv(p) /\ TypeInv /\ FileInv
  BY DEF DashInv, CsvInv
<1>2. pc[p] \notin {"idle", "succeeded"} /\ mode[p] = "append"
  BY DEF DashInv, DashType, Work, Validate, Measure, Revalidate, Inspect, Read,
         CreateTemporary, WriteTemporary, Move, DiskFails
<1>3. session[p] \in Sessions \ {"idle", "launch", "look"} /\ ~Succeeded(p)
  BY <1>1, <1>2 DEF ProgressInv, DashInv, DashType
<1>4. ProgressInv(p)'
  BY <1>1, <1>3 DEF ProgressInv, Succeeded
<1>5. SUFFICES ASSUME ~disturbed[p]
               PROVE  UndisturbedInv(p)'
  BY <1>4 DEF UndisturbedInv
<1>6. ~Succeeded(p)'
  BY <1>3 DEF Succeeded
<1>7. /\ before[p] = Runs(file)
      /\ pc[p] \in {"measure", "revalidate", "inspect", "read"} /\ Exists => file.header = "ours"
      /\ pc[p] \in Prepared /\ p \notin short =>
           contents[p].header = "ours" /\ Runs(contents[p]) = before[p] \cup {p}
  BY <1>1, <1>2, <1>3, <1>5 DEF UndisturbedInv
<1>8. ASSUME file' = file
      PROVE  Exists' = Exists /\ Runs(file)' = Runs(file)
  BY <1>8 DEF Exists, Runs, Absent
<1>9. ASSUME contents' = contents
      PROVE  Runs(contents[p])' = Runs(contents[p])
  BY <1>9 DEF Runs
<1>10. CASE Validate(p) \/ Measure(p) \/ Revalidate(p)
  <2>1. /\ file' = file /\ contents' = contents /\ short' = short
        /\ \/ pc'[p] = "failed"
           \/ /\ pc'[p] \in {"measure", "revalidate", "inspect"}
              /\ Exists => file.header = "ours"
    BY <1>1, <1>2, <1>7, <1>10 DEF TypeInv, Validate, Measure, Revalidate, Goto, ExistingIsUsable,
                                        history
  <2>2. QED
    BY <2>1, <1>6, <1>7, <1>8 DEF UndisturbedInv, Prepared
<1>11. CASE Inspect(p)
  <2>1. CASE Exists
    <3>1. file' = file /\ contents' = contents /\ pc[p] = "inspect" /\ pc'[p] = "read"
      BY <1>1, <1>2, <1>11, <2>1 DEF TypeInv, Inspect, Goto
    <3>2. QED
      BY <3>1, <1>6, <1>7, <1>8 DEF UndisturbedInv, Prepared
  <2>2. CASE ~Exists
    <3> DEFINE c == Csv("ours", <<p>>, TRUE)
    <3>1. file' = file /\ contents'[p] = c /\ pc'[p] = "create"
      BY <1>1, <1>2, <1>11, <2>2 DEF TypeInv, Inspect, Goto
    <3>2. Runs(c) = {p} /\ c.header = "ours"
      BY RunsOfOne DEF Csv
    <3> HIDE DEF c
    <3>3. before[p] = {}
      BY <1>7, <2>2 DEF Runs, Exists, Absent
    <3>4. Runs(contents[p])' = Runs(c)
      BY <3>1 DEF Runs
    <3>5. QED
      BY <3>1, <3>2, <3>3, <3>4, <1>6, <1>7, <1>8 DEF UndisturbedInv
  <2>3. QED
    BY <2>1, <2>2
<1>12. CASE Read(p)
  <2>1. CASE Exists
    <3>1. PICK part \in {file} \cup Cut(file) :
            /\ contents' = [contents EXCEPT ![p] =
                 Csv(part.header, Append(part.runs, p), part.whole)]
            /\ short' = IF part = file THEN short ELSE short \cup {p}
      BY <1>12, <2>1 DEF Read, OldAndNewRows
    <3>2. file' = file /\ pc[p] = "read" /\ pc'[p] = "create"
      BY <1>1, <1>12, <2>1 DEF TypeInv, Read, Goto
    <3>3. file.header = "ours" /\ file \in Content /\ file.whole \in BOOLEAN /\ p \in Ids
      BY <1>1, <1>7, <2>1, <3>2 DEF TypeInv, Ids, Content
    <3>4. CASE part = file
      <4> DEFINE c == Csv(file.header, Append(file.runs, p), file.whole)
      <4>1. contents'[p] = c
        BY <1>1, <3>1, <3>4 DEF TypeInv
      <4>2. Runs(c) = Runs(file) \cup {p} /\ c.header = "ours"
        BY <3>3, RunsOfAppend DEF Csv
      <4> HIDE DEF c
      <4>3. Runs(contents[p])' = Runs(c)
        BY <4>1 DEF Runs
      <4>4. QED
        BY <3>2, <4>1, <4>2, <4>3, <1>6, <1>7, <1>8 DEF UndisturbedInv
    <3>5. CASE part # file
      <4>1. p \in short'
        BY <3>1, <3>5
      <4>2. QED
        BY <3>2, <4>1, <1>6, <1>7, <1>8 DEF UndisturbedInv
    <3>6. QED
      BY <3>4, <3>5
  <2>2. CASE ~Exists
    <3>1. file' = file /\ contents' = contents /\ pc'[p] = "failed"
      BY <1>1, <1>12, <2>2 DEF TypeInv, Read, Goto
    <3>2. QED
      BY <3>1, <1>6, <1>7, <1>8 DEF UndisturbedInv, Prepared
  <2>3. QED
    BY <2>1, <2>2
<1>13. CASE CreateTemporary(p) \/ WriteTemporary(p) \/ DiskFails(p)
  <2>1. /\ file' = file /\ contents' = contents /\ short' = short
        /\ pc'[p] = "failed" \/ (pc[p] \in Prepared /\ pc'[p] \in Prepared)
    BY <1>1, <1>13 DEF TypeInv, CreateTemporary, WriteTemporary, DiskFails, Goto, Prepared,
                        history
  <2>2. QED
    BY <2>1, <1>6, <1>7, <1>8, <1>9 DEF UndisturbedInv, Prepared
<1>14. CASE Move(p)
  <2>1. pc[p] = "move" /\ pc'[p] = "succeeded" /\ file' = contents[p] /\ short' = short
    BY <1>1, <1>14 DEF TypeInv, CheckedInv, Move, Replace, Goto
  <2>2. Runs(file)' = Runs(contents[p])
    BY <2>1 DEF Runs
  <2>3. QED
    BY <2>1, <2>2, <1>6, <1>7 DEF UndisturbedInv, Prepared
<1>15. QED
  BY <1>10, <1>11, <1>12, <1>13, <1>14 DEF Work

(* Every step of the dashboard keeps the types.                            *)
LEMMA DashTypeNext ==
  ASSUME DashInv, [DashNext]_vars
  PROVE  DashType'
<1> USE DEF DashInv, DashType, Sessions
<1>1. ASSUME NEW p \in Processes, ReadBefore(p)
      PROVE  DashType'
  <2>1. PICK runs \in RunIds :
          /\ before' = [before EXCEPT ![p] = runs]
          /\ disturbed' = [disturbed EXCEPT ![p] = runs # Runs(file)]
    BY <1>1 DEF ReadBefore
  <2>2. runs \subseteq Ids
    BY ReadableRuns DEF CsvInv
  <2>3. QED
    BY <1>1, <2>1, <2>2 DEF ReadBefore, At, csvVars
<1>2. ASSUME NEW p \in Processes,
             \/ Launch(p) \/ LaunchFails(p) \/ InspectSidecar(p) \/ RecordFails(p) \/ Load(p)
             \/ Wait(p)
      PROVE  DashType'
  <2>1. UNCHANGED <<mode, before, newRuns, disturbed, sidecar>>
    BY <1>2 DEF Launch, LaunchFails, InspectSidecar, RecordFails, Load, Wait, Start, csvVars
  <2>2. \E s \in Sessions : session' = [session EXCEPT ![p] = s]
    BY <1>2 DEF Launch, LaunchFails, InspectSidecar, RecordFails, Load, Wait, At
  <2>3. QED
    BY <2>1, <2>2
<1>3. ASSUME NEW p \in Processes, Look(p)
      PROVE  DashType'
  <2>1. PICK runs \in RunIds :
          LET new == runs \ before[p]
          IN  IF ~Exists \/ new = {}
                THEN At(p, "look", "returned") /\ Fails(p) /\ UNCHANGED newRuns
                ELSE /\ At(p, "look", "open") /\ newRuns' = [newRuns EXCEPT ![p] = new]
                     /\ status' = [status EXCEPT ![p] = "complete"]
    BY <1>3 DEF Look, NewRunIds
  <2>2. runs \ before[p] \subseteq Ids
    BY ReadableRuns DEF CsvInv
  <2>3. QED
    BY <1>3, <2>1, <2>2 DEF Look, At, csvVars
<1>4. ASSUME NEW p \in Processes, OpenSidecar(p)
      PROVE  DashType'
  <2>1. /\ sidecar'.lines = sidecar.lines
        /\ sidecar' = [exists |-> sidecar'.exists, lines |-> sidecar'.lines]
    <3>1. sidecar' = [exists |-> TRUE, lines |-> sidecar.lines]
      BY <1>4 DEF OpenSidecar
    <3>2. QED
      BY <3>1
  <2>2. QED
    BY <1>4, <2>1 DEF OpenSidecar, At, csvVars
<1>5. ASSUME NEW p \in Processes, FlushSidecar(p)
      PROVE  DashType'
  <2> DEFINE new == SetToSeq(newRuns[p])
             head == IF needsHeader[p] THEN <<Header>> ELSE <<>>
             lines == [k \in DOMAIN new |-> Line(new[k], p)]
             all == sidecar.lines \o head \o lines
  <2>1. sidecar' = [exists |-> sidecar.exists, lines |-> all]
    BY <1>5 DEF FlushSidecar
  <2>2. lines \in Seq(SidecarLine)
    <3>1. Cardinality(newRuns[p]) \in Nat /\ new \in [1 .. Cardinality(newRuns[p]) -> newRuns[p]]
      BY ListOfSet DEF ProgressInv
    <3> HIDE DEF new
    <3>2. \A k \in DOMAIN new : Line(new[k], p) \in SidecarLine
      BY <3>1 DEF Line, SidecarLine
    <3>3. lines \in [1 .. Cardinality(newRuns[p]) -> SidecarLine]
      BY <3>1, <3>2
    <3> HIDE DEF lines
    <3>4. QED
      BY <3>1, <3>3, FunctionIsSeq
  <2>3. head \in Seq(SidecarLine)
    <3>1. Header \in SidecarLine
      BY DEF Header, SidecarLine
    <3>2. <<Header>> \in Seq(SidecarLine) /\ <<>> \in Seq(SidecarLine)
      BY <3>1
    <3>3. QED
      BY <3>2
  <2> HIDE DEF head, lines
  <2>4. all \in Seq(SidecarLine)
    BY <2>2, <2>3
  <2> HIDE DEF all
  <2>5. /\ sidecar'.lines \in Seq(SidecarLine)
        /\ sidecar' = [exists |-> sidecar'.exists, lines |-> sidecar'.lines]
    BY <2>1, <2>4
  <2>6. QED
    BY <1>5, <2>5 DEF FlushSidecar, At, csvVars
<1>6. ASSUME NEW p \in Processes,
             Process(p) \/ (Crash(p) /\ UNCHANGED <<sessionVars, sidecar, disturbed>>)
      PROVE  DashType'
  <2>1. mode' = mode
    BY <1>6 DEF Process, Crash, Work, Validate, Measure, Revalidate, Inspect, Read,
                CreateTemporary, WriteTemporary, Move, DiskFails
  <2>2. disturbed' \in [Processes -> BOOLEAN]
    BY <1>6 DEF Process, Mark
  <2>3. QED
    BY <1>6, <2>1, <2>2 DEF Process, sessionVars
<1>7. ASSUME Meddle /\ Mark(Processes) /\ UNCHANGED <<sessionVars, sidecar>>
      PROVE  DashType'
  BY <1>7 DEF Meddle, Mark, sessionVars
<1>8. CASE UNCHANGED vars
  BY <1>8 DEF vars, csvVars, sessionVars
<1>9. QED
  BY <1>1, <1>2, <1>3, <1>4, <1>5, <1>6, <1>7, <1>8 DEF DashNext, Session

(* The runs a session finds new in a file that is only its own doing.      *)
LEMMA LookStep ==
  ASSUME DashInv, DashType', NEW p \in Processes, Look(p)
  PROVE  ProgressInv(p)' /\ UndisturbedInv(p)' /\ SidecarInv'
<1>1. ProgressInv(p) /\ UndisturbedInv(p) /\ pc[p] = "succeeded" /\ p \notin before[p]
  BY DEF DashInv, ProgressInv, Look
<1>2. UNCHANGED <<file, contents, pc, before, disturbed, sidecar, short>>
  BY DEF Look, csvVars, history
<1>3. \A q \in Processes \ {p} : session'[q] = session[q]
  BY DEF DashInv, DashType, Look, At
<1>4. SidecarInv'
  <2>1. session[p] = "look"
    BY DEF Look
  <2>2. \A q \in Processes : session[q] \in {"load", "returned"} => session'[q] = session[q]
    BY <1>3, <2>1
  <2>3. QED
    BY <1>2, <2>2, SidecarKept
<1>5. Runs(file)' = Runs(file)
  BY <1>2 DEF Runs
<1>6. PICK runs \in RunIds :
        IF ~Exists \/ runs \ before[p] = {}
          THEN At(p, "look", "returned") /\ UNCHANGED newRuns
          ELSE At(p, "look", "open") /\ newRuns' = [newRuns EXCEPT ![p] = runs \ before[p]]
  BY DEF Look, NewRunIds
<1>7. CASE ~Exists \/ runs \ before[p] = {}
  <2>1. session'[p] = "returned" /\ newRuns' = newRuns
    BY <1>6, <1>7 DEF At, DashInv, DashType
  <2>2. QED
    BY <1>1, <1>2, <1>4, <1>5, <2>1 DEF ProgressInv, UndisturbedInv, Succeeded, Prepared, Look
<1>8. CASE ~(~Exists \/ runs \ before[p] = {})
  <2>1. /\ session'[p] = "open" /\ newRuns'[p] = runs \ before[p] /\ runs \ before[p] # {}
        /\ session[p] = "look"
    BY <1>6, <1>8 DEF At, DashInv, DashType
  <2>2. IsFiniteSet(runs) /\ (file.header = "ours" => runs \in {Runs(file), {}})
    BY ReadableRuns DEF DashInv, CsvInv
  <2>3. ProgressInv(p)'
    <3>1. runs \ before[p] \in SUBSET runs
      OBVIOUS
    <3>2. IsFiniteSet(newRuns'[p])
      BY <2>1, <2>2, <3>1, FS_Subset
    <3>3. QED
      BY <1>1, <1>2, <2>1, <3>2 DEF ProgressInv
  <2>4. ~disturbed[p] /\ p \notin short => newRuns'[p] = {p}
    BY <1>1, <2>1, <2>2 DEF UndisturbedInv
  <2>5. UndisturbedInv(p)'
    BY <1>1, <1>2, <1>5, <2>1, <2>4 DEF UndisturbedInv, Prepared, Look
  <2>6. QED
    BY <1>4, <2>3, <2>5
<1>9. QED
  BY <1>7, <1>8

(* What a session records is a line for each of its new runs.              *)
LEMMA FlushStep ==
  ASSUME DashInv, DashType', NEW p \in Processes, FlushSidecar(p)
  PROVE  ProgressInv(p)' /\ UndisturbedInv(p)' /\ SidecarInv'
<1>1. ProgressInv(p) /\ UndisturbedInv(p) /\ session[p] = "flush"
  BY DEF DashInv, FlushSidecar, At
<1>2. /\ UNCHANGED <<file, contents, pc, before, newRuns, disturbed, short>>
      /\ session' = [session EXCEPT ![p] = "load"]
  BY DEF FlushSidecar, At, csvVars, history
<1>3. session'[p] = "load" /\ \A q \in Processes \ {p} : session'[q] = session[q]
  BY <1>2 DEF DashInv, DashType
<1>4. ProgressInv(p)' /\ UndisturbedInv(p)'
  <2>1. Succeeded(p) /\ Succeeded(p)'
    BY <1>1, <1>3 DEF Succeeded
  <2>2. Runs(contents[p])' = Runs(contents[p]) /\ Exists' = Exists
        /\ Runs(file)' = Runs(file)
    BY <1>2 DEF Runs, Exists, Absent
  <2>3. QED
    BY <1>1, <1>2, <1>3, <2>1, <2>2 DEF ProgressInv, UndisturbedInv
<1>5. SidecarInv'
  <2> DEFINE new == SetToSeq(newRuns[p])
             head == IF needsHeader[p] THEN <<Header>> ELSE <<>>
             lines == [k \in DOMAIN new |-> Line(new[k], p)]
             n == Cardinality(newRuns[p])
  <2>1. sidecar'.lines = (sidecar.lines \o head) \o lines
    <3>1. sidecar' = [exists |-> sidecar.exists, lines |-> sidecar.lines \o head \o lines]
      BY DEF FlushSidecar, DashInv, DashType
    <3>2. QED
      BY <3>1
  <2>2. n \in Nat /\ new \in [1 .. n -> newRuns[p]]
    BY <1>1, ListOfSet DEF ProgressInv
  <2>3. ASSUME NEW k \in 1 .. n
        PROVE  /\ lines[k].by = p /\ lines[k] \in SidecarLine
               /\ lines[k].run # p => disturbed[p] \/ p \in short
    <3>1. lines[k] = [run |-> new[k], by |-> p] /\ new[k] \in newRuns[p]
      BY <2>2 DEF Line
    <3>2. ~disturbed[p] /\ p \notin short => newRuns[p] = {p}
      BY <1>1 DEF UndisturbedInv, Succeeded
    <3>3. newRuns[p] \subseteq Ids
      BY DEF DashInv, DashType
    <3>4. QED
      BY <3>1, <3>2, <3>3 DEF SidecarLine
  <2>4. lines \in [1 .. n -> SidecarLine]
    BY <2>2, <2>3
  <2> HIDE DEF lines, new, n
  <2>5. lines \in Seq(SidecarLine) /\ Len(lines) = n
    BY <2>2, <2>4, FunctionIsSeq
  <2>6. head \in Seq(SidecarLine) /\ \A k \in 1 .. Len(head) : head[k] = Header
    <3>1. Header \in SidecarLine
      BY DEF Header, SidecarLine
    <3>2. CASE needsHeader[p]
      <4>1. head = <<Header>>
        BY <3>2
      <4>2. QED
        BY <3>1, <4>1
    <3>3. CASE ~needsHeader[p]
      <4>1. head = <<>>
        BY <3>3
      <4>2. QED
        BY <4>1
    <3>4. QED
      BY <3>2, <3>3
  <2> HIDE DEF head
  <2> DEFINE old == sidecar.lines
  <2>7. old \in Seq(SidecarLine)
    BY DEF DashInv, DashType
  <2> DEFINE all == (old \o head) \o lines
  <2>8. SUFFICES ASSUME NEW k \in 1 .. Len(all)
                 PROVE  \/ all[k] = Header
                        \/ /\ all[k].by \in Processes
                           /\ session'[all[k].by] \in {"load", "returned"}
                           /\ all[k].run # all[k].by =>
                                disturbed'[all[k].by] \/ all[k].by \in short'
    <3> HIDE DEF old
    <3>1. all \in Seq(SidecarLine)
      BY <2>5, <2>6, <2>7
    <3> HIDE DEF all
    <3>2. DOMAIN all = 1 .. Len(all)
      BY <3>1
    <3>3. sidecar'.lines = all
      BY <2>1 DEF all, old
    <3>4. QED
      BY <3>2, <3>3 DEF SidecarInv
  <2>9. \/ k \in 1 .. Len(old) /\ all[k] = old[k]
        \/ \E j \in 1 .. Len(head) : all[k] = head[j]
        \/ \E j \in 1 .. n : all[k] = lines[j]
    <3> HIDE DEF old
    <3>1. QED
      BY <2>5, <2>6, <2>7, EntryOfThree
  <2> HIDE DEF all
  <2>10. CASE k \in 1 .. Len(old) /\ all[k] = old[k]
    <3>1. k \in DOMAIN sidecar.lines
      BY <2>7, <2>10
    <3>2. \/ old[k] = Header
          \/ /\ old[k].by \in Processes /\ session[old[k].by] \in {"load", "returned"}
             /\ old[k].run # old[k].by => disturbed[old[k].by] \/ old[k].by \in short
      BY <3>1 DEF DashInv, SidecarInv
    <3>3. QED
      BY <1>1, <1>2, <1>3, <2>10, <3>2
  <2>11. CASE \E j \in 1 .. n : all[k] = lines[j]
    BY <1>2, <1>3, <2>3, <2>11
  <2>12. QED
    BY <2>6, <2>9, <2>10, <2>11
<1>6. QED
  BY <1>4, <1>5

(* The other steps of a session, seen by itself.                           *)
LEMMA SessionStep ==
  ASSUME DashInv, DashType', NEW p \in Processes,
         \/ ReadBefore(p) \/ Launch(p) \/ LaunchFails(p) \/ Wait(p) \/ InspectSidecar(p)
         \/ OpenSidecar(p) \/ RecordFails(p) \/ Load(p)
  PROVE  ProgressInv(p)' /\ UndisturbedInv(p)' /\ SidecarInv'
<1>1. ProgressInv(p) /\ UndisturbedInv(p) /\ TypeInv /\ FileInv
  BY DEF DashInv, CsvInv
<1>2. UNCHANGED <<file, contents, newRuns, short>> /\ sidecar'.lines = sidecar.lines
  <2>1. OpenSidecar(p) => sidecar'.lines = sidecar.lines
    BY DEF OpenSidecar, DashInv, DashType
  <2>2. QED
    BY <2>1 DEF ReadBefore, Launch, Start, LaunchFails, Wait, InspectSidecar, OpenSidecar,
                RecordFails, Load, csvVars, history
<1>3. Runs(contents[p])' = Runs(contents[p]) /\ Exists' = Exists
      /\ Runs(file)' = Runs(file)
  BY <1>2 DEF Runs, Exists, Absent
<1>4. SidecarInv'
  <2>1. /\ session[p] \in {"load", "returned"} => session'[p] = "returned"
        /\ session[p] # "idle" => disturbed' = disturbed
        /\ \A q \in Processes \ {p} : session'[q] = session[q] /\ disturbed'[q] = disturbed[q]
    BY DEF DashInv, DashType, ReadBefore, Launch, LaunchFails, Wait, InspectSidecar,
           OpenSidecar, RecordFails, Load, At
  <2>2. QED
    BY <1>2, <2>1, SidecarKept
<1>5. CASE ReadBefore(p)
  <2>1. PICK runs \in RunIds :
          /\ before' = [before EXCEPT ![p] = runs]
          /\ disturbed' = [disturbed EXCEPT ![p] = runs # Runs(file)]
    BY <1>5 DEF ReadBefore
  <2>2. /\ before'[p] = runs /\ disturbed'[p] = (runs # Runs(file))
        /\ session'[p] = "launch" /\ pc[p] = "idle" /\ pc' = pc
    BY <1>1, <1>5, <2>1 DEF DashInv, DashType, ReadBefore, At, ProgressInv, csvVars
  <2>3. p \notin runs
    BY <1>1, <2>2, ReadableRuns
  <2>4. QED
    BY <1>1, <1>2, <1>3, <1>4, <2>2, <2>3
       DEF ProgressInv, UndisturbedInv, Succeeded, Prepared
<1>6. CASE ~ReadBefore(p)
  <2>1. UNCHANGED <<before, disturbed>> /\ session[p] # "idle" /\ session'[p] # "idle"
    BY <1>6 DEF DashInv, DashType, Launch, LaunchFails, Wait, InspectSidecar, OpenSidecar,
                RecordFails, Load, At
  <2>2. CASE Launch(p)
    <3>1. pc[p] = "idle" /\ pc'[p] = "validate" /\ session'[p] = "wait"
      BY <2>2 DEF DashInv, CsvInv, DashType, TypeInv, Launch, Start, Goto, At
    <3>2. QED
      BY <1>1, <1>2, <1>3, <1>4, <2>1, <3>1
         DEF ProgressInv, UndisturbedInv, Succeeded, Prepared
  <2>3. CASE ~Launch(p)
    <3>1. /\ pc' = pc
          /\ session'[p] = "look" => pc[p] = "succeeded"
          /\ Succeeded(p)' => Succeeded(p)
          /\ session'[p] # "launch"
      BY <1>6, <2>3 DEF DashInv, DashType, LaunchFails, Wait, InspectSidecar, OpenSidecar,
                RecordFails, Load, At, csvVars, Succeeded
    <3>2. QED
      BY <1>1, <1>2, <1>3, <1>4, <2>1, <3>1 DEF ProgressInv, UndisturbedInv
  <2>4. QED
    BY <2>2, <2>3
<1>7. QED
  BY <1>5, <1>6

(* Every step of the dashboard keeps what its sessions know of the file.   *)
LEMMA DashInvNext ==
  ASSUME DashInv, [DashNext]_vars
  PROVE  DashInv'
<1>1. CsvInv' /\ DashType'
  BY DashImpliesCsv, CsvInvNext, DashTypeNext DEF DashInv
<1>2. ASSUME NEW p \in Processes, Session(p)
      PROVE  SidecarInv' /\ \A q \in Processes : ProgressInv(q)' /\ UndisturbedInv(q)'
  <2>1. ProgressInv(p)' /\ UndisturbedInv(p)' /\ SidecarInv'
    BY <1>1, <1>2, SessionStep, LookStep, FlushStep DEF Session
  <2>2. ASSUME NEW q \in Processes, q # p
        PROVE  ProgressInv(q)' /\ UndisturbedInv(q)'
    <3>1. UNCHANGED <<file, contents, short>>
      BY <1>2 DEF history, Session, ReadBefore, Launch, Start, LaunchFails, Wait, Look, InspectSidecar,
                  OpenSidecar, FlushSidecar, RecordFails, Load, csvVars
    <3>2. UNCHANGED <<session[q], before[q], newRuns[q], pc[q], disturbed[q]>>
      BY <1>2, <2>2 DEF DashInv, CsvInv, DashType, TypeInv, Session, ReadBefore, Launch, Start,
           LaunchFails, Wait, Look, InspectSidecar, OpenSidecar, FlushSidecar, RecordFails, Load,
           csvVars, At, Goto
    <3>3. QED
      BY <3>1, <3>2, Untouched
  <2>3. QED
    BY <2>1, <2>2
<1>3. ASSUME NEW p \in Processes, Process(p)
      PROVE  SidecarInv' /\ \A q \in Processes : ProgressInv(q)' /\ UndisturbedInv(q)'
  <2>1. /\ UNCHANGED <<session, before, newRuns, sidecar>> /\ Work(p)
        /\ \A q \in Processes :
             disturbed'[q] = (disturbed[q] \/ (file' # file /\ q \in Processes \ {p}))
    BY <1>3 DEF Process, Mark, sessionVars
  <2>2. SidecarInv' /\ short \subseteq short'
    <3>1. short \subseteq short'
      <4>1. CASE Read(p)
        BY <4>1 DEF Read
      <4>2. CASE ~Read(p)
        BY <2>1, <4>2 DEF Work, Validate, Measure, Revalidate, Inspect, CreateTemporary,
                          WriteTemporary, Move, DiskFails, history
      <4>3. QED
        BY <4>1, <4>2
    <3>2. QED
      BY <2>1, <3>1, SidecarKept
  <2>3. disturbed'[p] = disturbed[p]
    BY <2>1 DEF DashInv, DashType
  <2>4. ProgressInv(p)' /\ UndisturbedInv(p)'
    BY <1>1, <2>1, <2>3, OwnStep
  <2>5. ASSUME NEW q \in Processes, q # p
        PROVE  ProgressInv(q)' /\ UndisturbedInv(q)'
    <3>1. UNCHANGED <<pc[q], contents[q]>>
      BY <2>1, <2>5 DEF DashInv, CsvInv, TypeInv, Work, Validate, Measure, Revalidate, Inspect,
           Read, CreateTemporary, WriteTemporary, Move, DiskFails, Goto
    <3>2. (disturbed[q] => disturbed'[q]) /\ (file' = file \/ disturbed'[q])
      BY <2>1, <2>5
    <3>3. QED
      BY <2>1, <2>2, <3>1, <3>2, Untouched
  <2>6. QED
    BY <2>2, <2>4, <2>5
<1>4. ASSUME NEW p \in Processes, Crash(p), UNCHANGED <<sessionVars, sidecar, disturbed>>
      PROVE  SidecarInv' /\ \A q \in Processes : ProgressInv(q)' /\ UndisturbedInv(q)'
  <2>1. UNCHANGED <<session, before, newRuns, sidecar, disturbed, file, contents, short>>
    BY <1>4 DEF sessionVars, Crash, history
  <2>2. SidecarInv'
    BY <2>1, SidecarKept
  <2>3. ASSUME NEW q \in Processes
        PROVE  ProgressInv(q)' /\ UndisturbedInv(q)'
    <3>1. CASE q # p
      <4>1. pc'[q] = pc[q]
        BY <1>4, <3>1 DEF DashInv, CsvInv, TypeInv, Crash, Goto
      <4>2. QED
        BY <2>1, <4>1, Untouched
    <3>2. CASE q = p
      <4>1. pc'[p] = "crashed" /\ pc[p] \notin {"idle", "succeeded"}
        BY <1>4 DEF DashInv, CsvInv, TypeInv, Crash, Goto, Running
      <4>2. ProgressInv(p) /\ UndisturbedInv(p)
        BY DEF DashInv
      <4>3. Runs(file)' = Runs(file)
        BY <2>1 DEF Runs
      <4>4. QED
        BY <2>1, <3>2, <4>1, <4>2, <4>3 DEF ProgressInv, UndisturbedInv, Succeeded, Prepared
    <3>3. QED
      BY <3>1, <3>2
  <2>4. QED
    BY <2>2, <2>3
<1>5. ASSUME Meddle, Mark(Processes), UNCHANGED <<sessionVars, sidecar>>
      PROVE  SidecarInv' /\ \A q \in Processes : ProgressInv(q)' /\ UndisturbedInv(q)'
  <2>1. /\ UNCHANGED <<session, before, newRuns, sidecar, pc, contents, short>>
        /\ \A q \in Processes : disturbed'[q] = (disturbed[q] \/ file' # file)
    BY <1>5 DEF sessionVars, Meddle, Mark
  <2>2. SidecarInv'
    BY <2>1, SidecarKept
  <2>3. ASSUME NEW q \in Processes
        PROVE  ProgressInv(q)' /\ UndisturbedInv(q)'
    BY <2>1, Untouched
  <2>4. QED
    BY <2>2, <2>3
<1>6. CASE UNCHANGED vars
  <2>1. UNCHANGED <<session, before, newRuns, sidecar, disturbed, pc, file, contents, short>>
    BY <1>6 DEF vars, csvVars, sessionVars, history
  <2>2. QED
    BY <1>1, <2>1, SidecarKept, Untouched DEF DashInv
<1>7. QED
  BY <1>1, <1>2, <1>3, <1>4, <1>5, <1>6 DEF DashNext, DashInv

(* A session that nobody disturbs, and whose CLI could read all of the     *)
(* result CSV, finds exactly its own run there, and does not record its    *)
(* duration for somebody else's.                                           *)
THEOREM NewRunsAreTheSessionsOwn == DashSpec => []NewRunsAreOwn
<1>1. DashInv /\ [DashNext]_vars => DashInv'
  BY DashInvNext
<1>2. DashInv => NewRunsAreOwn
  <2> SUFFICES ASSUME DashInv PROVE NewRunsAreOwn
    OBVIOUS
  <2>1. ASSUME NEW p \in Processes, Succeeded(p), ~disturbed[p], p \notin short
        PROVE  newRuns[p] = {p}
    BY <2>1 DEF DashInv, UndisturbedInv, Succeeded
  <2>2. ASSUME NEW k \in DOMAIN sidecar.lines, sidecar.lines[k] # Header,
               sidecar.lines[k].run # sidecar.lines[k].by
        PROVE  disturbed[sidecar.lines[k].by] \/ sidecar.lines[k].by \in short
    BY <2>2 DEF DashInv, SidecarInv
  <2>3. QED
    BY <2>1, <2>2 DEF NewRunsAreOwn
<1>3. QED
  BY DashInvInit, <1>1, <1>2, PTL DEF DashSpec

(* The processes that sessions start are runs of the CLI: what holds of    *)
(* these for the result CSV holds beside the dashboard as well.            *)
THEOREM SessionsRunTheCli == DashSpec => Spec /\ []FileWhole /\ RowsKept /\ RowsUnderOwnHeader
<1>1. DashInit => Init
  BY DEF DashInit
<1>2. [DashNext]_vars => [Next]_csvVars
  BY DashImpliesCsv
<1>3. DashSpec => Spec
  BY <1>1, <1>2, PTL DEF DashSpec, Spec
<1>4. QED
  BY <1>3, FileIsWhole, RowsAreKept, RowsAreUnderOwnHeader, PTL
==============================================================================
