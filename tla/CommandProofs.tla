---------------------------- MODULE CommandProofs ----------------------------
(***************************************************************************)
(* What a command line becomes: lists without repetitions, the experiment  *)
(* matrix, and the loop of parse_cli, for every form, every edit of the    *)
(* command line and every length of the lists.                             *)
(***************************************************************************)
EXTENDS CommandLine, SequenceTheorems, WellFoundedInduction, TLAPS

-----------------------------------------------------------------------------
(* Recursion along 0 .. n, for a step that is a function.                  *)

(* What holds of 0 and of the next number holds up to n.                   *)
LEMMA Upwards ==
  ASSUME NEW n \in Nat, NEW S, 0 \in S, \A i \in 1 .. n : i - 1 \in S => i \in S
  PROVE  0 .. n \subseteq S
<1> DEFINE T == (0 .. n) \ S
           R == OpToRel(<, Nat)
<1> SUFFICES ASSUME T # {} PROVE FALSE
  OBVIOUS
<1>1. PICK x \in T : \A y \in T : ~ (<<y, x>> \in R)
  <2>1. T \subseteq Nat
    OBVIOUS
  <2> HIDE DEF T, R
  <2> QED  BY <2>1, WFMin, NatLessThanWellFounded DEF R
<1>2. x \in 1 .. n /\ x - 1 \in 0 .. n /\ x - 1 \in Nat /\ x \in Nat /\ x - 1 < x
  OBVIOUS
<1>3. <<x - 1, x>> \in R
  BY <1>2 DEF OpToRel
<1>4. x - 1 \notin T
  BY <1>1, <1>3
<1> QED  BY <1>2, <1>4

Follows(f, n, start, step) ==
  f[0] = start /\ \A i \in 1 .. n : f[i] = step[<<i, f[i - 1]>>]

(* A recursion with a step function has a value at every number.           *)
LEMMA Recursion ==
  ASSUME NEW n \in Nat, NEW S, NEW start \in S, NEW step \in [(1 .. n) \X S -> S]
  PROVE  \E f \in [0 .. n -> S] : Follows(f, n, start, step)
<1> DEFINE Upto(m, f) == /\ f \in [0 .. m -> S] /\ f[0] = start
                         /\ \A i \in 1 .. m : f[i] = step[<<i, f[i - 1]>>]
           T == {m \in 0 .. n : \E f \in [0 .. m -> S] : Upto(m, f)}
<1>1. 0 \in T
  <2>1. Upto(0, [i \in 0 .. 0 |-> start])
    OBVIOUS
  <2>2. [i \in 0 .. 0 |-> start] \in [0 .. 0 -> S] /\ 0 \in 0 .. n
    OBVIOUS
  <2> HIDE DEF Upto
  <2> QED  BY <2>1, <2>2
<1>2. ASSUME NEW m \in 1 .. n, m - 1 \in T PROVE m \in T
  <2>1. PICK f \in [0 .. (m - 1) -> S] : Upto(m - 1, f)
    BY <1>2
  <2> DEFINE g == [i \in 0 .. m |-> IF i = m THEN step[<<m, f[m - 1]>>] ELSE f[i]]
  <2>2. f[m - 1] \in S /\ step[<<m, f[m - 1]>>] \in S
    BY <2>1
  <2>3. g \in [0 .. m -> S]
    BY <2>2
  <2>4. ASSUME NEW i \in 1 .. m PROVE g[i] = step[<<i, g[i - 1]>>]
    <3>1. i - 1 \in 0 .. m /\ i - 1 # m /\ g[i - 1] = f[i - 1]
      OBVIOUS
    <3>2. CASE i = m
      BY <3>1, <3>2
    <3>3. CASE i # m
      <4>1. i \in 1 .. (m - 1) /\ i \in 0 .. m
        BY <3>3
      <4> QED  BY <2>1, <3>1, <3>3, <4>1
    <3> QED  BY <3>2, <3>3
  <2>5. g[0] = start
    BY <2>1
  <2>6. Upto(m, g)
    BY <2>3, <2>4, <2>5
  <2> HIDE DEF Upto, g
  <2> QED  BY <2>3, <2>6
<1>3. 0 .. n \subseteq T
  <2> HIDE DEF T
  <2> QED  BY <1>1, <1>2, Upwards
<1>4. n \in T
  <2> HIDE DEF T
  <2> QED  BY <1>3
<1>5. PICK f \in [0 .. n -> S] : Upto(n, f)
  BY <1>4
<1> QED  BY <1>5 DEF Follows

-----------------------------------------------------------------------------
(* The operators of the plan.                                              *)

(* unique_preserving_order, one value at a time.                           *)
Extended(seq, v) == IF Contains(seq, v) THEN seq ELSE Append(seq, v)
UniqueSteps(list, f) ==
  /\ f[0] = <<>>
  /\ \A i \in 1 .. Len(list) : f[i] = Extended(f[i - 1], list[i])

(* The list is the last one of those steps.                                *)
LEMMA UniqueIsItsLastStep ==
  ASSUME NEW V, NEW list \in Seq(V)
  PROVE  \E f \in [0 .. Len(list) -> Seq(V)] :
           UniqueSteps(list, f) /\ UniquePreservingOrder(list) = f[Len(list)]
<1> DEFINE n == Len(list)
           step == [p \in (1 .. n) \X Seq(V) |-> Extended(p[2], list[p[1]])]
           Body(g) == [i \in 0 .. n |->
                         IF i = 0 THEN <<>>
                         ELSE IF Contains(g[i - 1], list[i]) THEN g[i - 1]
                         ELSE Append(g[i - 1], list[i])]
           r == CHOOSE g : g = Body(g)
<1>1. n \in Nat /\ \A i \in 1 .. n : list[i] \in V
  OBVIOUS
<1>2. step \in [(1 .. n) \X Seq(V) -> Seq(V)]
  BY <1>1 DEF Extended
<1>3. <<>> \in Seq(V)
  OBVIOUS
<1>4. PICK f \in [0 .. n -> Seq(V)] :
        f[0] = <<>> /\ \A i \in 1 .. n : f[i] = step[<<i, f[i - 1]>>]
  <2> DEFINE L == Seq(V)
             e == <<>>
  <2>1. n \in Nat /\ step \in [(1 .. n) \X L -> L] /\ e \in L
    BY <1>1, <1>2, <1>3
  <2>2. \E f \in [0 .. n -> L] : Follows(f, n, e, step)
    <3> HIDE DEF n, step, L, e
    <3> QED  BY <2>1, Recursion
  <2> QED  BY <2>2 DEF Follows
<1>5. \A i \in 1 .. n : f[i] = Extended(f[i - 1], list[i])
  <2> TAKE i \in 1 .. n
  <2>1. i - 1 \in 0 .. n
    BY <1>1
  <2>2. f[i - 1] \in Seq(V)
    BY <2>1, <1>4
  <2> QED  BY <2>2, <1>4
<1>6. f = Body(f)
  <2> DEFINE at(i) == IF i = 0 THEN <<>>
                      ELSE IF Contains(f[i - 1], list[i]) THEN f[i - 1]
                      ELSE Append(f[i - 1], list[i])
  <2>1. ASSUME NEW i \in 0 .. n PROVE f[i] = at(i)
    <3>1. i = 0 \/ i \in 1 .. n
      BY <1>1
    <3> QED  BY <3>1, <1>4, <1>5, <1>1 DEF Extended
  <2>2. f = [i \in 0 .. n |-> f[i]]
    BY <1>4
  <2>3. f = [i \in 0 .. n |-> at(i)]
    <3> HIDE DEF at, n
    <3> QED  BY <2>1, <2>2
  <2> QED  BY <2>3
<1>7. r = Body(r)
  <2> HIDE DEF Body
  <2> QED  BY <1>6
<1>8. UniquePreservingOrder(list) = r[n]
  BY DEF UniquePreservingOrder
<1>9. r[0] = <<>> /\ \A i \in 1 .. n : r[i] = Extended(r[i - 1], list[i])
  <2> HIDE DEF r
  <2>1. 0 \in 0 .. n
    BY <1>1
  <2>2. r[0] = <<>>
    BY <1>7, <2>1
  <2>3. ASSUME NEW i \in 1 .. n PROVE r[i] = Extended(r[i - 1], list[i])
    <3>1. i \in 0 .. n /\ i # 0
      BY <1>1
    <3>2. r[i] = Body(r)[i]
      BY <1>7
    <3>3. Body(r)[i] = IF Contains(r[i - 1], list[i]) THEN r[i - 1]
                       ELSE Append(r[i - 1], list[i])
      BY <3>1
    <3> QED  BY <3>2, <3>3 DEF Extended
  <2> QED  BY <2>2, <2>3
<1>10. \A i \in 0 .. n : r[i] = f[i]
  <2> DEFINE S == {i \in 0 .. n : r[i] = f[i]}
  <2>1. 0 \in S
    BY <1>1, <1>4, <1>9
  <2>2. \A i \in 1 .. n : i - 1 \in S => i \in S
    <3> TAKE i \in 1 .. n
    <3>1. i \in 0 .. n
      BY <1>1
    <3> HIDE DEF r
    <3> QED  BY <3>1, <1>5, <1>9
  <2>3. 0 .. n \subseteq S
    <3> HIDE DEF S, n
    <3> QED  BY <1>1, <2>1, <2>2, Upwards
  <2> QED  BY <2>3
<1> QED
  <2>1. UniqueSteps(list, f)
    BY <1>4, <1>5 DEF UniqueSteps
  <2>2. n \in 0 .. n
    BY <1>1
  <2>3. UniquePreservingOrder(list) = f[n]
    <3> HIDE DEF r, n
    <3> QED  BY <1>8, <1>10, <2>2
  <2> QED  BY <2>1, <2>3

(* Extending a list without repetitions leaves one, with one value more.   *)
LEMMA ExtendedList ==
  ASSUME NEW V, NEW seq \in Seq(V), NEW v \in V, IsInjective(seq)
  PROVE  /\ IsInjective(Extended(seq, v))
         /\ Range(Extended(seq, v)) = Range(seq) \cup {v}
<1>1. Contains(seq, v) <=> v \in Range(seq)
  BY DEF Contains, Range
<1>2. CASE Contains(seq, v)
  BY <1>1, <1>2 DEF Extended
<1>3. CASE ~ Contains(seq, v)
  <2>1. /\ Append(seq, v) \in Seq(V)
        /\ Len(Append(seq, v)) = Len(seq) + 1
        /\ \A i \in 1 .. Len(seq) : Append(seq, v)[i] = seq[i]
        /\ Append(seq, v)[Len(seq) + 1] = v
        /\ DOMAIN seq = 1 .. Len(seq) /\ Len(seq) \in Nat
    OBVIOUS
  <2>2. DOMAIN Append(seq, v) = 1 .. (Len(seq) + 1)
    BY <2>1
  <2> DEFINE a == Append(seq, v)
  <2> HIDE DEF a
  <2>3. IsInjective(a)
    BY <1>1, <1>3, <2>1, <2>2 DEF IsInjective, Range, a
  <2>4. Range(a) = Range(seq) \cup {v}
    BY <2>1, <2>2 DEF Range, a
  <2> QED  BY <2>3, <2>4, <1>3 DEF Extended, a
<1> QED  BY <1>2, <1>3

(* unique_preserving_order keeps every value once, and the first in front. *)
LEMMA UniqueList ==
  ASSUME NEW V, NEW list \in Seq(V)
  PROVE  /\ UniquePreservingOrder(list) \in Seq(V)
         /\ IsInjective(UniquePreservingOrder(list))
         /\ Range(UniquePreservingOrder(list)) = Range(list)
<1> DEFINE n == Len(list)
<1>1. PICK f \in [0 .. n -> Seq(V)] :
        UniqueSteps(list, f) /\ UniquePreservingOrder(list) = f[n]
  BY UniqueIsItsLastStep
<1>2. n \in Nat /\ DOMAIN list = 1 .. n /\ \A i \in 1 .. n : list[i] \in V
  OBVIOUS
<1> DEFINE S == {i \in 0 .. n : /\ IsInjective(f[i])
                                /\ Range(f[i]) = {list[k] : k \in 1 .. i}}
<1>3. 0 \in S
  <2>1. f[0] = <<>>
    BY <1>1 DEF UniqueSteps
  <2>2. IsInjective(<<>>) /\ Range(<<>>) = {}
    BY DEF IsInjective, Range
  <2> QED  BY <2>1, <2>2, <1>2
<1>4. ASSUME NEW i \in 1 .. n, i - 1 \in S PROVE i \in S
  <2>1. i \in 0 .. n /\ i - 1 \in 0 .. n /\ list[i] \in V
    BY <1>2
  <2>2. f[i - 1] \in Seq(V) /\ IsInjective(f[i - 1])
    BY <2>1, <1>1, <1>4
  <2>3. f[i] = Extended(f[i - 1], list[i])
    BY <1>1 DEF UniqueSteps
  <2>4. IsInjective(f[i]) /\ Range(f[i]) = Range(f[i - 1]) \cup {list[i]}
    BY <2>1, <2>2, <2>3, ExtendedList
  <2>5. {list[k] : k \in 1 .. i} = {list[k] : k \in 1 .. (i - 1)} \cup {list[i]}
    BY <1>2
  <2> QED  BY <2>1, <2>4, <2>5, <1>4
<1>5. n \in S
  <2>1. 0 .. n \subseteq S
    <3> HIDE DEF S, n
    <3> QED  BY <1>2, <1>3, <1>4, Upwards
  <2> HIDE DEF S, n
  <2> QED  BY <2>1, <1>2
<1>6. f[n] \in Seq(V)
  BY <1>1, <1>2
<1> QED  BY <1>1, <1>2, <1>5, <1>6 DEF Range

(* FlattenSeq, one row at a time.                                          *)
FlattenSteps(rows, f) ==
  f[0] = <<>> /\ \A i \in 1 .. Len(rows) : f[i] = f[i - 1] \o rows[i]

(* FlattenSeq is the last of its steps.                                    *)
LEMMA FlattenIsItsLastStep ==
  ASSUME NEW V, NEW rows \in Seq(Seq(V))
  PROVE  \E f \in [0 .. Len(rows) -> Seq(V)] :
           FlattenSteps(rows, f) /\ FlattenSeq(rows) = f[Len(rows)]
<1> DEFINE n == Len(rows)
           L == Seq(V)
           e == <<>>
           step == [p \in (1 .. n) \X L |-> p[2] \o rows[p[1]]]
           Body(g) == [i \in 1 .. n |-> IF i = 1 THEN rows[i] ELSE g[i - 1] \o rows[i]]
           r == CHOOSE g : g = Body(g)
<1>1. n \in Nat /\ \A i \in 1 .. n : rows[i] \in Seq(V)
  OBVIOUS
<1>2. step \in [(1 .. n) \X L -> L] /\ e \in L
  BY <1>1
<1>3. PICK f \in [0 .. n -> L] : Follows(f, n, e, step)
  <2> HIDE DEF n, step, L, e
  <2> QED  BY <1>1, <1>2, Recursion
<1>4. FlattenSteps(rows, f)
  <2>1. ASSUME NEW i \in 1 .. n PROVE f[i] = f[i - 1] \o rows[i]
    <3>1. i - 1 \in 0 .. n
      BY <1>1
    <3> QED  BY <3>1, <1>3 DEF Follows
  <2> QED  BY <2>1, <1>3 DEF Follows, FlattenSteps
<1>7. ASSUME NEW i \in 1 .. n
      PROVE  f[i] = IF i = 1 THEN rows[i] ELSE f[i - 1] \o rows[i]
  <2>1. f[i] = f[i - 1] \o rows[i] /\ f[0] = <<>> /\ rows[i] \in Seq(V)
    BY <1>1, <1>4 DEF FlattenSteps
  <2>2. <<>> \o rows[i] = rows[i]
    BY <2>1, ConcatEmptySeq
  <2>3. i = 1 => i - 1 = 0
    OBVIOUS
  <2> QED  BY <2>1, <2>2, <2>3
<1>5. CASE n = 0
  <2>1. FlattenSeq(rows) = <<>>
    BY <1>5 DEF FlattenSeq
  <2> QED  BY <2>1, <1>4, <1>5 DEF FlattenSteps
<1>6. CASE n # 0
  <2> DEFINE g == [i \in 1 .. n |-> f[i]]
             at(i) == IF i = 1 THEN rows[i] ELSE g[i - 1] \o rows[i]
  <2>1. ASSUME NEW i \in 1 .. n PROVE f[i] = at(i)
    <3>1. i = 1 \/ i - 1 \in 1 .. n
      BY <1>1
    <3> QED  BY <3>1, <1>7
  <2>2. g = [i \in 1 .. n |-> at(i)]
    <3> HIDE DEF at, n
    <3> QED  BY <2>1
  <2>3. g = Body(g)
    BY <2>2
  <2>4. r = Body(r)
    <3> HIDE DEF Body, g
    <3> QED  BY <2>3
  <2>5. FlattenSeq(rows) = r[n]
    BY <1>6 DEF FlattenSeq
  <2> DEFINE S == {i \in 0 .. n : i = 0 \/ r[i] = f[i]}
  <2>6. 0 \in S
    BY <1>1
  <2>7. ASSUME NEW i \in 1 .. n, i - 1 \in S PROVE i \in S
    <3> HIDE DEF r
    <3>1. r[i] = Body(r)[i]
      BY <2>4
    <3>2. Body(r)[i] = IF i = 1 THEN rows[i] ELSE r[i - 1] \o rows[i]
      OBVIOUS
    <3>3. i = 1 \/ r[i - 1] = f[i - 1]
      BY <2>7, <1>1
    <3>4. f[i] = IF i = 1 THEN rows[i] ELSE f[i - 1] \o rows[i]
      BY <1>7
    <3>5. r[i] = f[i] /\ i \in 0 .. n
      BY <3>1, <3>2, <3>3, <3>4, <1>1
    <3> QED  BY <3>5
  <2>8. n \in S
    <3>1. 0 .. n \subseteq S
      <4> HIDE DEF S, n
      <4> QED  BY <1>1, <2>6, <2>7, Upwards
    <3> HIDE DEF S, n
    <3> QED  BY <3>1, <1>1
  <2> HIDE DEF r
  <2>9. FlattenSeq(rows) = f[n]
    BY <2>5, <2>8, <1>6
  <2> QED  BY <2>9, <1>4
<1> QED  BY <1>5, <1>6

(* Two lists one after the other.                                          *)
LEMMA ConcatList ==
  ASSUME NEW V, NEW s \in Seq(V), NEW t \in Seq(V)
  PROVE  /\ s \o t \in Seq(V)
         /\ Range(s \o t) = Range(s) \cup Range(t)
         /\ s # <<>> => s \o t # <<>> /\ (s \o t)[1] = s[1]
         /\ IsInjective(s) /\ IsInjective(t) /\ Range(s) \cap Range(t) = {}
              => IsInjective(s \o t)
<1> DEFINE c == s \o t
           m == Len(s)
           n == Len(t)
<1>1. /\ m \in Nat /\ n \in Nat /\ DOMAIN s = 1 .. m /\ DOMAIN t = 1 .. n
      /\ c \in Seq(V) /\ Len(c) = m + n
      /\ \A i \in 1 .. m + n : c[i] = IF i <= m THEN s[i] ELSE t[i - m]
  BY ConcatProperties
<1>2. DOMAIN c = 1 .. m + n
  BY <1>1
<1>3. s # <<>> => m > 0
  OBVIOUS
<1> HIDE DEF c, m, n
<1>4. \A i \in 1 .. m : i \in 1 .. m + n /\ c[i] = s[i]
  BY <1>1
<1>5. \A i \in 1 .. n : m + i \in 1 .. m + n /\ c[m + i] = t[i]
  <2> TAKE i \in 1 .. n
  <2>1. m + i \in 1 .. m + n /\ ~ (m + i <= m) /\ (m + i) - m = i
    BY <1>1
  <2> QED  BY <2>1, <1>1
<1>6. \A i \in 1 .. m + n : i \in 1 .. m \/ \E j \in 1 .. n : i = m + j
  <2> TAKE i \in 1 .. m + n
  <2>1. i \notin 1 .. m => i - m \in 1 .. n /\ i = m + (i - m)
    BY <1>1
  <2> QED  BY <2>1
<1>7. Range(c) = Range(s) \cup Range(t)
  <2>1. Range(c) \subseteq Range(s) \cup Range(t)
    BY <1>1, <1>2, <1>4, <1>5, <1>6 DEF Range
  <2>2. Range(s) \subseteq Range(c)
    BY <1>1, <1>2, <1>4 DEF Range
  <2>3. Range(t) \subseteq Range(c)
    BY <1>1, <1>2, <1>5 DEF Range
  <2> QED  BY <2>1, <2>2, <2>3
<1>8. ASSUME s # <<>> PROVE c # <<>> /\ c[1] = s[1]
  <2>1. 1 \in 1 .. m
    BY <1>1, <1>3, <1>8
  <2>2. 1 \in DOMAIN c /\ c[1] = s[1]
    BY <2>1, <1>2, <1>4
  <2> QED  BY <2>2
<1>9. ASSUME IsInjective(s), IsInjective(t), Range(s) \cap Range(t) = {}
      PROVE  IsInjective(c)
  <2>1. \A i \in 1 .. m, j \in 1 .. n : s[i] # t[j]
    BY <1>1, <1>9 DEF Range
  <2>2. \A i, j \in 1 .. m : s[i] = s[j] => i = j
    BY <1>1, <1>9 DEF IsInjective
  <2>3. \A i, j \in 1 .. n : t[i] = t[j] => i = j
    BY <1>1, <1>9 DEF IsInjective
  <2> SUFFICES ASSUME NEW i \in 1 .. m + n, NEW j \in 1 .. m + n, c[i] = c[j]
               PROVE  i = j
    BY <1>2 DEF IsInjective
  <2>4. CASE i \in 1 .. m
    BY <2>1, <2>2, <2>4, <1>4, <1>5, <1>6
  <2>5. CASE \E p \in 1 .. n : i = m + p
    BY <2>1, <2>3, <2>5, <1>4, <1>5, <1>6
  <2> QED  BY <2>4, <2>5, <1>6
<1> QED  BY <1>1, <1>7, <1>8, <1>9 DEF c

(* Rows one after the other: what they hold, what comes first, and that    *)
(* rows without repetitions that share nothing make such a list.           *)
LEMMA FlattenList ==
  ASSUME NEW V, NEW rows \in Seq(Seq(V))
  PROVE  /\ FlattenSeq(rows) \in Seq(V)
         /\ Range(FlattenSeq(rows)) = UNION {Range(rows[i]) : i \in 1 .. Len(rows)}
         /\ Len(rows) > 0 /\ rows[1] # <<>> =>
              FlattenSeq(rows) # <<>> /\ FlattenSeq(rows)[1] = rows[1][1]
         /\ /\ \A i \in 1 .. Len(rows) : IsInjective(rows[i])
            /\ \A i, j \in 1 .. Len(rows) :
                 i # j => Range(rows[i]) \cap Range(rows[j]) = {}
            => IsInjective(FlattenSeq(rows))
<1> DEFINE n == Len(rows)
           Upto(i) == UNION {Range(rows[j]) : j \in 1 .. i}
           Apart == /\ \A i \in 1 .. n : IsInjective(rows[i])
                    /\ \A i, j \in 1 .. n : i # j => Range(rows[i]) \cap Range(rows[j]) = {}
<1>1. PICK f \in [0 .. n -> Seq(V)] : FlattenSteps(rows, f) /\ FlattenSeq(rows) = f[n]
  BY FlattenIsItsLastStep
<1>2. n \in Nat /\ \A i \in 1 .. n : rows[i] \in Seq(V)
  OBVIOUS
<1> DEFINE S == {i \in 0 .. n : /\ Range(f[i]) = Upto(i)
                                /\ i > 0 /\ rows[1] # <<>> =>
                                     f[i] # <<>> /\ f[i][1] = rows[1][1]
                                /\ Apart => IsInjective(f[i])}
<1>3. 0 \in S
  <2>1. f[0] = <<>>
    BY <1>1 DEF FlattenSteps
  <2>2. IsInjective(<<>>) /\ Range(<<>>) = {} /\ Upto(0) = {}
    BY DEF IsInjective, Range
  <2>3. Range(f[0]) = Upto(0) /\ IsInjective(f[0]) /\ ~ (0 > 0) /\ 0 \in 0 .. n
    BY <2>1, <2>2, <1>2
  <2> HIDE DEF Upto, Apart, n
  <2> QED  BY <2>3
<1>4. ASSUME NEW i \in 1 .. n, i - 1 \in S PROVE i \in S
  <2>0. i \in 0 .. n /\ i - 1 \in 0 .. n
    BY <1>2
  <2>1. i \in 0 .. n /\ rows[i] \in Seq(V) /\ f[i - 1] \in Seq(V)
    BY <2>0, <1>1, <1>2
  <2>2. f[i] = f[i - 1] \o rows[i]
    BY <1>1 DEF FlattenSteps
  <2>3. Upto(i) = Upto(i - 1) \cup Range(rows[i])
    <3>1. 1 .. i = (1 .. (i - 1)) \cup {i}
      BY <1>2
    <3> QED  BY <3>1
  <2>4. Range(f[i - 1]) = Upto(i - 1)
    BY <1>4
  <2>5. Range(f[i]) = Upto(i)
    <3> HIDE DEF Upto
    <3> QED  BY <2>1, <2>2, <2>3, <2>4, ConcatList
  <2>6. ASSUME rows[1] # <<>> PROVE f[i] # <<>> /\ f[i][1] = rows[1][1]
    <3>1. CASE i = 1
      <4>1. f[0] = <<>> /\ i - 1 = 0
        BY <1>1, <3>1 DEF FlattenSteps
      <4>2. f[i] = rows[1]
        BY <2>1, <2>2, <4>1, <3>1, ConcatEmptySeq
      <4> QED  BY <2>6, <4>2
    <3>2. CASE i # 1
      <4>1. i - 1 > 0
        BY <3>2, <1>2
      <4>2. f[i - 1] # <<>> /\ f[i - 1][1] = rows[1][1]
        BY <4>1, <2>6, <1>4
      <4> DEFINE a == f[i - 1]
                 b == rows[i]
      <4>3. a \in Seq(V) /\ b \in Seq(V) /\ a # <<>>
        BY <4>2, <2>1
      <4>4. a \o b # <<>> /\ (a \o b)[1] = a[1]
        <5> HIDE DEF a, b
        <5> QED  BY <4>3, ConcatList
      <4> QED  BY <4>2, <4>4, <2>2
    <3> QED  BY <3>1, <3>2
  <2>7. ASSUME Apart PROVE IsInjective(f[i])
    <3>1. IsInjective(f[i - 1]) /\ IsInjective(rows[i])
      BY <2>7, <1>4
    <3>2. \A j \in 1 .. (i - 1) : Range(rows[i]) \cap Range(rows[j]) = {}
      <4> TAKE j \in 1 .. (i - 1)
      <4>1. j \in 1 .. n /\ j # i
        BY <1>2
      <4> QED  BY <4>1, <2>7
    <3>3. Range(f[i - 1]) \cap Range(rows[i]) = {}
      BY <2>4, <3>2
    <3> QED  BY <2>1, <2>2, <3>1, <3>3, ConcatList
  <2> HIDE DEF Upto, Apart
  <2> QED  BY <2>1, <2>5, <2>6, <2>7
<1>5. n \in S
  <2>1. 0 .. n \subseteq S
    <3> HIDE DEF S, n
    <3> QED  BY <1>2, <1>3, <1>4, Upwards
  <2> HIDE DEF S, n
  <2> QED  BY <2>1, <1>2
<1>6. f[n] \in Seq(V)
  BY <1>1, <1>2
<1> QED  BY <1>1, <1>5, <1>6

(* The stable order: each chosen back end once, the baseline in front.     *)
LEMMA InOrderList ==
  ASSUME NEW chosen
  PROVE  /\ InOrder(chosen) \in Seq(Backends)
         /\ IsInjective(InOrder(chosen))
         /\ Range(InOrder(chosen)) = chosen \cap Backends
         /\ Sequential \in chosen => InOrder(chosen) # <<>> /\ InOrder(chosen)[1] = Sequential
<1> DEFINE only(b) == IF b \in chosen THEN <<b>> ELSE <<>>
           s == only(Sequential)
           t == only(OpenMP)
           u == only(Cuda)
<1>1. ASSUME NEW b \in Backends
      PROVE  /\ only(b) \in Seq(Backends) /\ IsInjective(only(b))
             /\ Range(only(b)) = chosen \cap {b}
  <2>1. <<b>> \in Seq(Backends) /\ <<>> \in Seq(Backends)
    OBVIOUS
  <2>2. IsInjective(<<b>>) /\ Range(<<b>>) = {b}
    BY DEF IsInjective, Range
  <2>3. IsInjective(<<>>) /\ Range(<<>>) = {}
    BY DEF IsInjective, Range
  <2>4. CASE b \in chosen
    BY <2>1, <2>2, <2>4
  <2>5. CASE b \notin chosen
    BY <2>1, <2>3, <2>5
  <2> QED  BY <2>4, <2>5
<1>2. Sequential \in Backends /\ OpenMP \in Backends /\ Cuda \in Backends
  BY DEF Backends
<1>3. Sequential \in chosen => s # <<>> /\ s[1] = Sequential
  OBVIOUS
<1>4. /\ s \in Seq(Backends) /\ IsInjective(s) /\ Range(s) = chosen \cap {Sequential}
      /\ t \in Seq(Backends) /\ IsInjective(t) /\ Range(t) = chosen \cap {OpenMP}
      /\ u \in Seq(Backends) /\ IsInjective(u) /\ Range(u) = chosen \cap {Cuda}
  BY <1>1, <1>2
<1>5. InOrder(chosen) = (s \o t) \o u \/ InOrder(chosen) = s \o (t \o u)
  BY DEF InOrder
<1>6. Sequential # OpenMP /\ Sequential # Cuda /\ OpenMP # Cuda
  BY DEF Sequential, OpenMP, Cuda
<1>7. Backends = {Sequential, OpenMP, Cuda}
  BY DEF Backends
<1> HIDE DEF s, t, u
<1>8. (s \o t) \o u = s \o (t \o u)
  BY <1>4, ConcatAssociative
<1>9. /\ s \o t \in Seq(Backends) /\ IsInjective(s \o t)
      /\ Range(s \o t) = chosen \cap {Sequential, OpenMP}
      /\ Sequential \in chosen => s \o t # <<>> /\ (s \o t)[1] = Sequential
  <2>1. Range(s) \cap Range(t) = {}
    BY <1>4, <1>6
  <2> QED  BY <2>1, <1>3, <1>4, ConcatList
<1> DEFINE st == s \o t
<1>10. /\ st \o u \in Seq(Backends) /\ IsInjective(st \o u)
       /\ Range(st \o u) = chosen \cap {Sequential, OpenMP, Cuda}
       /\ Sequential \in chosen => st \o u # <<>> /\ (st \o u)[1] = Sequential
  <2>1. /\ st \in Seq(Backends) /\ IsInjective(st)
        /\ Range(st) = chosen \cap {Sequential, OpenMP}
        /\ Sequential \in chosen => st # <<>> /\ st[1] = Sequential
    BY <1>9
  <2> HIDE DEF st
  <2>2. Range(st) \cap Range(u) = {}
    BY <1>4, <1>6, <2>1
  <2> QED  BY <2>1, <2>2, <1>4, ConcatList
<1> QED  BY <1>5, <1>7, <1>8, <1>10

Counts == Nat \ {0}
Request == [backends : Seq(Backends), counts : Seq(Counts),
            threads : Seq(Counts), batches : Seq(Counts)]

(* What MatrixAssumption of BenchmarkRunner wants of one experiment.       *)
WellFormed(e) ==
  /\ e \in Experiment
  /\ e.backend # OpenMP => e.threads = 0
  /\ e.backend # Cuda => e.batch = 0

(* The list that the configurations of a back end come from.               *)
Listed(b, request) ==
  \/ b = Sequential
  \/ b = OpenMP /\ request.threads # <<>>
  \/ b = Cuda /\ request.batches # <<>>

Mapped(f, s) == [i \in DOMAIN s |-> f[s[i]]]

(* A function of the members of a list without repetitions that tells them *)
(* apart is such a list.                                                   *)
LEMMA OverList ==
  ASSUME NEW V, NEW s \in Seq(V), IsInjective(s), NEW W, NEW f \in [V -> W],
         IsInjective(f)
  PROVE  /\ Mapped(f, s) \in Seq(W) /\ IsInjective(Mapped(f, s))
         /\ Range(Mapped(f, s)) = {f[v] : v \in Range(s)}
         /\ s # <<>> => Mapped(f, s) # <<>>
<1> DEFINE r == [i \in DOMAIN s |-> f[s[i]]]
<1>1. Len(s) \in Nat /\ DOMAIN s = 1 .. Len(s) /\ \A i \in 1 .. Len(s) : s[i] \in V
  OBVIOUS
<1>2. r \in Seq(W)
  BY <1>1
<1>3. IsInjective(r)
  BY <1>1 DEF IsInjective
<1>4. Range(r) = {f[v] : v \in Range(s)}
  BY <1>1 DEF Range
<1>5. ASSUME s # <<>> PROVE r # <<>>
  <2>1. 1 \in DOMAIN s
    BY <1>5
  <2>2. 1 \in DOMAIN r
    BY <2>1
  <2> QED  BY <2>2
<1> QED  BY <1>2, <1>3, <1>4, <1>5 DEF Mapped

(* The configurations of a back end at a count: no two the same, and none  *)
(* only when its list is empty.                                            *)
LEMMA ConfigurationsList ==
  ASSUME NEW b \in Backends, NEW n \in Counts, NEW request \in Request
  PROVE  LET c == Configurations(b, n, request)
         IN  /\ c \in Seq(Experiment) /\ IsInjective(c)
             /\ \A e \in Range(c) : WellFormed(e) /\ e.backend = b /\ e.count = n
             /\ Listed(b, request) => c # <<>>
<1> DEFINE c == Configurations(b, n, request)
<1>1. Sequential # OpenMP /\ Sequential # Cuda /\ OpenMP # Cuda
  BY DEF Sequential, OpenMP, Cuda
<1>2. /\ request.threads \in Seq(Counts) /\ request.batches \in Seq(Counts)
      /\ n \in Nat \ {0} /\ 0 \in Nat
  BY DEF Request, Counts
<1>3. CASE b = Sequential
  <2> DEFINE e == ExperimentSpec(b, n, 0, 0)
  <2>1. c = <<e>>
    BY <1>1, <1>3 DEF Configurations
  <2>2. WellFormed(e) /\ e.backend = b /\ e.count = n /\ e \in Experiment
    BY <1>2 DEF WellFormed, Experiment, ExperimentSpec
  <2> HIDE DEF e, c
  <2>3. c \in Seq(Experiment) /\ c # <<>>
    BY <2>1, <2>2
  <2>4. IsInjective(c) /\ Range(c) = {e}
    BY <2>1 DEF IsInjective, Range
  <2> QED  BY <2>2, <2>3, <2>4 DEF c
<1>4. CASE b = OpenMP
  <2> DEFINE ts == UniquePreservingOrder(request.threads)
             f == [t \in Counts |-> ExperimentSpec(b, n, t, 0)]
  <2>1. c = [i \in DOMAIN ts |-> ExperimentSpec(b, n, ts[i], 0)]
    BY <1>1, <1>4 DEF Configurations
  <2>2. ts \in Seq(Counts) /\ IsInjective(ts) /\ Range(ts) = Range(request.threads)
    BY <1>2, UniqueList
  <2>3. f \in [Counts -> Experiment] /\ IsInjective(f)
    BY <1>2 DEF Experiment, ExperimentSpec, Counts, IsInjective
  <2>4. \A t \in Counts : WellFormed(f[t]) /\ f[t].backend = b /\ f[t].count = n
    BY <1>1, <1>2, <1>4 DEF WellFormed, Experiment, ExperimentSpec, Counts
  <2>5. request.threads # <<>> => ts # <<>>
    <3>1. request.threads # <<>> => request.threads[1] \in Range(request.threads)
      BY <1>2 DEF Range
    <3> HIDE DEF ts
    <3>2. Range(<<>>) = {}
      BY DEF Range
    <3> QED  BY <2>2, <3>1, <3>2
  <2>6. \A i \in DOMAIN ts : ts[i] \in Counts
    <3> HIDE DEF ts
    <3> QED  BY <2>2
  <2>7. c = Mapped(f, ts)
    BY <2>1, <2>6 DEF Mapped
  <2>8. Range(ts) \subseteq Counts
    BY <2>6 DEF Range
  <2> HIDE DEF ts, f, c
  <2>9. /\ c \in Seq(Experiment) /\ IsInjective(c)
        /\ Range(c) = {f[t] : t \in Range(ts)} /\ (ts # <<>> => c # <<>>)
    BY <2>2, <2>3, <2>7, OverList
  <2>10. Listed(b, request) => c # <<>>
    BY <2>5, <2>9, <1>1, <1>4 DEF Listed
  <2> QED  BY <2>4, <2>8, <2>9, <2>10 DEF c
<1>5. CASE b = Cuda
  <2> DEFINE cs == UniquePreservingOrder(request.batches)
             f == [t \in Counts |-> ExperimentSpec(b, n, 0, t)]
  <2>1. c = [i \in DOMAIN cs |-> ExperimentSpec(b, n, 0, cs[i])]
    BY <1>1, <1>5 DEF Configurations
  <2>2. cs \in Seq(Counts) /\ IsInjective(cs) /\ Range(cs) = Range(request.batches)
    BY <1>2, UniqueList
  <2>3. f \in [Counts -> Experiment] /\ IsInjective(f)
    BY <1>2 DEF Experiment, ExperimentSpec, Counts, IsInjective
  <2>4. \A t \in Counts : WellFormed(f[t]) /\ f[t].backend = b /\ f[t].count = n
    BY <1>1, <1>2, <1>5 DEF WellFormed, Experiment, ExperimentSpec, Counts
  <2>5. request.batches # <<>> => cs # <<>>
    <3>1. request.batches # <<>> => request.batches[1] \in Range(request.batches)
      BY <1>2 DEF Range
    <3> HIDE DEF cs
    <3>2. Range(<<>>) = {}
      BY DEF Range
    <3> QED  BY <2>2, <3>1, <3>2
  <2>6. \A i \in DOMAIN cs : cs[i] \in Counts
    <3> HIDE DEF cs
    <3> QED  BY <2>2
  <2>7. c = Mapped(f, cs)
    BY <2>1, <2>6 DEF Mapped
  <2>8. Range(cs) \subseteq Counts
    BY <2>6 DEF Range
  <2> HIDE DEF cs, f, c
  <2>9. /\ c \in Seq(Experiment) /\ IsInjective(c)
        /\ Range(c) = {f[t] : t \in Range(cs)} /\ (cs # <<>> => c # <<>>)
    BY <2>2, <2>3, <2>7, OverList
  <2>10. Listed(b, request) => c # <<>>
    BY <2>5, <2>9, <1>1, <1>5 DEF Listed
  <2> QED  BY <2>4, <2>8, <2>9, <2>10 DEF c
<1> QED  BY <1>3, <1>4, <1>5 DEF Backends

(* The experiments of one back end, count after count.                     *)
Rows(b, request) ==
  LET counts == UniquePreservingOrder(request.counts)
  IN  [j \in DOMAIN counts |-> Configurations(b, counts[j], request)]

(* The rows of one back end: its own experiments, none twice, one for      *)
(* every count if its list is not empty.                                   *)
LEMMA RowsList ==
  ASSUME NEW b \in Backends, NEW request \in Request
  PROVE  LET r == FlattenSeq(Rows(b, request))
         IN  /\ r \in Seq(Experiment) /\ IsInjective(r)
             /\ \A e \in Range(r) : WellFormed(e) /\ e.backend = b
             /\ Listed(b, request) =>
                  \A n \in Range(request.counts) : \E e \in Range(r) : e.count = n
             /\ b = Sequential /\ request.counts # <<>> => r # <<>>
<1> DEFINE counts == UniquePreservingOrder(request.counts)
           rows == Rows(b, request)
           r == FlattenSeq(rows)
<1>1. request.counts \in Seq(Counts)
  BY DEF Request
<1>2. counts \in Seq(Counts) /\ IsInjective(counts) /\ Range(counts) = Range(request.counts)
  BY <1>1, UniqueList
<1>3. /\ Len(counts) \in Nat /\ DOMAIN counts = 1 .. Len(counts)
      /\ \A j \in 1 .. Len(counts) : counts[j] \in Counts
  <2> HIDE DEF counts
  <2> QED  BY <1>2
<1>4. rows = [j \in 1 .. Len(counts) |-> Configurations(b, counts[j], request)]
  BY <1>3 DEF Rows
<1> HIDE DEF counts, rows
<1>5. ASSUME NEW j \in 1 .. Len(counts)
      PROVE  /\ rows[j] = Configurations(b, counts[j], request)
             /\ rows[j] \in Seq(Experiment) /\ IsInjective(rows[j])
             /\ \A e \in Range(rows[j]) : WellFormed(e) /\ e.backend = b /\ e.count = counts[j]
             /\ Listed(b, request) => rows[j] # <<>>
  <2>1. rows[j] = Configurations(b, counts[j], request) /\ counts[j] \in Counts
    BY <1>3, <1>4
  <2> QED  BY <2>1, ConfigurationsList
<1>6. rows \in Seq(Seq(Experiment)) /\ Len(rows) = Len(counts)
  BY <1>3, <1>4, <1>5
<1>7. \A i, j \in 1 .. Len(rows) : i # j => Range(rows[i]) \cap Range(rows[j]) = {}
  <2> SUFFICES ASSUME NEW i \in 1 .. Len(counts), NEW j \in 1 .. Len(counts), i # j,
                      NEW e \in Range(rows[i]) \cap Range(rows[j])
               PROVE  FALSE
    BY <1>6
  <2>1. e.count = counts[i] /\ e.count = counts[j]
    BY <1>5
  <2> QED  BY <2>1, <1>2, <1>3 DEF IsInjective
<1>8. \A i \in 1 .. Len(rows) : IsInjective(rows[i])
  BY <1>5, <1>6
<1>9. /\ r \in Seq(Experiment) /\ IsInjective(r)
      /\ Range(r) = UNION {Range(rows[i]) : i \in 1 .. Len(rows)}
      /\ Len(rows) > 0 /\ rows[1] # <<>> => r # <<>>
  BY <1>6, <1>7, <1>8, FlattenList
<1> HIDE DEF r
<1>10. \A e \in Range(r) : WellFormed(e) /\ e.backend = b
  BY <1>5, <1>6, <1>9
<1>11. ASSUME Listed(b, request), NEW n \in Range(request.counts)
       PROVE  \E e \in Range(r) : e.count = n
  <2>1. PICK j \in 1 .. Len(counts) : n = counts[j]
    BY <1>2, <1>3 DEF Range
  <2>2. rows[j] \in Seq(Experiment) /\ rows[j] # <<>>
    BY <1>5, <1>11
  <2>3. rows[j][1] \in Range(rows[j])
    BY <2>2 DEF Range
  <2>4. rows[j][1] \in Range(r) /\ rows[j][1].count = n
    BY <2>1, <2>3, <1>5, <1>6, <1>9
  <2> QED  BY <2>4
<1>12. ASSUME b = Sequential, request.counts # <<>> PROVE r # <<>>
  <2>1. request.counts[1] \in Range(request.counts)
    BY <1>1, <1>12 DEF Range
  <2>2. Listed(b, request)
    BY <1>12 DEF Listed
  <2>3. PICK e \in Range(r) : TRUE
    BY <2>1, <2>2, <1>11
  <2>4. Range(<<>>) = {}
    BY DEF Range
  <2> QED  BY <2>3, <2>4
<1> QED  BY <1>9, <1>10, <1>11, <1>12 DEF r, rows

(* What the matrix of a request is: no experiment twice and each with the  *)
(* settings of its back end only, one at least for every requested back    *)
(* end and count, and Sequential first.                                    *)
IsMatrix(p, request) ==
  /\ p \in Seq(Experiment) /\ IsInjective(p)
  /\ \A e \in Range(p) : WellFormed(e)
  /\ \A b \in Range(request.backends), n \in Range(request.counts) :
       Listed(b, request) => \E e \in Range(p) : e.backend = b /\ e.count = n
  /\ request.backends # <<>> /\ request.counts # <<>> =>
       p # <<>> /\ p[1].backend = Sequential

(* build_benchmark_plan makes a matrix of every request, however long its  *)
(* lists are and whatever they repeat.                                     *)
THEOREM PlanIsAMatrix ==
  ASSUME NEW request \in Request
  PROVE  IsMatrix(BuildPlan(request), request)
<1> DEFINE named == {request.backends[i] : i \in DOMAIN request.backends}
           chosen == WithBaseline(named)
           order == InOrder(chosen)
           row(b) == FlattenSeq(Rows(b, request))
           rows == [i \in DOMAIN order |-> row(order[i])]
           p == BuildPlan(request)
<1>1. p = FlattenSeq(rows)
  BY DEF BuildPlan, NormalizeBackends, Rows
<1>2. /\ request.backends \in Seq(Backends)
      /\ named = Range(request.backends) /\ named \subseteq Backends
  BY DEF Request, Range
<1>3. /\ named \subseteq chosen
      /\ chosen \subseteq Backends
      /\ named # {} => Sequential \in chosen
  BY <1>2 DEF WithBaseline, Backends
<1>4. /\ order \in Seq(Backends) /\ IsInjective(order) /\ Range(order) = chosen
      /\ named # {} => order # <<>> /\ order[1] = Sequential
  <2> HIDE DEF chosen
  <2>1. chosen \cap Backends = chosen
    BY <1>3
  <2> QED  BY <2>1, <1>3, InOrderList
<1> HIDE DEF named, chosen, order, p
<1>5. /\ Len(order) \in Nat /\ DOMAIN order = 1 .. Len(order)
      /\ \A i \in 1 .. Len(order) : order[i] \in Backends
  BY <1>4
<1>6. ASSUME NEW i \in 1 .. Len(order)
      PROVE  /\ rows[i] = row(order[i])
             /\ row(order[i]) \in Seq(Experiment) /\ IsInjective(row(order[i]))
             /\ \A e \in Range(row(order[i])) : WellFormed(e) /\ e.backend = order[i]
  <2> HIDE DEF row
  <2>1. rows[i] = row(order[i]) /\ order[i] \in Backends
    BY <1>5
  <2> QED  BY <2>1, RowsList DEF row
<1>7. rows \in Seq(Seq(Experiment)) /\ Len(rows) = Len(order)
  <2> HIDE DEF row
  <2> QED  BY <1>5, <1>6
<1> HIDE DEF rows
<1>8. \A i, j \in 1 .. Len(rows) : i # j => Range(rows[i]) \cap Range(rows[j]) = {}
  <2> HIDE DEF row
  <2> SUFFICES ASSUME NEW i \in 1 .. Len(order), NEW j \in 1 .. Len(order), i # j,
                      NEW e \in Range(rows[i]) \cap Range(rows[j])
               PROVE  FALSE
    BY <1>7
  <2>1. e.backend = order[i] /\ e.backend = order[j]
    BY <1>6
  <2> QED  BY <2>1, <1>4, <1>5 DEF IsInjective
<1>9. \A i \in 1 .. Len(rows) : IsInjective(rows[i])
  <2> HIDE DEF row
  <2> QED  BY <1>6, <1>7
<1>10. /\ p \in Seq(Experiment) /\ IsInjective(p)
       /\ Range(p) = UNION {Range(rows[i]) : i \in 1 .. Len(rows)}
       /\ Len(rows) > 0 /\ rows[1] # <<>> => p # <<>> /\ p[1] = rows[1][1]
  BY <1>1, <1>7, <1>8, <1>9, FlattenList
<1>11. \A e \in Range(p) : WellFormed(e)
  <2> HIDE DEF row
  <2> QED  BY <1>6, <1>7, <1>10
<1>12. ASSUME NEW b \in Range(request.backends), NEW n \in Range(request.counts),
              Listed(b, request)
       PROVE  \E e \in Range(p) : e.backend = b /\ e.count = n
  <2>1. PICK i \in 1 .. Len(order) : order[i] = b
    BY <1>2, <1>3, <1>4, <1>5 DEF Range
  <2>2. b \in Backends
    BY <1>2
  <2>3. PICK e \in Range(row(b)) : e.count = n
    BY <2>2, <1>12, RowsList
  <2> HIDE DEF row
  <2>4. e \in Range(p) /\ e.backend = b
    BY <2>1, <2>3, <1>6, <1>7, <1>10
  <2> QED  BY <2>3, <2>4
<1>13. ASSUME request.backends # <<>>, request.counts # <<>>
       PROVE  p # <<>> /\ p[1].backend = Sequential
  <2>1. request.backends[1] \in Range(request.backends)
    BY <1>2, <1>13 DEF Range
  <2>2. 1 \in 1 .. Len(order) /\ order[1] = Sequential /\ Len(rows) > 0
    BY <2>1, <1>2, <1>4, <1>7
  <2>3. Sequential \in Backends
    BY DEF Backends
  <2>4. row(Sequential) # <<>>
    BY <2>3, <1>13, RowsList
  <2> HIDE DEF row
  <2>5. rows[1] = row(Sequential) /\ rows[1] # <<>> /\ rows[1] \in Seq(Experiment)
    BY <2>2, <2>4, <1>6
  <2>6. rows[1][1] \in Range(rows[1])
    BY <2>5 DEF Range
  <2>7. rows[1][1].backend = Sequential
    BY <2>2, <2>5, <2>6, <1>6
  <2> QED  BY <2>2, <2>5, <2>7, <1>10
<1> QED  BY <1>10, <1>11, <1>12, <1>13 DEF p, IsMatrix

-----------------------------------------------------------------------------
(* The loop of parse_cli.                                                  *)

Values == {t \in Tokens : t.option = ""} \cup {Missing}

CommandType ==
  /\ form \in Forms
  /\ arguments \in Seq(Tokens)
  /\ index \in Nat \ {0}
  /\ values \in [ValueOptions -> Values]
  /\ flags \subseteq Flags

(* What becomes of the argument at i.                                      *)
Taken(i) ==
  \/ arguments[i].option \in flags
  \/ arguments[i].option \in ValueOptions /\ i < Len(arguments)
     /\ values[arguments[i].option] = arguments[i + 1]
  \/ arguments[i].option = "" /\ arguments[i - 1].option \in ValueOptions

Before(name) == \E i \in 2 .. Len(arguments) : i < index /\ arguments[i].option = name

(* Nothing is stored before the loop; in it, everything before the index   *)
(* has been taken, and what is stored was found there.                     *)
LoopInv ==
  /\ pc \in {"form", "refused", "convert", "command"} =>
       values = [o \in ValueOptions |-> Missing] /\ flags = {}
  /\ pc \in {"options", "accepted"} =>
       /\ index >= 2
       /\ \A i \in 2 .. Len(arguments) : i < index => Taken(i)
       /\ \A o \in ValueOptions : Given(o) => Before(o)
       /\ \A f \in flags : Before(f)
  /\ pc = "accepted" =>
       index > Len(arguments) /\ Acceptable /\ plan = BuildPlan(BenchmarkRequest)

CommandInv == CommandType /\ LoopInv

(* The names of the options, the flags and a value are all different.      *)
LEMMA Names ==
  /\ "" \notin Flags /\ "" \notin ValueOptions /\ Flags \cap ValueOptions = {}
  /\ Flags \subseteq Texts /\ ValueOptions \subseteq Texts /\ Missing \notin Tokens
<1>1. "" \notin Flags /\ "" \notin ValueOptions /\ Flags \cap ValueOptions = {}
  BY DEF Flags, ValueOptions, RequiredOptions
<1>2. Flags \subseteq Texts /\ ValueOptions \subseteq Texts
  BY TextsAssumption
<1>3. Missing \notin Tokens
  BY DEF Missing, Value, Tokens
<1> QED  BY <1>1, <1>2, <1>3

(* What the fields of a form are.                                          *)
LEMMA FormTypes ==
  ASSUME form \in Forms
  PROVE  /\ form.backends \subseteq Backends /\ form.cold \in BOOLEAN /\ form.csv \in Texts
         /\ form.count \in Texts /\ form.count \in DOMAIN Number
         /\ Number[form.count] \in 1 .. MaxUint
         /\ \A b \in {OpenMP, Cuda} :
              form[b] \in Seq(Texts) /\ form[b] # <<>> /\ Shown(b, form[b]) \in Seq(Texts)
<1>1. form \in Form /\ Number[form.count] \in 1 .. MaxUint
  BY FormsAssumption
<1>2. DOMAIN Number \subseteq Texts
  BY TextsAssumption
<1>3. form[OpenMP] = form.openmp /\ form[Cuda] = form.cuda
  BY DEF OpenMP, Cuda
<1>4. /\ form.openmp \in Seq(Texts) \ {<<>>} /\ form.cuda \in Seq(Texts) \ {<<>>}
      /\ form.backends \subseteq Backends /\ form.cold \in BOOLEAN /\ form.csv \in Texts
      /\ form.count \in DOMAIN Number
  BY <1>1 DEF Form
<1>5. <<>> \in Seq(Texts)
  OBVIOUS
<1> QED  BY <1>1, <1>2, <1>3, <1>4, <1>5 DEF Shown

-----------------------------------------------------------------------------
(* The dashboard's command line, read by parse_cli.                        *)

NameAt(s, i) == s[i].option
IsValueAt(s, i) == s[i].option = ""
NamedIn(s) == {NameAt(s, i) : i \in DOMAIN s} \ {""}

(* A flag, or an option and its value, begins at i; the next begins where  *)
(* it ends.                                                                *)
GroupAt(s, S, i) ==
  \/ NameAt(s, i) \in Flags /\ i + 1 \in S
  \/ /\ NameAt(s, i) \in ValueOptions /\ i + 1 <= Len(s)
     /\ IsValueAt(s, i + 1) /\ i + 2 \in S

Groups(s, S) == \A i \in S : i <= Len(s) => GroupAt(s, S, i)
Once(s) == \A i, j \in DOMAIN s : NameAt(s, i) = NameAt(s, j) /\ ~ IsValueAt(s, i) => i = j
Says(s, o, items) ==
  \E i \in 1 .. Len(s) : i + 1 <= Len(s) /\ NameAt(s, i) = o /\ s[i + 1] = Value(items)

(* From a on, s is made of flags and of options with their values in v:    *)
(* those in N, each once.  Before a there is the command.                  *)
Reads(a, s, N, v) ==
  /\ s \in Seq(Tokens)
  /\ \A i \in 1 .. a - 1 : i \in DOMAIN s /\ s[i] = Benchmark
  /\ \E S \in SUBSET (1 .. Len(s) + 1) : a \in S /\ Groups(s, S)
  /\ Once(s) /\ NamedIn(s) = N
  /\ \A o \in N \cap ValueOptions : Says(s, o, v[o])

(* Two such lists one after the other are one.                             *)
LEMMA ReadsConcat ==
  ASSUME NEW a, NEW s, NEW t, NEW N, NEW M, NEW v,
         Reads(a, s, N, v), Reads(1, t, M, v), N \cap M = {}
  PROVE  Reads(a, s \o t, N \cup M, v)
<1> DEFINE c == s \o t
           m == Len(s)
           n == Len(t)
<1>1. s \in Seq(Tokens) /\ t \in Seq(Tokens)
  BY DEF Reads
<1>2. /\ m \in Nat /\ n \in Nat /\ DOMAIN s = 1 .. m /\ DOMAIN t = 1 .. n
      /\ c \in Seq(Tokens) /\ Len(c) = m + n
      /\ \A i \in 1 .. m + n : c[i] = IF i <= m THEN s[i] ELSE t[i - m]
  BY <1>1, ConcatProperties
<1>3. DOMAIN c = 1 .. m + n
  BY <1>2
<1> HIDE DEF c, m, n
<1>4. \A i \in 1 .. m : i \in 1 .. m + n /\ c[i] = s[i]
  BY <1>2
<1>5. \A i \in 1 .. n : m + i \in 1 .. m + n /\ c[m + i] = t[i]
  <2> TAKE i \in 1 .. n
  <2>1. m + i \in 1 .. m + n /\ ~ (m + i <= m) /\ (m + i) - m = i
    BY <1>2
  <2> QED  BY <2>1, <1>2
<1>6. \A i \in 1 .. m + n : i \in 1 .. m \/ \E j \in 1 .. n : i = m + j
  <2> TAKE i \in 1 .. m + n
  <2>1. i \notin 1 .. m => i - m \in 1 .. n /\ i = m + (i - m)
    BY <1>2
  <2> QED  BY <2>1
<1>7. /\ \A i \in 1 .. m : NameAt(c, i) = NameAt(s, i) /\ IsValueAt(c, i) = IsValueAt(s, i)
      /\ \A i \in 1 .. n : /\ NameAt(c, m + i) = NameAt(t, i)
                           /\ IsValueAt(c, m + i) = IsValueAt(t, i)
  BY <1>4, <1>5 DEF NameAt, IsValueAt
<1>8. PICK S \in SUBSET (1 .. m + 1) : a \in S /\ Groups(s, S)
  BY DEF Reads, m
<1>9. PICK T \in SUBSET (1 .. n + 1) : 1 \in T /\ Groups(t, T)
  BY DEF Reads, n
<1> DEFINE U == S \cup {m + j : j \in T}
<1>10. U \in SUBSET (1 .. Len(c) + 1) /\ a \in U
  <2>1. \A j \in T : m + j \in 1 .. m + n + 1
    BY <1>2, <1>9
  <2>2. \A i \in S : i \in 1 .. m + n + 1
    BY <1>2, <1>8
  <2>3. m + n + 1 = (m + n) + 1
    BY <1>2
  <2> QED  BY <2>1, <2>2, <2>3, <1>2, <1>8
<1>11. Groups(c, U)
  <2> SUFFICES ASSUME NEW i \in U, i <= m + n PROVE GroupAt(c, U, i)
    BY <1>2 DEF Groups
  <2>1. CASE i \in S /\ i <= m
    <3>1. GroupAt(s, S, i) /\ i \in 1 .. m
      BY <2>1, <1>8 DEF Groups, m
    <3>2. NameAt(c, i) = NameAt(s, i)
      BY <3>1, <1>7
    <3>3. i + 1 <= m => i + 1 <= Len(c) /\ IsValueAt(c, i + 1) = IsValueAt(s, i + 1)
      <4>1. i + 1 <= m => i + 1 \in 1 .. m
        BY <3>1, <1>2
      <4>2. i + 1 <= m => i + 1 <= m + n
        BY <3>1, <1>2
      <4> QED  BY <4>1, <4>2, <1>2, <1>7
    <3> QED  BY <3>1, <3>2, <3>3 DEF GroupAt, m
  <2>2. ASSUME NEW j \in T, i = m + j PROVE GroupAt(c, U, i)
    <3>1. j \in 1 .. n
      BY <2>2, <1>2, <1>9
    <3>2. GroupAt(t, T, j)
      BY <3>1, <1>2, <1>9 DEF Groups, n
    <3>3. NameAt(c, i) = NameAt(t, j)
      BY <3>1, <2>2, <1>7
    <3>4. i + 1 = m + (j + 1) /\ i + 2 = m + (j + 2)
      BY <3>1, <2>2, <1>2
    <3>5. j + 1 <= n => i + 1 <= Len(c) /\ IsValueAt(c, i + 1) = IsValueAt(t, j + 1)
      <4>1. j + 1 <= n => j + 1 \in 1 .. n
        BY <3>1, <1>2
      <4>2. j + 1 <= n => i + 1 <= m + n
        BY <3>1, <2>2, <1>2
      <4> QED  BY <4>1, <4>2, <3>4, <1>2, <1>7
    <3>6. (j + 1 \in T => i + 1 \in U) /\ (j + 2 \in T => i + 2 \in U)
      BY <3>4
    <3> QED  BY <3>2, <3>3, <3>5, <3>6 DEF GroupAt, n
  <2>3. CASE i \in S /\ ~ (i <= m)
    <3>1. i = m + 1
      BY <2>3, <1>2, <1>8
    <3> QED  BY <3>1, <2>2, <1>9
  <2> QED  BY <2>1, <2>2, <2>3
<1>12. /\ Once(s) /\ Once(t) /\ NamedIn(s) = N /\ NamedIn(t) = M
       /\ \A o \in N \cap ValueOptions : Says(s, o, v[o])
       /\ \A o \in M \cap ValueOptions : Says(t, o, v[o])
  BY DEF Reads
<1>13. Once(c)
  <2> SUFFICES ASSUME NEW i \in 1 .. m + n, NEW j \in 1 .. m + n,
                      NameAt(c, i) = NameAt(c, j), ~ IsValueAt(c, i)
               PROVE  i = j
    BY <1>3 DEF Once
  <2>1. \A k \in 1 .. m : ~ IsValueAt(s, k) => NameAt(s, k) \in N
    BY <1>2, <1>12 DEF NamedIn, NameAt, IsValueAt
  <2>2. \A k \in 1 .. n : ~ IsValueAt(t, k) => NameAt(t, k) \in M
    BY <1>2, <1>12 DEF NamedIn, NameAt, IsValueAt
  <2>3. ~ IsValueAt(c, j)
    BY DEF NameAt, IsValueAt
  <2>4. CASE i \in 1 .. m /\ j \in 1 .. m
    BY <2>4, <1>2, <1>7, <1>12 DEF Once
  <2>5. ASSUME NEW p \in 1 .. n, NEW q \in 1 .. n, i = m + p, j = m + q PROVE i = j
    BY <2>5, <1>2, <1>7, <1>12 DEF Once
  <2>6. ASSUME i \in 1 .. m, NEW q \in 1 .. n, j = m + q PROVE FALSE
    <3>1. NameAt(c, i) \in N
      BY <2>1, <2>6, <1>7
    <3>2. NameAt(c, j) \in M
      BY <2>2, <2>3, <2>6, <1>7
    <3> QED  BY <3>1, <3>2
  <2>7. ASSUME j \in 1 .. m, NEW p \in 1 .. n, i = m + p PROVE FALSE
    <3>1. NameAt(c, j) \in N
      BY <2>1, <2>3, <2>7, <1>7
    <3>2. NameAt(c, i) \in M
      BY <2>2, <2>7, <1>7
    <3> QED  BY <3>1, <3>2
  <2> QED  BY <2>4, <2>5, <2>6, <2>7, <1>6
<1>14. NamedIn(c) = N \cup M
  <2>1. {NameAt(c, i) : i \in 1 .. m + n} =
          {NameAt(s, i) : i \in 1 .. m} \cup {NameAt(t, i) : i \in 1 .. n}
    BY <1>4, <1>5, <1>6, <1>7
  <2> QED  BY <2>1, <1>2, <1>3, <1>12 DEF NamedIn
<1>15. ASSUME NEW o \in (N \cup M) \cap ValueOptions PROVE Says(c, o, v[o])
  <2>1. CASE o \in N
    <3>1. PICK i \in 1 .. m : i + 1 <= m /\ NameAt(s, i) = o /\ s[i + 1] = Value(v[o])
      BY <2>1, <1>12 DEF Says, m
    <3>2. i + 1 \in 1 .. m /\ i + 1 <= m + n
      BY <3>1, <1>2
    <3>3. c[i + 1] = Value(v[o]) /\ NameAt(c, i) = o /\ i \in 1 .. m + n
      BY <3>1, <3>2, <1>4, <1>7
    <3> QED  BY <3>2, <3>3, <1>2 DEF Says
  <2>2. CASE o \in M
    <3>1. PICK i \in 1 .. n : i + 1 <= n /\ NameAt(t, i) = o /\ t[i + 1] = Value(v[o])
      BY <2>2, <1>12 DEF Says, n
    <3>2. i + 1 \in 1 .. n /\ (m + i) + 1 = m + (i + 1) /\ (m + i) + 1 <= m + n
      BY <3>1, <1>2
    <3>3. c[(m + i) + 1] = Value(v[o]) /\ NameAt(c, m + i) = o /\ m + i \in 1 .. m + n
      BY <3>1, <3>2, <1>5, <1>7
    <3> QED  BY <3>2, <3>3, <1>2 DEF Says
  <2> QED  BY <2>1, <2>2
<1> QED
  <2>1. \E V \in SUBSET (1 .. Len(c) + 1) : a \in V /\ Groups(c, V)
    <3> HIDE DEF U
    <3> QED  BY <1>10, <1>11
  <2>2. \A i \in 1 .. a - 1 : i \in DOMAIN c /\ c[i] = Benchmark
    <3>1. \A i \in 1 .. a - 1 : i \in 1 .. m /\ s[i] = Benchmark
      BY <1>2 DEF Reads
    <3> QED  BY <3>1, <1>3, <1>4
  <2> QED  BY <2>1, <2>2, <1>2, <1>13, <1>14, <1>15 DEF Reads, c

(* Nothing, one flag, an option with its value, and the command itself.    *)
LEMMA ReadsNothing ==
  ASSUME NEW v
  PROVE  Reads(1, <<>>, {}, v)
<1>1. <<>> \in Seq(Tokens) /\ Len(<<>>) = 0 /\ DOMAIN <<>> = {}
  OBVIOUS
<1>2. Groups(<<>>, {1})
  BY <1>1 DEF Groups
<1>3. Once(<<>>) /\ NamedIn(<<>>) = {}
  BY <1>1 DEF Once, NamedIn
<1>4. {1} \in SUBSET (1 .. Len(<<>>) + 1)
  BY <1>1
<1> QED  BY <1>1, <1>2, <1>3, <1>4 DEF Reads

(* A flag is read as one.                                                  *)
LEMMA ReadsFlag ==
  ASSUME NEW f \in Flags, NEW v
  PROVE  Reads(1, <<Option(f)>>, {f}, v)
<1> DEFINE o == Option(f)
           s == <<o>>
<1>1. o \in Tokens
  <2>1. f \in Texts /\ f # ""
    BY Names
  <2>2. <<>> \in Seq(Texts)
    OBVIOUS
  <2> QED  BY <2>1, <2>2 DEF Option, Tokens
<1>2. o.option = f /\ f # "" /\ f \notin ValueOptions
  BY Names DEF Option
<1> HIDE DEF o
<1>3. s \in Seq(Tokens) /\ Len(s) = 1 /\ DOMAIN s = {1} /\ s[1] = o
  BY <1>1
<1> HIDE DEF s
<1>4. NameAt(s, 1) = f
  BY <1>2, <1>3 DEF NameAt
<1>5. Groups(s, {1, 2})
  BY <1>3, <1>4 DEF Groups, GroupAt
<1>6. Once(s)
  BY <1>3 DEF Once
<1>7. NamedIn(s) = {f}
  BY <1>2, <1>3, <1>4 DEF NamedIn
<1>8. {1, 2} \in SUBSET (1 .. Len(s) + 1)
  BY <1>3
<1>9. {f} \cap ValueOptions = {}
  BY <1>2
<1> QED  BY <1>3, <1>5, <1>6, <1>7, <1>8, <1>9 DEF Reads, s, o

(* An option is read with its value; without items nothing is written.     *)
LEMMA ReadsPair ==
  ASSUME NEW name \in ValueOptions, NEW v, v[name] \in Seq(Texts)
  PROVE  Reads(1, Pair(name, v[name]), IF v[name] = <<>> THEN {} ELSE {name}, v)
<1>1. CASE v[name] = <<>>
  <2>1. Pair(name, v[name]) = <<>>
    BY <1>1 DEF Pair
  <2> QED  BY <2>1, <1>1, ReadsNothing
<1>2. CASE v[name] # <<>>
  <2> DEFINE o == Option(name)
             w == Value(v[name])
             s == <<o, w>>
  <2>1. o \in Tokens
    <3>1. name \in Texts /\ name # ""
      BY Names
    <3>2. <<>> \in Seq(Texts)
      OBVIOUS
    <3> QED  BY <3>1, <3>2 DEF Option, Tokens
  <2>2. w \in Tokens
    <3>1. "" \in Texts
      BY TextsAssumption
    <3> QED  BY <3>1, <1>2 DEF Value, Tokens
  <2>3. o.option = name /\ w.option = "" /\ name # ""
    BY Names DEF Option, Value
  <2> HIDE DEF o, w
  <2>4. s \in Seq(Tokens) /\ Len(s) = 2 /\ DOMAIN s = {1, 2} /\ s[1] = o /\ s[2] = w
    BY <2>1, <2>2
  <2> HIDE DEF s
  <2>5. NameAt(s, 1) = name /\ NameAt(s, 2) = "" /\ IsValueAt(s, 2)
    BY <2>3, <2>4 DEF NameAt, IsValueAt
  <2>6. Groups(s, {1, 3})
    <3>1. 1 + 1 = 2 /\ 1 + 2 = 3 /\ ~ (3 <= Len(s)) /\ 2 <= Len(s)
      BY <2>4
    <3>2. GroupAt(s, {1, 3}, 1)
      BY <3>1, <2>5 DEF GroupAt
    <3> QED  BY <3>1, <3>2 DEF Groups
  <2>7. Once(s)
    BY <2>3, <2>4, <2>5 DEF Once, NameAt
  <2>8. NamedIn(s) = {name}
    <3>1. NamedIn(s) = {NameAt(s, 1), NameAt(s, 2)} \ {""}
      BY <2>4 DEF NamedIn
    <3> QED  BY <3>1, <2>3, <2>5
  <2>9. {1, 3} \in SUBSET (1 .. Len(s) + 1)
    BY <2>4
  <2>10. Says(s, name, v[name])
    <3>1. 1 \in 1 .. Len(s) /\ 1 + 1 <= Len(s) /\ 1 + 1 = 2
      BY <2>4
    <3>2. s[1 + 1] = Value(v[name])
      BY <2>4, <3>1 DEF w
    <3> QED  BY <3>1, <3>2, <2>5 DEF Says
  <2>11. s = Pair(name, v[name])
    BY <1>2 DEF Pair, s, o, w
  <2>12. Reads(1, s, {name}, v)
    BY <2>4, <2>6, <2>7, <2>8, <2>9, <2>10 DEF Reads
  <2> QED  BY <1>2, <2>11, <2>12
<1> QED  BY <1>1, <1>2

(* The command stands in front of what is read from the second argument.   *)
LEMMA ReadsCommand ==
  ASSUME NEW v
  PROVE  Reads(2, <<Benchmark>>, {}, v)
<1> DEFINE s == <<Benchmark>>
<1>1. Benchmark \in Tokens
  <2> DEFINE word == "benchmark"
  <2>1. word \in Texts
    BY TextsAssumption
  <2>2. "" \in Texts
    BY TextsAssumption
  <2> HIDE DEF word
  <2>3. <<word>> \in Seq(Texts) /\ <<word>> # <<>>
    BY <2>1
  <2>4. Value(<<word>>) \in Tokens
    BY <2>2, <2>3 DEF Value, Tokens
  <2> QED  BY <2>4 DEF Benchmark, word
<1>2. Benchmark.option = ""
  BY DEF Benchmark, Value
<1>3. s \in Seq(Tokens) /\ Len(s) = 1 /\ DOMAIN s = {1} /\ s[1] = Benchmark
  BY <1>1
<1> HIDE DEF s
<1>4. NameAt(s, 1) = ""
  BY <1>2, <1>3 DEF NameAt
<1>5. Groups(s, {2})
  BY <1>3 DEF Groups
<1>6. Once(s)
  BY <1>3 DEF Once
<1>7. NamedIn(s) = {}
  BY <1>3, <1>4 DEF NamedIn
<1>8. {2} \in SUBSET (1 .. Len(s) + 1)
  BY <1>3
<1> QED  BY <1>3, <1>5, <1>6, <1>7, <1>8 DEF Reads, s

(* An option is named only when it has a value.                            *)
Opt(name, v) == IF v[name] = <<>> THEN {} ELSE {name}

(* An option that was not named yet may follow.                            *)
LEMMA ReadsWithPair ==
  ASSUME NEW a, NEW s, NEW N, NEW v, NEW name \in ValueOptions, v[name] \in Seq(Texts),
         Reads(a, s, N, v), name \notin N
  PROVE  Reads(a, s \o Pair(name, v[name]), N \cup Opt(name, v), v)
<1>1. Reads(1, Pair(name, v[name]), Opt(name, v), v)
  BY ReadsPair DEF Opt
<1>2. N \cap Opt(name, v) = {}
  BY DEF Opt
<1> QED  BY <1>1, <1>2, ReadsConcat

(* The values that the form stands for, by option; none for a list that is *)
(* not shown.                                                              *)
List(b) == UniquePreservingOrder(Shown(b, form[b]))
Meant ==
  [o \in ValueOptions |->
     CASE o = "--input" -> <<"images">>
       [] o = "--output" -> <<"output">>
       [] o = "--watermark" -> <<"mark.png">>
       [] o = "--backends" -> InOrder(Selected)
       [] o = "--image-counts" -> <<form.count>>
       [] o = "--warmups" -> <<Schedule[1]>>
       [] o = "--repetitions" -> <<Schedule[2]>>
       [] o = "--csv" -> <<form.csv>>
       [] o = "--threads" -> List(OpenMP)
       [] o = "--cuda-batches" -> List(Cuda)]

MeantFlags == {"--append"} \cup IF form.cold THEN {"--cold-start"} ELSE {}

(* The meaning of each option.                                             *)
LEMMA MeantValues ==
  /\ Meant["--input"] = <<"images">> /\ Meant["--output"] = <<"output">>
  /\ Meant["--watermark"] = <<"mark.png">> /\ Meant["--backends"] = InOrder(Selected)
  /\ Meant["--image-counts"] = <<form.count>> /\ Meant["--warmups"] = <<Schedule[1]>>
  /\ Meant["--repetitions"] = <<Schedule[2]>> /\ Meant["--csv"] = <<form.csv>>
  /\ Meant["--threads"] = List(OpenMP) /\ Meant["--cuda-batches"] = List(Cuda)
  BY DEF Meant, ValueOptions, RequiredOptions

(* Every value that a form stands for is a sequence of texts.              *)
LEMMA MeantTypes ==
  ASSUME form \in Forms, NEW o \in ValueOptions
  PROVE  Meant[o] \in Seq(Texts)
<1>1. \A t \in Texts : <<t>> \in Seq(Texts)
  OBVIOUS
<1>2. InOrder(Selected) \in Seq(Texts)
  <2>1. InOrder(Selected) \in Seq(Backends)
    BY InOrderList
  <2> QED  BY <2>1, TextsAssumption, SeqMonotonic
<1>3. List(OpenMP) \in Seq(Texts) /\ List(Cuda) \in Seq(Texts)
  BY FormTypes, UniqueList DEF List
<1>4. Schedule[1] \in Texts /\ Schedule[2] \in Texts
  BY TextsAssumption, NumberAssumption DEF Schedule
<1>5. form.count \in Texts /\ form.csv \in Texts
  BY FormTypes
<1>6. "images" \in Texts /\ "output" \in Texts /\ "mark.png" \in Texts
  BY TextsAssumption
<1>7. \/ o = "--input" \/ o = "--output" \/ o = "--watermark" \/ o = "--backends"
      \/ o = "--image-counts" \/ o = "--warmups" \/ o = "--repetitions" \/ o = "--csv"
      \/ o = "--threads" \/ o = "--cuda-batches"
  BY DEF ValueOptions, RequiredOptions
<1> QED  BY <1>1, <1>2, <1>3, <1>4, <1>5, <1>6, <1>7, MeantValues

(* command_args says what the form means, every option and flag once.      *)
LEMMA CommandArgsRead ==
  ASSUME form \in Forms
  PROVE  Reads(2, CommandArgs, {o \in ValueOptions : Meant[o] # <<>>} \cup MeantFlags, Meant)
<1> DEFINE cold == IF form.cold THEN <<Option("--cold-start")>> ELSE <<>>
           C == IF form.cold THEN {"--cold-start"} ELSE {}
           tail == <<Option("--append")>>
           q0 == <<Benchmark>>
           q1 == q0 \o Pair("--input", Meant["--input"])
           q2 == q1 \o Pair("--output", Meant["--output"])
           q3 == q2 \o Pair("--watermark", Meant["--watermark"])
           q4 == q3 \o Pair("--backends", Meant["--backends"])
           q5 == q4 \o Pair("--image-counts", Meant["--image-counts"])
           q6 == q5 \o Pair("--warmups", Meant["--warmups"])
           q7 == q6 \o Pair("--repetitions", Meant["--repetitions"])
           q8 == q7 \o Pair("--csv", Meant["--csv"])
           q9 == q8 \o cold
           q10 == q9 \o Pair("--threads", Meant["--threads"])
           q11 == q10 \o Pair("--cuda-batches", Meant["--cuda-batches"])
           q12 == q11 \o tail
           N0 == {}
           N1 == N0 \cup Opt("--input", Meant)
           N2 == N1 \cup Opt("--output", Meant)
           N3 == N2 \cup Opt("--watermark", Meant)
           N4 == N3 \cup Opt("--backends", Meant)
           N5 == N4 \cup Opt("--image-counts", Meant)
           N6 == N5 \cup Opt("--warmups", Meant)
           N7 == N6 \cup Opt("--repetitions", Meant)
           N8 == N7 \cup Opt("--csv", Meant)
           N9 == N8 \cup C
           N10 == N9 \cup Opt("--threads", Meant)
           N11 == N10 \cup Opt("--cuda-batches", Meant)
           N12 == N11 \cup {"--append"}
<1> PICK v : v = Meant
  OBVIOUS
<1>1. \A o \in ValueOptions : v[o] \in Seq(Texts)
  BY MeantTypes
<1>2. Reads(1, cold, C, v) /\ Reads(1, tail, {"--append"}, v)
  BY ReadsFlag, ReadsNothing DEF Flags
<1>3. Reads(2, q0, N0, v) /\ N0 \subseteq {}
  BY ReadsCommand
<1>4. /\ Reads(2, q1, N1, v)
      /\ N1 \subseteq {"--input"}
  <2> HIDE DEF q0, N0
  <2>1. "--input" \in ValueOptions /\ "--input" \notin N0
    BY <1>3 DEF ValueOptions, RequiredOptions
  <2>2. Opt("--input", Meant) \subseteq {"--input"}
    BY DEF Opt
  <2>3. Reads(2, q1, N1, v)
    BY <1>3, <1>1, <2>1, ReadsWithPair
  <2> QED  BY <1>3, <2>2, <2>3
<1>5. /\ Reads(2, q2, N2, v)
      /\ N2 \subseteq {"--input", "--output"}
  <2> HIDE DEF q1, N1
  <2>1. "--output" \in ValueOptions /\ "--output" \notin N1
    BY <1>4 DEF ValueOptions, RequiredOptions
  <2>2. Opt("--output", Meant) \subseteq {"--output"}
    BY DEF Opt
  <2>3. Reads(2, q2, N2, v)
    BY <1>4, <1>1, <2>1, ReadsWithPair
  <2> QED  BY <1>4, <2>2, <2>3
<1>6. /\ Reads(2, q3, N3, v)
      /\ N3 \subseteq {"--input", "--output", "--watermark"}
  <2> HIDE DEF q2, N2
  <2>1. "--watermark" \in ValueOptions /\ "--watermark" \notin N2
    BY <1>5 DEF ValueOptions, RequiredOptions
  <2>2. Opt("--watermark", Meant) \subseteq {"--watermark"}
    BY DEF Opt
  <2>3. Reads(2, q3, N3, v)
    BY <1>5, <1>1, <2>1, ReadsWithPair
  <2> QED  BY <1>5, <2>2, <2>3
<1>7. /\ Reads(2, q4, N4, v)
      /\ N4 \subseteq {"--input", "--output", "--watermark", "--backends"}
  <2> HIDE DEF q3, N3
  <2>1. "--backends" \in ValueOptions /\ "--backends" \notin N3
    BY <1>6 DEF ValueOptions, RequiredOptions
  <2>2. Opt("--backends", Meant) \subseteq {"--backends"}
    BY DEF Opt
  <2>3. Reads(2, q4, N4, v)
    BY <1>6, <1>1, <2>1, ReadsWithPair
  <2> QED  BY <1>6, <2>2, <2>3
<1>8. /\ Reads(2, q5, N5, v)
      /\ N5 \subseteq {"--input", "--output", "--watermark", "--backends", "--image-counts"}
  <2> HIDE DEF q4, N4
  <2>1. "--image-counts" \in ValueOptions /\ "--image-counts" \notin N4
    BY <1>7 DEF ValueOptions, RequiredOptions
  <2>2. Opt("--image-counts", Meant) \subseteq {"--image-counts"}
    BY DEF Opt
  <2>3. Reads(2, q5, N5, v)
    BY <1>7, <1>1, <2>1, ReadsWithPair
  <2> QED  BY <1>7, <2>2, <2>3
<1>9. /\ Reads(2, q6, N6, v)
      /\ N6 \subseteq {"--input", "--output", "--watermark", "--backends", "--image-counts",
                       "--warmups"}
  <2> HIDE DEF q5, N5
  <2>1. "--warmups" \in ValueOptions /\ "--warmups" \notin N5
    BY <1>8 DEF ValueOptions, RequiredOptions
  <2>2. Opt("--warmups", Meant) \subseteq {"--warmups"}
    BY DEF Opt
  <2>3. Reads(2, q6, N6, v)
    BY <1>8, <1>1, <2>1, ReadsWithPair
  <2> QED  BY <1>8, <2>2, <2>3
<1>10. /\ Reads(2, q7, N7, v)
       /\ N7 \subseteq {"--input", "--output", "--watermark", "--backends", "--image-counts",
                        "--warmups", "--repetitions"}
  <2> HIDE DEF q6, N6
  <2>1. "--repetitions" \in ValueOptions /\ "--repetitions" \notin N6
    BY <1>9 DEF ValueOptions, RequiredOptions
  <2>2. Opt("--repetitions", Meant) \subseteq {"--repetitions"}
    BY DEF Opt
  <2>3. Reads(2, q7, N7, v)
    BY <1>9, <1>1, <2>1, ReadsWithPair
  <2> QED  BY <1>9, <2>2, <2>3
<1>11. /\ Reads(2, q8, N8, v)
       /\ N8 \subseteq {"--input", "--output", "--watermark", "--backends", "--image-counts",
                        "--warmups", "--repetitions", "--csv"}
  <2> HIDE DEF q7, N7
  <2>1. "--csv" \in ValueOptions /\ "--csv" \notin N7
    BY <1>10 DEF ValueOptions, RequiredOptions
  <2>2. Opt("--csv", Meant) \subseteq {"--csv"}
    BY DEF Opt
  <2>3. Reads(2, q8, N8, v)
    BY <1>10, <1>1, <2>1, ReadsWithPair
  <2> QED  BY <1>10, <2>2, <2>3
<1>12. /\ Reads(2, q9, N9, v)
       /\ N9 \subseteq {"--input", "--output", "--watermark", "--backends", "--image-counts",
                        "--warmups", "--repetitions", "--csv", "--cold-start"}
  <2>1. C \subseteq {"--cold-start"}
    OBVIOUS
  <2> HIDE DEF q8, N8, cold, C
  <2>2. N8 \cap C = {}
    BY <1>11, <2>1
  <2>3. Reads(2, q9, N9, v)
    BY <1>11, <1>2, <2>2, ReadsConcat
  <2> QED  BY <1>11, <2>1, <2>3
<1>13. /\ Reads(2, q10, N10, v)
       /\ N10 \subseteq {"--input", "--output", "--watermark", "--backends", "--image-counts",
                         "--warmups", "--repetitions", "--csv", "--cold-start", "--threads"}
  <2> HIDE DEF q9, N9
  <2>1. "--threads" \in ValueOptions /\ "--threads" \notin N9
    BY <1>12 DEF ValueOptions, RequiredOptions
  <2>2. Opt("--threads", Meant) \subseteq {"--threads"}
    BY DEF Opt
  <2>3. Reads(2, q10, N10, v)
    BY <1>12, <1>1, <2>1, ReadsWithPair
  <2> QED  BY <1>12, <2>2, <2>3
<1>14. /\ Reads(2, q11, N11, v)
       /\ N11 \subseteq {"--input", "--output", "--watermark", "--backends", "--image-counts",
                         "--warmups", "--repetitions", "--csv", "--cold-start", "--threads",
                         "--cuda-batches"}
  <2> HIDE DEF q10, N10
  <2>1. "--cuda-batches" \in ValueOptions /\ "--cuda-batches" \notin N10
    BY <1>13 DEF ValueOptions, RequiredOptions
  <2>2. Opt("--cuda-batches", Meant) \subseteq {"--cuda-batches"}
    BY DEF Opt
  <2>3. Reads(2, q11, N11, v)
    BY <1>13, <1>1, <2>1, ReadsWithPair
  <2> QED  BY <1>13, <2>2, <2>3
<1>15. /\ Reads(2, q12, N12, v)
       /\ N12 \subseteq {"--input", "--output", "--watermark", "--backends", "--image-counts",
                         "--warmups", "--repetitions", "--csv", "--cold-start", "--threads",
                         "--cuda-batches", "--append"}
  <2>1. {"--append"} \subseteq {"--append"}
    OBVIOUS
  <2> HIDE DEF q11, N11, tail
  <2>2. N11 \cap {"--append"} = {}
    BY <1>14, <2>1
  <2>3. Reads(2, q12, N12, v)
    BY <1>14, <1>2, <2>2, ReadsConcat
  <2> QED  BY <1>14, <2>1, <2>3
<1>20. CommandArgs = q12
  BY MeantValues DEF CommandArgs, List
<1>21. N12 = {o \in ValueOptions : Meant[o] # <<>>} \cup MeantFlags
  BY DEF Opt, MeantFlags, ValueOptions, RequiredOptions
<1> HIDE DEF q12, N12
<1> QED  BY <1>15, <1>20, <1>21

-----------------------------------------------------------------------------
(* The steps of the dashboard, of a terminal and of parse_cli.             *)

(* What is typed and what conversion leaves are tokens too.                *)
LEMMA TypeNext ==
  ASSUME CommandType, [Next]_vars
  PROVE  CommandType'
<1> USE DEF CommandType
<1>1. ASSUME Submit PROVE CommandType'
  BY <1>1, CommandArgsRead DEF Submit, Reads
<1>2. ASSUME Edit PROVE CommandType'
  <2>1. PICK at \in 1 .. Len(arguments) + 1, n \in 0 .. 2, new \in Spare :
          /\ at + n <= Len(arguments) + 1
          /\ arguments' = SubSeq(arguments, 1, at - 1) \o new
                            \o SubSeq(arguments, at + n, Len(arguments))
    BY <1>2 DEF Edit
  <2>2. new \in Seq(Tokens)
    BY SpareAssumption
  <2> DEFINE a == SubSeq(arguments, 1, at - 1)
             b == SubSeq(arguments, at + n, Len(arguments))
  <2>3. a \in Seq(Tokens)
    <3>1. \A i \in 1 .. (at - 1) : arguments[i] \in Tokens
      OBVIOUS
    <3> QED  BY <3>1, SubSeqProperties
  <2>4. b \in Seq(Tokens)
    <3>1. \A i \in at + n .. Len(arguments) : arguments[i] \in Tokens
      OBVIOUS
    <3> QED  BY <3>1, SubSeqProperties
  <2>5. arguments' = a \o new \o b
    BY <2>1
  <2> HIDE DEF a, b
  <2>6. arguments' \in Seq(Tokens)
    BY <2>2, <2>3, <2>4, <2>5
  <2> QED  BY <1>2, <2>6 DEF Edit
<1>3. ASSUME Convert PROVE CommandType'
  <2>1. Blank \in Tokens
    <3> DEFINE empty == ""
    <3>1. empty \in Texts
      BY TextsAssumption
    <3> HIDE DEF empty
    <3>2. <<empty>> \in Seq(Texts) /\ <<empty>> # <<>>
      BY <3>1
    <3>3. [option |-> empty, items |-> <<empty>>] \in [option : Texts, items : Seq(Texts)]
      BY <3>1, <3>2
    <3> QED  BY <3>2, <3>3 DEF Blank, Value, Tokens, empty
  <2>2. arguments' \in Seq(Tokens)
    <3>1. CASE UNCHANGED arguments
      BY <3>1
    <3>2. CASE \E i \in DOMAIN arguments : arguments' = [arguments EXCEPT ![i] = Blank]
      BY <3>2, <2>1
    <3> QED  BY <3>1, <3>2, <1>3 DEF Convert
  <2> QED  BY <1>3, <2>2 DEF Convert
<1>4. ASSUME Command PROVE CommandType'
  BY <1>4 DEF Command
<1>5. ASSUME TakeFlag PROVE CommandType'
  BY <1>5 DEF TakeFlag
<1>6. ASSUME TakeValue PROVE CommandType'
  <2>1. CASE UNCHANGED <<values, index>>
    BY <1>6, <2>1 DEF TakeValue
  <2>2. CASE ~ UNCHANGED <<values, index>>
    <3>1. /\ Token.option \in ValueOptions /\ HasValue /\ index' = index + 2
          /\ values' = [values EXCEPT ![Token.option] =
                          IF @ = Missing THEN arguments[index + 1] ELSE @]
          /\ UNCHANGED <<form, arguments, flags>> /\ index <= Len(arguments)
      BY <1>6, <2>2 DEF TakeValue
    <3>2. arguments[index + 1].option = ""
      BY <3>1 DEF HasValue
    <3>3. index + 1 \in 1 .. Len(arguments)
      <4>1. index < Len(arguments)
        BY <3>1 DEF HasValue
      <4> QED  BY <4>1
    <3>4. arguments[index + 1] \in Tokens
      BY <3>3, ElementOfSeq
    <3>5. arguments[index + 1] \in Values
      BY <3>2, <3>4 DEF Values
    <3>6. values' \in [ValueOptions -> Values] /\ index' \in Nat \ {0}
      BY <3>1, <3>5
    <3> QED  BY <3>1, <3>6
  <2> QED  BY <2>1, <2>2
<1>7. ASSUME Finish PROVE CommandType'
  BY <1>7 DEF Finish
<1>8. CASE UNCHANGED vars
  BY <1>8 DEF vars
<1> QED  BY <1>1, <1>2, <1>3, <1>4, <1>5, <1>6, <1>7, <1>8 DEF Next

(* The conjuncts of LoopInv for a step that stays in the loop.             *)
Looping ==
  /\ index >= 2
  /\ \A i \in 2 .. Len(arguments) : i < index => Taken(i)
  /\ \A o \in ValueOptions : Given(o) => Before(o)
  /\ \A f \in flags : Before(f)

(* A flag is taken: what was taken stays so.                               *)
LEMMA FlagTaken ==
  ASSUME CommandType, Looping, index <= Len(arguments), Token.option \in Flags,
         flags' = flags \cup {Token.option}, index' = index + 1,
         UNCHANGED <<arguments, values>>
  PROVE  Looping'
<1> PICK name : name = Token.option
  OBVIOUS
<1>1. Len(arguments) \in Nat /\ index \in Nat
  BY DEF CommandType
<1>2. index >= 2
  BY DEF Looping
<1>3. index' >= 2
  BY <1>1, <1>2
<1>4. ASSUME NEW i \in 2 .. Len(arguments), i < index + 1 PROVE Taken(i)'
  <2>1. CASE i = index
    BY <2>1 DEF Taken, Token
  <2>2. CASE i # index
    <3>1. i < index
      BY <1>1, <1>4, <2>2
    <3>2. Taken(i)
      BY <3>1 DEF Looping
    <3> QED  BY <3>2 DEF Taken
  <2> QED  BY <2>1, <2>2
<1>5. ASSUME NEW n, Before(n) PROVE Before(n)'
  BY <1>1, <1>5 DEF Before
<1>6. Before(name)'
  <2>1. index \in 2 .. Len(arguments) /\ index < index + 1
    BY <1>1, <1>2
  <2> QED  BY <2>1 DEF Before, Token
<1>7. \A o \in ValueOptions : Given(o)' => Before(o)'
  BY <1>5 DEF Looping, Given
<1>8. \A f \in flags' : Before(f)'
  BY <1>5, <1>6 DEF Looping
<1> QED  BY <1>3, <1>4, <1>7, <1>8 DEF Looping

(* A value is taken: it is no option, and no value is replaced.            *)
LEMMA ValueTaken ==
  ASSUME CommandType, Looping, index <= Len(arguments), Token.option \in ValueOptions,
         ~ Duplicate, HasValue,
         values' = [values EXCEPT ![Token.option] =
                      IF @ = Missing THEN arguments[index + 1] ELSE @],
         index' = index + 2, UNCHANGED <<arguments, flags>>
  PROVE  Looping'
<1> PICK name : name = Token.option
  OBVIOUS
<1>1. Len(arguments) \in Nat /\ index \in Nat
  BY DEF CommandType
<1>2. index >= 2
  BY DEF Looping
<1>3. index' >= 2
  BY <1>1, <1>2
<1>4. values[name] = Missing
  BY DEF Duplicate
<1>5. /\ values'[name] = arguments[index + 1]
      /\ \A o \in ValueOptions : o # name => values'[o] = values[o]
  BY <1>4 DEF CommandType
<1>6. index < Len(arguments)
  BY DEF HasValue
<1>7. arguments[index + 1].option = ""
  BY DEF HasValue
<1>8. \A i \in 1 .. Len(arguments) : arguments[i] # Missing
  <2> TAKE i \in 1 .. Len(arguments)
  <2>1. arguments[i] \in Tokens
    BY ElementOfSeq DEF CommandType
  <2>2. Missing \notin Tokens
    BY Names
  <2> QED  BY <2>1, <2>2
<1>9. ASSUME NEW i \in 2 .. Len(arguments), i < index + 2 PROVE Taken(i)'
  <2>1. CASE i = index
    BY <2>1, <1>5, <1>6 DEF Taken, Token
  <2>2. CASE i = index + 1
    <3>1. i - 1 = index
      BY <1>1, <2>2
    <3> QED  BY <3>1, <2>2, <1>7 DEF Taken, Token
  <2>3. CASE i # index /\ i # index + 1
    <3>1. i < index
      BY <1>1, <1>9, <2>3
    <3>2. Taken(i)
      BY <3>1 DEF Looping
    <3>3. CASE arguments[i].option \in ValueOptions /\ i < Len(arguments)
                 /\ values[arguments[i].option] = arguments[i + 1]
      <4>1. i + 1 \in 1 .. Len(arguments)
        BY <1>1, <3>3
      <4>2. arguments[i].option # name
        BY <4>1, <1>4, <1>8, <3>3
      <4>3. values'[arguments[i].option] = arguments[i + 1]
        BY <4>2, <1>5, <3>3
      <4> QED  BY <4>3, <3>3 DEF Taken
    <3> QED  BY <3>2, <3>3 DEF Taken
  <2> QED  BY <2>1, <2>2, <2>3
<1>10. ASSUME NEW n, Before(n) PROVE Before(n)'
  BY <1>1, <1>10 DEF Before
<1>11. Before(name)'
  <2>1. index \in 2 .. Len(arguments) /\ index < index + 2
    BY <1>1, <1>2
  <2> QED  BY <2>1 DEF Before, Token
<1>12. \A o \in ValueOptions : Given(o)' => Before(o)'
  <2> TAKE o \in ValueOptions
  <2>1. CASE o = name
    BY <2>1, <1>11
  <2>2. CASE o # name
    BY <2>2, <1>5, <1>10 DEF Looping, Given
  <2> QED  BY <2>1, <2>2
<1>13. \A f \in flags' : Before(f)'
  BY <1>10 DEF Looping
<1> QED  BY <1>3, <1>9, <1>12, <1>13 DEF Looping

(* Every step keeps the account of what the loop has taken.                *)
LEMMA LoopNext ==
  ASSUME CommandType, LoopInv, [Next]_vars
  PROVE  LoopInv'
<1> DEFINE Empty == values = [o \in ValueOptions |-> Missing] /\ flags = {}
<1>0. /\ pc \in {"form", "refused", "convert", "command"} => Empty
      /\ pc \in {"options", "accepted"} => Looping
      /\ pc = "accepted" =>
           index > Len(arguments) /\ Acceptable /\ plan = BuildPlan(BenchmarkRequest)
  BY DEF LoopInv, Looping
<1> SUFFICES
       /\ pc' \in {"form", "refused", "convert", "command"} => Empty'
       /\ pc' \in {"options", "accepted"} => Looping'
       /\ pc' = "accepted" => (index > Len(arguments) /\ Acceptable
                                /\ plan = BuildPlan(BenchmarkRequest))'
  BY DEF LoopInv, Looping
<1> DEFINE Goal == /\ pc' \in {"form", "refused", "convert", "command"} => Empty'
                   /\ pc' \in {"options", "accepted"} => Looping'
                   /\ pc' = "accepted" => (index > Len(arguments) /\ Acceptable
                                            /\ plan = BuildPlan(BenchmarkRequest))'
<1>1. ASSUME Submit PROVE Goal
  BY <1>0, <1>1 DEF Submit
<1>2. ASSUME Edit PROVE Goal
  BY <1>0, <1>2 DEF Edit
<1>3. ASSUME Convert PROVE Goal
  BY <1>0, <1>3 DEF Convert
<1>4. ASSUME Command PROVE Goal
  <2>1. pc' \in {"ended", "options"} /\ index' = 2 /\ Empty'
    BY <1>0, <1>4 DEF Command, Ends, Reject
  <2>2. Looping'
    <3>1. \A i \in 2 .. Len(arguments') : ~ (i < 2)
      OBVIOUS
    <3>2. \A o \in ValueOptions : ~ Given(o)'
      BY <2>1 DEF Given
    <3>3. index' >= 2 /\ flags' = {}
      BY <2>1
    <3> QED  BY <2>1, <3>1, <3>2, <3>3 DEF Looping
  <2> QED  BY <2>1, <2>2
<1>5. ASSUME TakeFlag PROVE Goal
  <2>1. CASE Token.option \in flags
    BY <1>5, <2>1 DEF TakeFlag, Reject, Ends
  <2>2. CASE Token.option \notin flags
    <3>1. /\ pc = "options" /\ UNCHANGED pc /\ index <= Len(arguments) /\ Token.option \in Flags
          /\ flags' = flags \cup {Token.option} /\ index' = index + 1
          /\ UNCHANGED <<arguments, values>>
      BY <1>5, <2>2 DEF TakeFlag
    <3>2. Looping'
      BY <1>0, <3>1, FlagTaken
    <3> QED  BY <3>1, <3>2
  <2> QED  BY <2>1, <2>2
<1>6. ASSUME TakeValue PROVE Goal
  <2>1. CASE Token.option \notin ValueOptions \/ Duplicate \/ ~ HasValue
    BY <1>6, <2>1 DEF TakeValue, Reject, Ends
  <2>2. CASE Token.option \in ValueOptions /\ ~ Duplicate /\ HasValue
    <3>1. /\ pc = "options" /\ UNCHANGED pc /\ index <= Len(arguments)
          /\ values' = [values EXCEPT ![Token.option] =
                          IF @ = Missing THEN arguments[index + 1] ELSE @]
          /\ index' = index + 2 /\ UNCHANGED <<arguments, flags>>
      BY <1>6, <2>2 DEF TakeValue
    <3>2. Looping'
      BY <1>0, <2>2, <3>1, ValueTaken
    <3> QED  BY <3>1, <3>2
  <2> QED  BY <2>1, <2>2
<1>7. ASSUME Finish PROVE Goal
  <2>1. CASE Acceptable
    <3>1. /\ pc = "options" /\ pc' = "accepted" /\ index > Len(arguments)
          /\ plan' = BuildPlan(BenchmarkRequest)
          /\ UNCHANGED <<form, edited, arguments, index, values, flags>>
      BY <1>7, <2>1 DEF Finish
    <3>2. Looping'
      BY <1>0, <3>1 DEF Looping, Taken, Before, Given
    <3>3. Acceptable'
      BY <2>1, <3>1
      DEF Acceptable, Given, Items, ListsGiven, Requests, PositiveList, AnInteger, Cold
    <3>4. BenchmarkRequest' = BenchmarkRequest
      BY <3>1 DEF BenchmarkRequest, Items
    <3> QED  BY <3>1, <3>2, <3>3, <3>4
  <2>2. CASE ~ Acceptable
    BY <1>7, <2>2 DEF Finish, Reject, Ends
  <2> QED  BY <2>1, <2>2
<1>8. CASE UNCHANGED vars
  <2>1. UNCHANGED <<form, edited, arguments, index, values, flags, pc, plan>>
    BY <1>8 DEF vars
  <2>2. pc \in {"options", "accepted"} => Looping'
    BY <1>0, <2>1 DEF Looping, Taken, Before, Given
  <2>3. Acceptable => Acceptable'
    BY <2>1 DEF Acceptable, Given, Items, ListsGiven, Requests, PositiveList, AnInteger, Cold
  <2>4. BenchmarkRequest' = BenchmarkRequest
    BY <2>1 DEF BenchmarkRequest, Items
  <2> QED  BY <1>0, <2>1, <2>2, <2>3, <2>4
<1> QED  BY <1>1, <1>2, <1>3, <1>4, <1>5, <1>6, <1>7, <1>8 DEF Next

(* Nothing is taken at the start.                                          *)
LEMMA CommandInvInit ==
  ASSUME Init
  PROVE  CommandInv
<1>1. CommandType
  <2>1. arguments \in Seq(Tokens)
    BY DEF Init
  <2>2. values \in [ValueOptions -> Values]
    BY DEF Init, Values
  <2> QED  BY <2>1, <2>2 DEF Init, CommandType
<1>2. LoopInv
  BY DEF Init, LoopInv
<1> QED  BY <1>1, <1>2 DEF CommandInv

(* In every behaviour the loop accounts for what it has passed.            *)
LEMMA CommandInvHolds == Spec => []CommandInv
<1>1. Init => CommandInv
  BY CommandInvInit
<1>2. CommandInv /\ [Next]_vars => CommandInv'
  BY TypeNext, LoopNext DEF CommandInv
<1> QED  BY <1>1, <1>2, PTL DEF Spec

(* The loop of parse_cli leaves nothing out: what is accepted has in it    *)
(* only the command, flags, options, and the values in effect.             *)
THEOREM AcceptedLinesAreUsed == Spec => []NothingDropped
<1>1. CommandInv => NothingDropped
  <2> SUFFICES ASSUME CommandInv, pc = "accepted", NEW i \in 2 .. Len(arguments)
               PROVE  Taken(i)
    BY DEF NothingDropped, Taken
  <2>1. Len(arguments) \in Nat /\ index \in Nat
    BY DEF CommandInv, CommandType
  <2>2. index > Len(arguments)
    BY DEF CommandInv, LoopInv
  <2>3. i < index
    BY <2>1, <2>2
  <2> QED  BY <2>3 DEF CommandInv, LoopInv
<1> QED  BY <1>1, CommandInvHolds, PTL

(* A list option's items, as numbers.                                      *)
LEMMA NumbersOfAList ==
  ASSUME CommandType, NEW o \in ValueOptions, PositiveList(o)
  PROVE  /\ Numbers(Items(o)) \in Seq(Counts)
         /\ Len(Numbers(Items(o))) = Len(Items(o))
         /\ DOMAIN Numbers(Items(o)) = DOMAIN Items(o)
         /\ Given(o) => Numbers(Items(o)) # <<>>
<1>1. values[o] \in Values
  BY DEF CommandType
<1>2. Items(o) \in Seq(Texts) /\ (Given(o) => Items(o) # <<>>)
  <2>1. CASE values[o] = Missing
    <3>1. Missing.items = <<>>
      BY DEF Missing, Value
    <3>2. Items(o) = <<>>
      BY <2>1, <3>1 DEF Items
    <3>3. <<>> \in Seq(Texts)
      OBVIOUS
    <3> QED  BY <2>1, <3>2, <3>3 DEF Given
  <2>2. CASE values[o] # Missing
    <3>1. values[o] \in Tokens /\ values[o].option = ""
      BY <1>1, <2>2 DEF Values
    <3> QED  BY <3>1 DEF Tokens, Items
  <2> QED  BY <2>1, <2>2
<1> DEFINE s == Items(o)
           n == Numbers(s)
<1>3. n = [i \in DOMAIN s |-> Number[s[i]]]
  BY DEF Numbers
<1>4. Len(s) \in Nat /\ DOMAIN s = 1 .. Len(s)
  BY <1>2
<1>5. \A i \in DOMAIN s : Number[s[i]] \in Counts
  BY NumberAssumption DEF PositiveList, Positive, Nonnegative, Counts
<1> HIDE DEF s, n
<1>6. n \in Seq(Counts) /\ Len(n) = Len(s) /\ DOMAIN n = DOMAIN s
  BY <1>3, <1>4, <1>5
<1>7. s # <<>> => n # <<>>
  BY <1>2, <1>4, <1>6 DEF s
<1> QED  BY <1>2, <1>6, <1>7 DEF s, n

(* What is accepted is a request, with the lists that its back ends need.  *)
LEMMA AcceptedRequest ==
  ASSUME CommandType, Acceptable
  PROVE  /\ BenchmarkRequest \in Request
         /\ BenchmarkRequest.backends = Items("--backends")
         /\ BenchmarkRequest.counts = Numbers(Items("--image-counts"))
         /\ BenchmarkRequest.backends # <<>> /\ BenchmarkRequest.counts # <<>>
         /\ \A b \in Range(BenchmarkRequest.backends) : Listed(b, BenchmarkRequest)
         /\ DOMAIN BenchmarkRequest.counts = DOMAIN Items("--image-counts")
<1>1. /\ "--backends" \in ValueOptions /\ "--image-counts" \in ValueOptions
      /\ "--threads" \in ValueOptions /\ "--cuda-batches" \in ValueOptions
  BY DEF ValueOptions, RequiredOptions
<1>2. Given("--backends") /\ Given("--image-counts")
  BY DEF Acceptable, RequiredOptions
<1>3. /\ PositiveList("--image-counts") /\ PositiveList("--threads")
      /\ PositiveList("--cuda-batches")
  BY DEF Acceptable
<1> DEFINE backends == Items("--backends")
           counts == Numbers(Items("--image-counts"))
           threads == Numbers(Items("--threads"))
           batches == Numbers(Items("--cuda-batches"))
<1>4. /\ counts \in Seq(Counts) /\ counts # <<>>
      /\ DOMAIN counts = DOMAIN Items("--image-counts")
  BY <1>1, <1>2, <1>3, NumbersOfAList
<1>5. threads \in Seq(Counts) /\ (Given("--threads") => threads # <<>>)
  BY <1>1, <1>3, NumbersOfAList
<1>6. batches \in Seq(Counts) /\ (Given("--cuda-batches") => batches # <<>>)
  BY <1>1, <1>3, NumbersOfAList
<1>7. backends \in Seq(Texts) /\ backends # <<>>
  <2>1. values["--backends"] \in Tokens /\ values["--backends"].option = ""
    BY <1>1, <1>2 DEF Values, CommandType, Given
  <2> QED  BY <2>1 DEF Tokens, Items
<1>8. \A i \in DOMAIN backends : backends[i] \in Backends
  BY DEF Acceptable
<1>9. BenchmarkRequest = [backends |-> backends, counts |-> counts,
                          threads |-> threads, batches |-> batches]
  BY DEF BenchmarkRequest
<1>10. (Requests(OpenMP) => Given("--threads")) /\ (Requests(Cuda) => Given("--cuda-batches"))
  BY DEF Acceptable, ListsGiven
<1>11. \A b : b \in Range(backends) => Requests(b)
  BY <1>7 DEF Requests, Contains, Range
<1> HIDE DEF backends, counts, threads, batches
<1>12. backends \in Seq(Backends)
  BY <1>7, <1>8
<1>13. Range(backends) \subseteq Backends
  BY <1>8 DEF Range
<1>14. ASSUME NEW b \in Range(backends) PROVE Listed(b, BenchmarkRequest)
  <2>1. b = Sequential \/ b = OpenMP \/ b = Cuda
    BY <1>13 DEF Backends
  <2>2. BenchmarkRequest.threads = threads /\ BenchmarkRequest.batches = batches
    BY <1>9
  <2>3. (b = OpenMP => threads # <<>>) /\ (b = Cuda => batches # <<>>)
    BY <1>5, <1>6, <1>10, <1>11
  <2> QED  BY <2>1, <2>2, <2>3 DEF Listed
<1>15. BenchmarkRequest \in Request
  BY <1>4, <1>5, <1>6, <1>9, <1>12 DEF Request
<1> QED  BY <1>4, <1>7, <1>9, <1>14, <1>15 DEF backends, counts

(* A request that is accepted can run as it is.                            *)
THEOREM AcceptedLinesCanRun == Spec => []AcceptedIsRunnable
<1>1. CommandInv => AcceptedIsRunnable
  <2> SUFFICES ASSUME CommandInv, pc = "accepted" PROVE AcceptedIsRunnable
    BY DEF AcceptedIsRunnable
  <2>1. CommandType /\ Acceptable /\ plan = BuildPlan(BenchmarkRequest)
    BY DEF CommandInv, LoopInv
  <2> DEFINE q == BenchmarkRequest
  <2>2. /\ q \in Request
        /\ q.backends = Items("--backends")
        /\ q.counts = Numbers(Items("--image-counts"))
        /\ q.backends # <<>> /\ q.counts # <<>>
        /\ \A b \in Range(q.backends) : Listed(b, q)
        /\ DOMAIN q.counts = DOMAIN Items("--image-counts")
    BY <2>1, AcceptedRequest
  <2> HIDE DEF q
  <2>3. /\ plan \in Seq(Experiment)
        /\ \A b \in Range(q.backends), n \in Range(q.counts) :
             Listed(b, q) => \E e \in Range(plan) : e.backend = b /\ e.count = n
        /\ plan # <<>> /\ plan[1].backend = Sequential
    <3>1. IsMatrix(plan, q)
      BY <2>1, <2>2, PlanIsAMatrix DEF q
    <3> QED  BY <2>2, <3>1 DEF IsMatrix
  <2>4. ASSUME NEW i \in DOMAIN Items("--backends"), NEW j \in DOMAIN Items("--image-counts")
        PROVE  \E k \in DOMAIN plan : /\ plan[k].backend = Items("--backends")[i]
                                      /\ plan[k].count = Number[Items("--image-counts")[j]]
    <3>1. Items("--backends")[i] \in Range(q.backends)
      BY <2>2 DEF Range
    <3>2. Number[Items("--image-counts")[j]] \in Range(q.counts)
      BY <2>2 DEF Range, Numbers
    <3>3. PICK e \in Range(plan) : /\ e.backend = Items("--backends")[i]
                                   /\ e.count = Number[Items("--image-counts")[j]]
      BY <3>1, <3>2, <2>2, <2>3
    <3> QED  BY <3>3 DEF Range
  <2>5. Cold <=> Number[Items("--warmups")[1]] = 0
    <3>1. Number[Items("--warmups")[1]] \in {IF Cold THEN 0 ELSE 2}
      BY <2>1 DEF Acceptable, AnInteger
    <3> QED  BY <3>1
  <2>6. Cold <=> Number[Items("--repetitions")[1]] = 1
    <3>1. Number[Items("--repetitions")[1]] \in IF Cold THEN {1} ELSE 5 .. MaxUint
      BY <2>1 DEF Acceptable, AnInteger
    <3>2. CASE Cold
      BY <3>1, <3>2
    <3>3. CASE ~ Cold
      <4>1. Number[Items("--repetitions")[1]] \in 5 .. MaxUint
        BY <3>1, <3>3
      <4>2. ~ (1 \in 5 .. MaxUint)
        OBVIOUS
      <4> QED  BY <3>3, <4>1, <4>2
    <3> QED  BY <3>2, <3>3
  <2> QED  BY <2>3, <2>4, <2>5, <2>6 DEF AcceptedIsRunnable
<1> QED  BY <1>1, CommandInvHolds, PTL

(* What BenchmarkRunner assumes of its plans (PlansAssumption and          *)
(* MatrixAssumption) holds of every plan that a command line leads to.     *)
AcceptedPlan ==
  pc = "accepted" =>
    /\ plan \in Seq(Experiment) \ {<<>>}
    /\ \A i \in DOMAIN plan :
         /\ \A j \in DOMAIN plan : plan[i] = plan[j] => i = j
         /\ plan[i].backend # OpenMP => plan[i].threads = 0
         /\ plan[i].backend # Cuda => plan[i].batch = 0

(* An accepted command line gives the benchmark runner a matrix it can     *)
(* rely on.                                                                *)
THEOREM AcceptedPlansAreMatrices == Spec => []AcceptedPlan
<1>1. CommandInv => AcceptedPlan
  <2> SUFFICES ASSUME CommandInv, pc = "accepted" PROVE AcceptedPlan
    BY DEF AcceptedPlan
  <2>1. CommandType /\ Acceptable /\ plan = BuildPlan(BenchmarkRequest)
    BY DEF CommandInv, LoopInv
  <2> DEFINE q == BenchmarkRequest
  <2>2. q \in Request /\ q.backends # <<>> /\ q.counts # <<>>
    BY <2>1, AcceptedRequest
  <2> HIDE DEF q
  <2>3. /\ plan \in Seq(Experiment) /\ IsInjective(plan) /\ plan # <<>>
        /\ \A e \in Range(plan) : WellFormed(e)
    <3>1. IsMatrix(plan, q)
      BY <2>1, <2>2, PlanIsAMatrix DEF q
    <3> QED  BY <2>2, <3>1 DEF IsMatrix
  <2>4. \A i \in DOMAIN plan : WellFormed(plan[i])
    BY <2>3 DEF Range
  <2>5. \A i, j \in DOMAIN plan : plan[i] = plan[j] => i = j
    BY <2>3 DEF IsInjective
  <2> QED  BY <2>3, <2>4, <2>5 DEF AcceptedPlan, WellFormed
<1> QED  BY <1>1, CommandInvHolds, PTL

-----------------------------------------------------------------------------
(* Lists that are made unique twice.                                       *)

(* One more value is one more step.                                        *)
LEMMA UniqueAppend ==
  ASSUME NEW V, NEW s \in Seq(V), NEW v \in V
  PROVE  UniquePreservingOrder(Append(s, v)) = Extended(UniquePreservingOrder(s), v)
<1> DEFINE n == Len(s)
           t == Append(s, v)
<1>1. /\ n \in Nat /\ t \in Seq(V) /\ Len(t) = n + 1 /\ t[n + 1] = v
      /\ \A i \in 1 .. n : t[i] = s[i]
  BY AppendProperties
<1> HIDE DEF t
<1>2. PICK f \in [0 .. n -> Seq(V)] : UniqueSteps(s, f) /\ UniquePreservingOrder(s) = f[n]
  BY UniqueIsItsLastStep
<1>3. PICK g \in [0 .. Len(t) -> Seq(V)] :
        UniqueSteps(t, g) /\ UniquePreservingOrder(t) = g[Len(t)]
  BY <1>1, UniqueIsItsLastStep
<1> DEFINE S == {i \in 0 .. n : g[i] = f[i]}
<1>4. 0 \in S
  BY <1>1, <1>2, <1>3 DEF UniqueSteps
<1>5. ASSUME NEW i \in 1 .. n, i - 1 \in S PROVE i \in S
  <2>1. f[i] = Extended(f[i - 1], s[i])
    BY <1>2 DEF UniqueSteps
  <2>2. g[i] = Extended(g[i - 1], t[i])
    <3>1. i \in 1 .. Len(t)
      BY <1>1
    <3> QED  BY <3>1, <1>3 DEF UniqueSteps
  <2>3. i \in 0 .. n /\ t[i] = s[i] /\ g[i - 1] = f[i - 1]
    BY <1>1, <1>5
  <2> QED  BY <2>1, <2>2, <2>3
<1>6. g[n] = f[n]
  <2>1. 0 .. n \subseteq S
    <3> HIDE DEF S, n
    <3> QED  BY <1>1, <1>4, <1>5, Upwards
  <2>2. n \in S
    <3> HIDE DEF S, n
    <3> QED  BY <2>1, <1>1
  <2> QED  BY <2>2
<1>7. g[n + 1] = Extended(g[n], v)
  <2>1. n + 1 \in 1 .. Len(t) /\ (n + 1) - 1 = n
    BY <1>1
  <2> HIDE DEF n
  <2> QED  BY <2>1, <1>1, <1>3 DEF UniqueSteps
<1> QED  BY <1>1, <1>2, <1>3, <1>6, <1>7 DEF t

(* The dashboard drops what is repeated before it writes a list, the CLI   *)
(* after it has read the numbers: the result is the same.                  *)
LEMMA UniqueTwice ==
  ASSUME NEW V, NEW W, NEW g \in [V -> W], NEW s \in Seq(V)
  PROVE  UniquePreservingOrder(Mapped(g, UniquePreservingOrder(s))) =
           UniquePreservingOrder(Mapped(g, s))
<1> DEFINE n == Len(s)
           t == Mapped(g, s)
<1>1. n \in Nat /\ DOMAIN s = 1 .. n /\ \A i \in 1 .. n : s[i] \in V /\ g[s[i]] \in W
  OBVIOUS
<1>2. t \in Seq(W) /\ Len(t) = n /\ \A i \in 1 .. n : t[i] = g[s[i]]
  BY <1>1 DEF Mapped
<1> HIDE DEF t
<1>3. PICK f \in [0 .. n -> Seq(V)] : UniqueSteps(s, f) /\ UniquePreservingOrder(s) = f[n]
  BY UniqueIsItsLastStep
<1>4. PICK h \in [0 .. n -> Seq(W)] : UniqueSteps(t, h) /\ UniquePreservingOrder(t) = h[n]
  BY <1>2, UniqueIsItsLastStep
<1>5. ASSUME NEW q \in Seq(V) PROVE Mapped(g, q) \in Seq(W)
  <2>1. Len(q) \in Nat /\ DOMAIN q = 1 .. Len(q) /\ \A i \in 1 .. Len(q) : g[q[i]] \in W
    OBVIOUS
  <2> QED  BY <2>1 DEF Mapped
<1> DEFINE S == {i \in 0 .. n : UniquePreservingOrder(Mapped(g, f[i])) = h[i]}
<1>6. 0 \in S
  <2>1. f[0] = <<>> /\ h[0] = <<>>
    BY <1>3, <1>4 DEF UniqueSteps
  <2>2. Mapped(g, <<>>) = <<>>
    BY DEF Mapped
  <2>3. UniquePreservingOrder(<<>>) = <<>>
    <3>1. <<>> \in Seq(V) /\ Len(<<>>) = 0
      OBVIOUS
    <3>2. PICK k \in [0 .. Len(<<>>) -> Seq(V)] :
            UniqueSteps(<<>>, k) /\ UniquePreservingOrder(<<>>) = k[Len(<<>>)]
      BY <3>1, UniqueIsItsLastStep
    <3> QED  BY <3>1, <3>2 DEF UniqueSteps
  <2> QED  BY <2>1, <2>2, <2>3, <1>1
<1>7. ASSUME NEW i \in 1 .. n, i - 1 \in S PROVE i \in S
  <2>0. i \in 0 .. n /\ i - 1 \in 0 .. n
    BY <1>1
  <2> DEFINE p == f[i - 1]
             m == Mapped(g, p)
             u == s[i]
  <2>1. /\ p \in Seq(V) /\ u \in V /\ g[u] \in W /\ m \in Seq(W)
        /\ f[i] = Extended(p, u) /\ h[i] = Extended(h[i - 1], g[u])
        /\ UniquePreservingOrder(m) = h[i - 1]
    <3>1. f[i] = Extended(p, u)
      BY <1>3 DEF UniqueSteps
    <3>2. h[i] = Extended(h[i - 1], g[u])
      BY <1>2, <1>4 DEF UniqueSteps
    <3>3. p \in Seq(V)
      BY <2>0
    <3> HIDE DEF p
    <3> QED  BY <3>1, <3>2, <3>3, <1>1, <1>5, <1>7 DEF p
  <2>2. m = [j \in DOMAIN p |-> g[p[j]]]
    BY DEF Mapped
  <2> HIDE DEF p, m, u
  <2>3. /\ Len(p) \in Nat /\ DOMAIN p = 1 .. Len(p) /\ Len(m) = Len(p)
        /\ \A j \in 1 .. Len(p) : m[j] = g[p[j]]
    BY <2>1, <2>2
  <2>4. CASE Contains(p, u)
    <3>1. f[i] = p
      BY <2>1, <2>4 DEF Extended
    <3>2. g[u] \in Range(m)
      BY <2>1, <2>3, <2>4 DEF Contains, Range
    <3>3. h[i - 1] \in Seq(W) /\ g[u] \in Range(h[i - 1])
      BY <2>1, <3>2, UniqueList
    <3>4. Contains(h[i - 1], g[u])
      <4> DEFINE r == h[i - 1]
      <4>1. r \in Seq(W) /\ g[u] \in Range(r)
        BY <3>3
      <4>2. DOMAIN r = 1 .. Len(r)
        BY <4>1
      <4> HIDE DEF r
      <4>3. Contains(r, g[u])
        BY <4>1, <4>2 DEF Contains, Range
      <4> QED  BY <4>3 DEF r
    <3>5. h[i] = h[i - 1]
      BY <2>1, <3>4 DEF Extended
    <3> QED  BY <2>0, <2>1, <3>1, <3>5 DEF m
  <2>5. CASE ~ Contains(p, u)
    <3>1. f[i] = Append(p, u)
      BY <2>1, <2>5 DEF Extended
    <3> DEFINE a == Append(p, u)
               b == Append(m, g[u])
    <3>2. /\ a \in Seq(V) /\ Len(a) = Len(p) + 1 /\ DOMAIN a = 1 .. Len(p) + 1
          /\ \A j \in 1 .. Len(p) : a[j] = p[j]
          /\ a[Len(p) + 1] = u
      BY <2>1, <2>3
    <3>3. /\ b \in Seq(W) /\ Len(b) = Len(p) + 1 /\ DOMAIN b = 1 .. Len(p) + 1
          /\ \A j \in 1 .. Len(p) : b[j] = m[j]
          /\ b[Len(p) + 1] = g[u]
      BY <2>1, <2>3
    <3> HIDE DEF a, b
    <3>4. \A j \in 1 .. Len(p) + 1 : b[j] = g[a[j]]
      <4> TAKE j \in 1 .. Len(p) + 1
      <4>1. j \in 1 .. Len(p) \/ j = Len(p) + 1
        BY <2>3
      <4> QED  BY <4>1, <2>3, <3>2, <3>3
    <3>5. Mapped(g, a) = b
      <4>1. Mapped(g, a) = [j \in 1 .. Len(p) + 1 |-> g[a[j]]]
        BY <3>2 DEF Mapped
      <4>2. b = [j \in 1 .. Len(p) + 1 |-> b[j]]
        BY <3>3
      <4>3. b = [j \in 1 .. Len(p) + 1 |-> g[a[j]]]
        BY <3>4, <4>2
      <4> QED  BY <4>1, <4>3
    <3>6. UniquePreservingOrder(b) = Extended(UniquePreservingOrder(m), g[u])
      BY <2>1, UniqueAppend DEF b
    <3> QED  BY <2>0, <2>1, <3>1, <3>5, <3>6 DEF a
  <2> QED  BY <2>4, <2>5
<1>8. n \in S
  <2>1. 0 .. n \subseteq S
    <3> HIDE DEF S, n
    <3> QED  BY <1>1, <1>6, <1>7, Upwards
  <2> HIDE DEF S, n
  <2> QED  BY <2>1, <1>1
<1> QED  BY <1>3, <1>4, <1>8 DEF t

-----------------------------------------------------------------------------
(* A form that the dashboard finds valid.                                  *)

(* The loop has stored what the form means, and nothing else.              *)
LEMMA StoredAsMeant ==
  ASSUME CommandType, Looping, index > Len(arguments),
         Reads(2, arguments, {o \in ValueOptions : Meant[o] # <<>>} \cup MeantFlags, Meant)
  PROVE  /\ \A o \in ValueOptions : values[o] = Value(Meant[o])
         /\ flags = MeantFlags
<1> DEFINE N == {o \in ValueOptions : Meant[o] # <<>>} \cup MeantFlags
<1>1. Len(arguments) \in Nat /\ index \in Nat /\ DOMAIN arguments = 1 .. Len(arguments)
  BY DEF CommandType
<1>2. /\ NamedIn(arguments) = N
      /\ \A o \in N \cap ValueOptions : Says(arguments, o, Meant[o])
      /\ 1 \in DOMAIN arguments /\ arguments[1] = Benchmark
  <2>1. 1 \in 1 .. (2 - 1)
    OBVIOUS
  <2> QED  BY <2>1 DEF Reads
<1>3. IsValueAt(arguments, 1)
  <2>1. Benchmark.option = ""
    BY DEF Benchmark, Value
  <2> QED  BY <2>1, <1>2 DEF IsValueAt
<1>4. MeantFlags \subseteq Flags /\ flags \subseteq Flags
  BY DEF MeantFlags, Flags, CommandType
<1>5. \A i \in 2 .. Len(arguments) : Taken(i)
  <2> TAKE i \in 2 .. Len(arguments)
  <2>1. i < index
    BY <1>1
  <2> QED  BY <2>1 DEF Looping
<1>6. ASSUME NEW name \in N, NEW i \in 1 .. Len(arguments), NameAt(arguments, i) = name
      PROVE  i \in 2 .. Len(arguments)
  <2>1. name # ""
    BY <1>4, Names
  <2>2. i # 1
    BY <1>3, <1>6, <2>1 DEF NameAt, IsValueAt
  <2> QED  BY <1>1, <2>2
<1>7. ASSUME NEW name, Before(name), name # "" PROVE name \in N
  <2>1. PICK i \in 2 .. Len(arguments) : arguments[i].option = name
    BY <1>7 DEF Before
  <2>2. i \in DOMAIN arguments
    BY <1>1
  <2> QED  BY <2>1, <2>2, <1>2, <1>7 DEF NamedIn, NameAt
<1>8. ASSUME NEW o \in ValueOptions PROVE values[o] = Value(Meant[o])
  <2>1. CASE Meant[o] # <<>>
    <3>1. o \in N
      BY <2>1
    <3>2. PICK i \in 1 .. Len(arguments) :
            NameAt(arguments, i) = o /\ arguments[i + 1] = Value(Meant[o])
      BY <3>1, <1>2 DEF Says
    <3>3. i \in 2 .. Len(arguments)
      BY <3>1, <3>2, <1>6
    <3>4. Taken(i) /\ arguments[i].option = o
      BY <3>2, <3>3, <1>5 DEF NameAt
    <3>5. o \notin flags /\ o # ""
      BY <1>4, Names
    <3> QED  BY <3>2, <3>4, <3>5 DEF Taken
  <2>2. CASE Meant[o] = <<>>
    <3>1. o \notin N /\ o # ""
      BY <2>2, <1>4, Names
    <3>2. ~ Before(o)
      BY <3>1, <1>7
    <3>3. values[o] = Missing
      BY <3>2 DEF Looping, Given
    <3> QED  BY <2>2, <3>3 DEF Missing
  <2> QED  BY <2>1, <2>2
<1>9. ASSUME NEW f \in flags PROVE f \in MeantFlags
  <2>1. f # "" /\ f \notin ValueOptions
    BY <1>4, Names
  <2>2. f \in N
    BY <2>1, <1>7 DEF Looping
  <2> QED  BY <2>1, <2>2
<1>10. ASSUME NEW f \in MeantFlags PROVE f \in flags
  <2>1. f # "" /\ f \notin ValueOptions /\ f \in N
    BY <1>4, Names
  <2>2. PICK i \in 1 .. Len(arguments) : NameAt(arguments, i) = f
    BY <2>1, <1>1, <1>2 DEF NamedIn
  <2>3. Taken(i) /\ arguments[i].option = f
    BY <2>1, <2>2, <1>5, <1>6 DEF NameAt
  <2> QED  BY <2>1, <2>3 DEF Taken
<1> QED  BY <1>8, <1>9, <1>10

(* Which items the CLI takes for counts, threads and the schedule.         *)
LEMMA NumbersTaken ==
  /\ \A t \in DOMAIN Number : Number[t] \in 1 .. MaxUint => Positive(t)
  /\ Nonnegative("0") /\ Nonnegative("1") /\ Nonnegative("2") /\ Nonnegative("5")
  /\ Number["0"] = 0 /\ Number["1"] = 1 /\ Number["2"] = 2 /\ Number["5"] \in 5 .. MaxUint
<1>1. MaxUint \in Nat /\ MaxUint >= 5
  BY NumberAssumption
<1>2. ASSUME NEW t \in DOMAIN Number, Number[t] \in 1 .. MaxUint PROVE Positive(t)
  <2> DEFINE n == Number[t]
  <2>1. n <= MaxUint /\ n # 0
    BY <1>1, <1>2
  <2> QED  BY <2>1 DEF Positive, Nonnegative
<1>3. /\ Number["0"] = 0 /\ Number["1"] = 1 /\ Number["2"] = 2 /\ Number["5"] = 5
      /\ "0" \in DOMAIN Number /\ "1" \in DOMAIN Number
      /\ "2" \in DOMAIN Number /\ "5" \in DOMAIN Number
  BY NumberAssumption
<1>4. ASSUME NEW t \in DOMAIN Number, NEW n \in 0 .. 5, Number[t] = n PROVE Nonnegative(t)
  <2>1. n <= MaxUint
    BY <1>1
  <2> QED  BY <2>1, <1>4 DEF Nonnegative
<1>5. 5 \in 5 .. MaxUint
  BY <1>1
<1>6. 0 \in 0 .. 5 /\ 1 \in 0 .. 5 /\ 2 \in 0 .. 5 /\ 5 \in 0 .. 5
  OBVIOUS
<1>7. Nonnegative("0") /\ Nonnegative("1") /\ Nonnegative("2") /\ Nonnegative("5")
  BY <1>3, <1>4, <1>6
<1> QED  BY <1>2, <1>3, <1>5, <1>7

(* A list that is shown has the numbers of its field, once each.           *)
LEMMA ListAsEntered ==
  ASSUME form \in Forms, Validated, NEW b \in {OpenMP, Cuda}
  PROVE  /\ Shown(b, form[b]) \in Seq(DOMAIN Number)
         /\ \A i \in DOMAIN List(b) : Positive(List(b)[i])
         /\ b \in form.backends => List(b) # <<>>
<1> DEFINE s == Shown(b, form[b])
           l == List(b)
<1>1. form[b] \in Seq(Texts) /\ form[b] # <<>> /\ s \in Seq(Texts)
  BY FormTypes
<1>2. \A t \in Range(s) : t \in DOMAIN Number /\ Number[t] \in 1 .. MaxUint
  <2>1. CASE b \in form.backends
    <3>1. s = form[b] /\ Entered(form[b])
      BY <2>1 DEF Validated, Shown
    <3> QED  BY <3>1 DEF Entered, Range
  <2>2. CASE b \notin form.backends
    <3>1. s = <<>>
      BY <2>2 DEF Shown
    <3> QED  BY <3>1 DEF Range
  <2> QED  BY <2>1, <2>2
<1>3. l \in Seq(Texts) /\ Range(l) = Range(s)
  BY <1>1, UniqueList DEF List
<1>4. s \in Seq(DOMAIN Number)
  <2> HIDE DEF s
  <2>1. Len(s) \in Nat /\ DOMAIN s = 1 .. Len(s)
    BY <1>1
  <2>2. \A i \in 1 .. Len(s) : s[i] \in DOMAIN Number
    BY <1>2, <2>1 DEF Range
  <2> QED  BY <1>1, <2>1, <2>2
<1>5. \A t \in Range(s) : Positive(t)
  <2> TAKE t \in Range(s)
  <2>1. t \in DOMAIN Number /\ Number[t] \in 1 .. MaxUint
    BY <1>2
  <2> QED  BY <2>1, NumbersTaken
<1>6. \A i \in DOMAIN l : Positive(l[i])
  <2> HIDE DEF s, l
  <2> QED  BY <1>3, <1>5 DEF Range
<1>7. ASSUME b \in form.backends PROVE l # <<>>
  <2>1. s = form[b]
    BY <1>7 DEF Shown
  <2> HIDE DEF s, l
  <2>2. s[1] \in Range(s)
    BY <1>1, <2>1 DEF Range
  <2>3. Range(<<>>) = {}
    BY DEF Range
  <2> QED  BY <1>3, <2>2, <2>3
<1> QED  BY <1>4, <1>6, <1>7

(* parse_cli accepts what a valid form means.                              *)
LEMMA MeantIsAcceptable ==
  ASSUME form \in Forms, Validated, flags = MeantFlags,
         \A o \in ValueOptions : values[o] = Value(Meant[o])
  PROVE  Acceptable
<1>1. ASSUME NEW o \in ValueOptions
      PROVE  Items(o) = Meant[o] /\ (Meant[o] # <<>> => Given(o))
  <2>1. \A q : Value(q).items = q
    BY DEF Value
  <2>2. Missing.items = <<>>
    BY <2>1 DEF Missing
  <2>3. values[o].items = Meant[o]
    BY <2>1
  <2> QED  BY <2>2, <2>3 DEF Items, Given
<1>2. \A o \in ValueOptions : Meant[o] # <<>> => Given(o)
  BY <1>1
<1>3. /\ Items("--input") = <<"images">> /\ Items("--output") = <<"output">>
      /\ Items("--watermark") = <<"mark.png">> /\ Items("--backends") = InOrder(Selected)
      /\ Items("--image-counts") = <<form.count>> /\ Items("--warmups") = <<Schedule[1]>>
      /\ Items("--repetitions") = <<Schedule[2]>> /\ Items("--csv") = <<form.csv>>
      /\ Items("--threads") = List(OpenMP) /\ Items("--cuda-batches") = List(Cuda)
  BY <1>1, MeantValues DEF ValueOptions, RequiredOptions
<1>4. form.csv = "results.csv" /\ form.backends # {} /\ form.backends \subseteq Backends
  BY FormTypes DEF Validated
<1>5. Cold <=> form.cold
  BY DEF Cold, MeantFlags
<1>6. /\ Selected \subseteq Backends /\ Selected # {}
      /\ OpenMP \in Selected <=> OpenMP \in form.backends
      /\ Cuda \in Selected <=> Cuda \in form.backends
  BY <1>4 DEF Selected, WithBaseline, Backends, Sequential, OpenMP, Cuda
<1>7. /\ InOrder(Selected) \in Seq(Backends) /\ Range(InOrder(Selected)) = Selected
  BY <1>6, InOrderList
<1> DEFINE order == InOrder(Selected)
<1>8. order # <<>> /\ \A i \in DOMAIN order : order[i] \in Backends
  <2>1. Range(<<>>) = {}
    BY DEF Range
  <2> HIDE DEF order
  <2> QED  BY <2>1, <1>6, <1>7 DEF Range, order
<1>9. \A b \in Backends : Contains(order, b) => b \in Selected
  <2> HIDE DEF order
  <2>1. DOMAIN order = 1 .. Len(order)
    BY <1>7 DEF order
  <2> QED  BY <2>1, <1>7 DEF Contains, Range, order
<1>10. form.count \in DOMAIN Number /\ Number[form.count] \in 1 .. MaxUint
  BY FormTypes
<1>11. Positive(form.count)
  BY <1>10, NumbersTaken
<1>12. /\ Schedule[1] = IF form.cold THEN "0" ELSE "2"
       /\ Schedule[2] = IF form.cold THEN "1" ELSE "5"
  BY DEF Schedule
<1>13. "" \notin DOMAIN Number
  BY NumberAssumption
<1>14. ASSUME NEW o \in RequiredOptions PROVE Given(o) /\ values[o] # Blank
  <2>1. Items(o) # <<>> /\ Items(o) # <<"">>
    <3>1. \A t : <<t>> # <<>> /\ (t # "" => <<t>> # <<"">>)
      OBVIOUS
    <3>2. /\ "images" # "" /\ "output" # "" /\ "mark.png" # "" /\ form.count # ""
          /\ form.csv # "" /\ Schedule[1] # "" /\ Schedule[2] # ""
      BY <1>4, <1>10, <1>12, <1>13
    <3>3. order # <<"">>
      <4>1. "" \notin Backends
        BY DEF Backends, Sequential, OpenMP, Cuda
      <4>2. ASSUME NEW e, order = <<e>> PROVE e \in Backends
        <5>1. 1 \in DOMAIN order /\ order[1] = e
          BY <4>2
        <5> HIDE DEF order
        <5> QED  BY <5>1, <1>8 DEF order
      <4> QED  BY <4>1, <4>2
    <3> HIDE DEF order
    <3>4. \/ o = "--input" \/ o = "--output" \/ o = "--watermark" \/ o = "--backends"
          \/ o = "--image-counts" \/ o = "--warmups" \/ o = "--repetitions" \/ o = "--csv"
      BY DEF RequiredOptions
    <3> QED  BY <3>1, <3>2, <3>3, <3>4, <1>3, <1>8 DEF order
  <2>2. o \in ValueOptions
    BY DEF ValueOptions
  <2>3. Items(o) = Meant[o] /\ Given(o)
    BY <2>1, <2>2, <1>1, <1>2
  <2>4. values[o] # Blank
    <3>1. \A q : Value(q).items = q
      BY DEF Value
    <3>2. Blank.items = <<"">>
      BY <3>1 DEF Blank
    <3> QED  BY <2>1, <3>2 DEF Items
  <2> QED  BY <2>3, <2>4
<1>15. ListsGiven
  <2>1. \A b \in {OpenMP, Cuda} : b \in form.backends => List(b) # <<>>
    BY ListAsEntered
  <2>2. "--threads" \in ValueOptions /\ "--cuda-batches" \in ValueOptions
    BY DEF ValueOptions
  <2>3. OpenMP \in Backends /\ Cuda \in Backends
    BY DEF Backends
  <2>4. \A b \in {OpenMP, Cuda} : Requests(b) => b \in form.backends
    BY <2>3, <1>3, <1>6, <1>9 DEF Requests
  <2>5. OpenMP \in form.backends => Meant["--threads"] # <<>>
    BY <2>1, MeantValues
  <2>6. Cuda \in form.backends => Meant["--cuda-batches"] # <<>>
    BY <2>1, MeantValues
  <2> QED  BY <2>2, <2>4, <2>5, <2>6, <1>2 DEF ListsGiven
<1>16. \A o \in {"--image-counts", "--threads", "--cuda-batches"} : PositiveList(o)
  <2>1. PositiveList("--image-counts")
    <3> DEFINE q == <<form.count>>
    <3>1. \A i \in DOMAIN q : q[i] = form.count
      OBVIOUS
    <3> QED  BY <3>1, <1>3, <1>11 DEF PositiveList
  <2>2. PositiveList("--threads") /\ PositiveList("--cuda-batches")
    BY <1>3, ListAsEntered DEF PositiveList
  <2> QED  BY <2>1, <2>2
<1>17. \A t : Len(<<t>>) = 1 /\ <<t>>[1] = t
  OBVIOUS
<1>18. AnInteger("--warmups", {IF Cold THEN 0 ELSE 2})
  <2>1. Nonnegative(Schedule[1]) /\ Number[Schedule[1]] \in {IF Cold THEN 0 ELSE 2}
    BY <1>5, <1>12, NumbersTaken
  <2> QED  BY <2>1, <1>3, <1>17 DEF AnInteger
<1>19. AnInteger("--repetitions", IF Cold THEN {1} ELSE 5 .. MaxUint)
  <2>1. Nonnegative(Schedule[2])
    BY <1>12, NumbersTaken
  <2>2. Number[Schedule[2]] \in IF Cold THEN {1} ELSE 5 .. MaxUint
    <3>1. Number["1"] \in {1} /\ Number["5"] \in 5 .. MaxUint
      BY NumbersTaken
    <3> QED  BY <3>1, <1>5, <1>12
  <2> QED  BY <2>1, <2>2, <1>3, <1>17 DEF AnInteger
<1>20. \A i \in DOMAIN Items("--backends") : Items("--backends")[i] \in Backends
  BY <1>3, <1>8
<1>21. Items("--csv") = <<"results.csv">>
  BY <1>3, <1>4
<1> QED  BY <1>14, <1>15, <1>16, <1>18, <1>19, <1>20, <1>21 DEF Acceptable

(* The matrix depends on which back ends are named and on the lists with   *)
(* what they repeat left out.                                              *)
LEMMA SamePlan ==
  ASSUME NEW q, NEW r,
         NormalizeBackends(q.backends) = NormalizeBackends(r.backends),
         UniquePreservingOrder(q.counts) = UniquePreservingOrder(r.counts),
         UniquePreservingOrder(q.threads) = UniquePreservingOrder(r.threads),
         UniquePreservingOrder(q.batches) = UniquePreservingOrder(r.batches)
  PROVE  BuildPlan(q) = BuildPlan(r)
<1>1. \A b, n : Configurations(b, n, q) = Configurations(b, n, r)
  BY DEF Configurations
<1>2. BuildPlan(q) =
        LET backends == NormalizeBackends(r.backends)
            counts == UniquePreservingOrder(r.counts)
            ofBackend(b) ==
              FlattenSeq([j \in DOMAIN counts |-> Configurations(b, counts[j], q)])
        IN  FlattenSeq([i \in DOMAIN backends |-> ofBackend(backends[i])])
  BY DEF BuildPlan
<1> QED  BY <1>1, <1>2 DEF BuildPlan

(* The matrix that the form describes.                                     *)
Described ==
  [backends |-> InOrder(form.backends), counts |-> <<Number[form.count]>>,
   threads |-> Numbers(Shown(OpenMP, form[OpenMP])),
   batches |-> Numbers(Shown(Cuda, form[Cuda]))]

(* The matrix of the values that a form stands for is the one that the     *)
(* form describes.                                                         *)
LEMMA PlanAsMeant ==
  ASSUME form \in Forms, Validated, \A o \in ValueOptions : values[o] = Value(Meant[o])
  PROVE  BuildPlan(BenchmarkRequest) = BuildPlan(Described)
<1> DEFINE q == BenchmarkRequest
           r == Described
<1>1. ASSUME NEW o \in ValueOptions PROVE Items(o) = Meant[o]
  <2>1. \A s : Value(s).items = s
    BY DEF Value
  <2> QED  BY <2>1 DEF Items
<1>2. /\ Items("--backends") = InOrder(Selected)
      /\ Items("--image-counts") = <<form.count>>
      /\ Items("--threads") = List(OpenMP) /\ Items("--cuda-batches") = List(Cuda)
  BY <1>1, MeantValues DEF ValueOptions, RequiredOptions
<1>3. /\ q.backends = InOrder(Selected) /\ q.counts = Numbers(<<form.count>>)
      /\ q.threads = Numbers(List(OpenMP)) /\ q.batches = Numbers(List(Cuda))
  BY <1>2 DEF BenchmarkRequest
<1>4. /\ r.backends = InOrder(form.backends) /\ r.counts = <<Number[form.count]>>
      /\ r.threads = Numbers(Shown(OpenMP, form[OpenMP]))
      /\ r.batches = Numbers(Shown(Cuda, form[Cuda]))
  BY DEF Described
<1> HIDE DEF q, r
<1>5. NormalizeBackends(q.backends) = NormalizeBackends(r.backends)
  <2>1. form.backends \subseteq Backends
    BY FormTypes
  <2>2. Selected \subseteq Backends /\ WithBaseline(Selected) = Selected
    BY <2>1 DEF Selected, WithBaseline, Backends
  <2>3. Range(q.backends) = Selected /\ Range(r.backends) = form.backends
    BY <2>1, <2>2, <1>3, <1>4, InOrderList
  <2>4. \A s : NormalizeBackends(s) = InOrder(WithBaseline(Range(s)))
    BY DEF NormalizeBackends, Range
  <2> QED  BY <2>2, <2>3, <2>4 DEF Selected
<1>6. q.counts = r.counts
  BY <1>3, <1>4 DEF Numbers
<1>7. ASSUME NEW b \in {OpenMP, Cuda}
      PROVE  UniquePreservingOrder(Numbers(List(b))) =
               UniquePreservingOrder(Numbers(Shown(b, form[b])))
  <2>1. Shown(b, form[b]) \in Seq(DOMAIN Number)
    BY ListAsEntered
  <2>2. \A s : Numbers(s) = Mapped(Number, s)
    BY DEF Numbers, Mapped
  <2>3. Number \in [DOMAIN Number -> Nat]
    BY NumberAssumption
  <2> QED  BY <2>1, <2>2, <2>3, UniqueTwice DEF List
<1>8. BuildPlan(q) = BuildPlan(r)
  BY <1>3, <1>4, <1>5, <1>6, <1>7, SamePlan
<1> QED  BY <1>8 DEF q, r

(* The command line of a valid form, if nobody edits it, is never refused: *)
(* it reads as the form means, and the loop is always at the beginning of  *)
(* an option or a flag.                                                    *)
AsMeant ==
  Reads(2, arguments, {o \in ValueOptions : Meant[o] # <<>>} \cup MeantFlags, Meant)
AtGroup ==
  \E S \in SUBSET (1 .. Len(arguments) + 1) : index \in S /\ Groups(arguments, S)

UneditedInv ==
  ~ edited =>
    /\ pc # "ended"
    /\ pc \notin {"form", "refused"} => Validated /\ AsMeant
    /\ pc = "options" => AtGroup
    /\ pc = "accepted" => plan = BuildPlan(Described)

(* A step that keeps the form keeps what it means.                         *)
LEMMA FormKept ==
  ASSUME form' = form
  PROVE  /\ Meant' = Meant /\ MeantFlags' = MeantFlags
         /\ Validated' = Validated /\ Described' = Described
<1>1. Meant' = Meant
  BY DEF Meant, List, Shown, Selected, Schedule
<1>2. MeantFlags' = MeantFlags
  BY DEF MeantFlags
<1>3. Validated' = Validated
  BY DEF Validated
<1>4. Described' = Described
  BY DEF Described, Shown
<1> QED  BY <1>1, <1>2, <1>3, <1>4

(* A step that keeps the arguments too keeps them reading as it means.     *)
LEMMA ArgumentsKept ==
  ASSUME form' = form, arguments' = arguments
  PROVE  AsMeant' = AsMeant
BY FormKept DEF AsMeant

(* run_cli finds the benchmark command, and it is no request for help.     *)
LEMMA CommandTaken ==
  ASSUME CommandType, AsMeant
  PROVE  /\ arguments \notin {<<Help>>, <<Benchmark, Help>>, <<>>}
         /\ arguments[1] = Benchmark
<1> DEFINE N == {o \in ValueOptions : Meant[o] # <<>>} \cup MeantFlags
<1>1. 1 \in DOMAIN arguments /\ arguments[1] = Benchmark /\ NamedIn(arguments) = N
  <2>1. 1 \in 1 .. (2 - 1)
    OBVIOUS
  <2> QED  BY <2>1 DEF AsMeant, Reads
<1>2. "--input" \in N
  <2>1. \A t : <<t>> # <<>>
    OBVIOUS
  <2>2. Meant["--input"] # <<>>
    BY <2>1, MeantValues
  <2>3. "--input" \in ValueOptions
    BY DEF ValueOptions, RequiredOptions
  <2> QED  BY <2>2, <2>3
<1>3. PICK i \in DOMAIN arguments : arguments[i].option = "--input"
  BY <1>1, <1>2 DEF NamedIn, NameAt
<1>4. Benchmark.option = "" /\ Help.option = "--help"
  BY DEF Benchmark, Value, Help, Option
<1>5. ASSUME NEW x, NEW y, arguments = <<x, y>> PROVE arguments[i] \in {x, y}
  BY <1>5
<1>6. ASSUME NEW x, arguments = <<x>> PROVE arguments[i] = x
  BY <1>6
<1>7. arguments[i] # Benchmark /\ arguments[i] # Help
  BY <1>3, <1>4
<1>8. arguments # <<>>
  BY <1>1
<1> QED  BY <1>1, <1>5, <1>6, <1>7, <1>8

(* Where the loop is, and where it has been.                               *)
LEMMA Places ==
  ASSUME CommandType, Looping, index <= Len(arguments)
  PROVE  /\ index \in DOMAIN arguments
         /\ \A i \in 2 .. Len(arguments) : i < index => i \in DOMAIN arguments /\ i # index
         /\ index + 1 <= Len(arguments) => index < Len(arguments)
<1>1. /\ Len(arguments) \in Nat /\ DOMAIN arguments = 1 .. Len(arguments)
      /\ index \in Nat /\ index >= 2
  BY DEF CommandType, Looping
<1> QED  BY <1>1

(* The loop meets no option and no flag that it has taken already.         *)
LEMMA NothingTwice ==
  ASSUME CommandType, Looping, AsMeant, index <= Len(arguments), Token.option # ""
  PROVE  ~ Before(Token.option)
<1> SUFFICES ASSUME Before(Token.option) PROVE FALSE
  OBVIOUS
<1>1. PICK i \in 2 .. Len(arguments) : i < index /\ arguments[i].option = Token.option
  BY DEF Before
<1>2. i \in DOMAIN arguments /\ index \in DOMAIN arguments /\ i # index
  BY <1>1, Places
<1>3. Once(arguments)
  BY DEF AsMeant, Reads
<1> QED  BY <1>1, <1>2, <1>3 DEF Once, NameAt, IsValueAt, Token

(* At the beginning of an option or a flag, the loop goes to the next.     *)
LEMMA UneditedNext ==
  ASSUME CommandType, LoopInv, UneditedInv, [Next]_vars
  PROVE  UneditedInv'
<1> SUFFICES ASSUME ~ edited'
             PROVE  /\ pc' # "ended"
                    /\ pc' \notin {"form", "refused"} => Validated' /\ AsMeant'
                    /\ pc' = "options" => AtGroup'
                    /\ pc' = "accepted" => plan' = BuildPlan(Described)'
  BY DEF UneditedInv
<1> DEFINE Goal == /\ pc' # "ended"
                   /\ pc' \notin {"form", "refused"} => Validated' /\ AsMeant'
                   /\ pc' = "options" => AtGroup'
                   /\ pc' = "accepted" => plan' = BuildPlan(Described)'
<1>1. ASSUME ~ edited
      PROVE  /\ pc # "ended"
             /\ pc \notin {"form", "refused"} => Validated /\ AsMeant
             /\ pc = "options" => AtGroup /\ Looping
             /\ pc = "accepted" => plan = BuildPlan(Described)
  BY <1>1 DEF UneditedInv, LoopInv, Looping
<1>2. form' = form => Validated' = Validated /\ BuildPlan(Described)' = BuildPlan(Described)
  BY FormKept
<1>3. form' = form /\ arguments' = arguments => AsMeant' = AsMeant
  BY ArgumentsKept
<1>4. ASSUME Submit PROVE Goal
  <2>1. CASE Validated
    <3>1. /\ arguments' = CommandArgs /\ pc' = "convert" /\ form' = form
      BY <1>4, <2>1 DEF Submit
    <3>2. Reads(2, CommandArgs, {o \in ValueOptions : Meant[o] # <<>>} \cup MeantFlags, Meant)
      BY CommandArgsRead DEF CommandType
    <3>3. AsMeant'
      BY <3>1, <3>2, FormKept DEF AsMeant
    <3> QED  BY <2>1, <3>1, <3>3, <1>2
  <2>2. CASE ~ Validated
    BY <1>4, <2>2 DEF Submit
  <2> QED  BY <2>1, <2>2
<1>5. ASSUME Edit PROVE Goal
  BY <1>5 DEF Edit
<1>6. ASSUME Convert PROVE Goal
  <2>1. pc = "convert" /\ pc' = "command" /\ ~ edited /\ UNCHANGED <<form, arguments>>
    BY <1>6 DEF Convert
  <2> QED  BY <2>1, <1>1, <1>2, <1>3
<1>7. ASSUME Command PROVE Goal
  <2>1. pc = "command" /\ ~ edited /\ UNCHANGED <<form, arguments>> /\ index' = 2
    BY <1>7 DEF Command
  <2>2. Validated /\ AsMeant
    BY <2>1, <1>1
  <2>3. pc' = "options"
    BY <1>7, <2>2, CommandTaken DEF Command
  <2>4. \E S \in SUBSET (1 .. Len(arguments) + 1) : 2 \in S /\ Groups(arguments, S)
    BY <2>2 DEF AsMeant, Reads
  <2>5. AtGroup'
    BY <2>1, <2>4 DEF AtGroup, Groups, GroupAt, NameAt, IsValueAt
  <2> QED  BY <2>1, <2>2, <2>3, <2>5, <1>2, <1>3
<1>8. ASSUME TakeFlag PROVE Goal
  <2>1. /\ pc = "options" /\ ~ edited /\ UNCHANGED <<form, arguments>>
        /\ index <= Len(arguments) /\ Token.option \in Flags
    BY <1>8 DEF TakeFlag
  <2>2. Validated /\ AsMeant /\ AtGroup /\ Looping
    BY <2>1, <1>1
  <2>3. Token.option # "" /\ Token.option \notin ValueOptions
    BY <2>1, Names
  <2>4. Token.option \notin flags
    BY <2>1, <2>2, <2>3, NothingTwice DEF Looping
  <2>5. pc' = "options" /\ index' = index + 1
    BY <1>8, <2>1, <2>4 DEF TakeFlag
  <2>6. PICK S \in SUBSET (1 .. Len(arguments) + 1) : index \in S /\ Groups(arguments, S)
    BY <2>2 DEF AtGroup
  <2>7. index + 1 \in S
    BY <2>1, <2>3, <2>6 DEF Groups, GroupAt, NameAt, Token
  <2>8. AtGroup'
    BY <2>1, <2>5, <2>6, <2>7 DEF AtGroup, Groups, GroupAt, NameAt, IsValueAt
  <2> QED  BY <2>1, <2>2, <2>5, <2>8, <1>2, <1>3
<1>9. ASSUME TakeValue PROVE Goal
  <2>1. /\ pc = "options" /\ ~ edited /\ UNCHANGED <<form, arguments>>
        /\ index <= Len(arguments) /\ Token.option \notin Flags
    BY <1>9 DEF TakeValue
  <2>2. Validated /\ AsMeant /\ AtGroup /\ Looping
    BY <2>1, <1>1
  <2>3. PICK S \in SUBSET (1 .. Len(arguments) + 1) : index \in S /\ Groups(arguments, S)
    BY <2>2 DEF AtGroup
  <2>4. /\ Token.option \in ValueOptions /\ index + 1 <= Len(arguments)
        /\ arguments[index + 1].option = "" /\ index + 2 \in S
    BY <2>1, <2>3 DEF Groups, GroupAt, NameAt, IsValueAt, Token
  <2>5. HasValue
    <3>1. index < Len(arguments)
      BY <2>1, <2>2, <2>4, Places
    <3> QED  BY <3>1, <2>4 DEF HasValue
  <2>6. ~ Duplicate
    <3>1. Token.option # ""
      BY <2>4, Names
    <3> QED  BY <3>1, <2>1, <2>2, <2>4, NothingTwice DEF Duplicate, Looping, Given
  <2>7. pc' = "options" /\ index' = index + 2
    BY <1>9, <2>1, <2>4, <2>5, <2>6 DEF TakeValue
  <2>8. AtGroup'
    BY <2>1, <2>3, <2>4, <2>7 DEF AtGroup, Groups, GroupAt, NameAt, IsValueAt
  <2> QED  BY <2>1, <2>2, <2>7, <2>8, <1>2, <1>3
<1>10. ASSUME Finish PROVE Goal
  <2>1. /\ pc = "options" /\ ~ edited /\ UNCHANGED <<form, arguments>>
        /\ index > Len(arguments)
    BY <1>10 DEF Finish
  <2>2. Validated /\ AsMeant /\ Looping
    BY <2>1, <1>1
  <2>3. form \in Forms
    BY DEF CommandType
  <2>4. (\A o \in ValueOptions : values[o] = Value(Meant[o])) /\ flags = MeantFlags
    BY <2>1, <2>2, StoredAsMeant DEF AsMeant
  <2>5. Acceptable
    BY <2>2, <2>3, <2>4, MeantIsAcceptable
  <2>6. pc' = "accepted" /\ plan' = BuildPlan(BenchmarkRequest)
    BY <1>10, <2>5 DEF Finish
  <2>7. plan' = BuildPlan(Described)
    BY <2>2, <2>3, <2>4, <2>6, PlanAsMeant
  <2> QED  BY <2>1, <2>2, <2>6, <2>7, <1>2, <1>3
<1>11. CASE UNCHANGED vars
  <2>1. UNCHANGED <<form, edited, arguments, index, pc, plan>>
    BY <1>11 DEF vars
  <2>2. AtGroup' = AtGroup
    BY <2>1 DEF AtGroup, Groups, GroupAt, NameAt, IsValueAt
  <2> QED  BY <2>1, <2>2, <1>1, <1>2, <1>3
<1> QED  BY <1>4, <1>5, <1>6, <1>7, <1>8, <1>9, <1>10, <1>11 DEF Next

(* What the dashboard submits for a valid form is accepted as it is, and   *)
(* the experiments are those that the form describes.                      *)
THEOREM ValidFormsAreAccepted == Spec => []ValidatedIsAccepted
<1>1. Init => CommandInv /\ UneditedInv
  BY CommandInvInit DEF Init, UneditedInv
<1>2. CommandInv /\ UneditedInv /\ [Next]_vars => (CommandInv /\ UneditedInv)'
  BY TypeNext, LoopNext, UneditedNext DEF CommandInv
<1>3. UneditedInv => ValidatedIsAccepted
  BY DEF UneditedInv, ValidatedIsAccepted, Described
<1> QED  BY <1>1, <1>2, <1>3, PTL DEF Spec
==============================================================================
