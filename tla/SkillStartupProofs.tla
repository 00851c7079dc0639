------------------------- MODULE SkillStartupProofs -------------------------
(***************************************************************************)
(* The generator and the processes of the skills it makes, for any         *)
(* statecharts that do not invoke each other in a circle, any number of    *)
(* processes and components: what a run of the generator leaves builds     *)
(* whatever earlier runs had left, a setup that returns true has connected *)
(* every service, and processes that are told apart by their options do    *)
(* not refuse each other a port.  The operators of the generator are       *)
(* recursive functions: the first lemmas say that they exist and what they *)
(* keep of a list.                                                         *)
(***************************************************************************)
EXTENDS SkillStartup, SequenceTheorems, WellFoundedInduction, TLAPS

-----------------------------------------------------------------------------
(* Induction over the numbers, and functions defined by a step.            *)

LEMMA Least ==
  ASSUME NEW T, T \subseteq Nat, T # {}
  PROVE  \E x \in T : \A y \in T : x <= y
<1> DEFINE R == OpToRel(<, Nat)
<1>1. \E x \in T : \A y \in T : ~(<<y, x>> \in R)
  <2>1. IsWellFoundedOn(R, Nat)
    BY NatLessThanWellFounded
  <2> HIDE DEF R
  <2> QED BY <2>1, WFMin
<1>2. \A x, y \in Nat : y < x => <<y, x>> \in R
  BY DEF OpToRel
<1> HIDE DEF R
<1>3. PICK x \in T : \A y \in T : ~(<<y, x>> \in R)
  BY <1>1
<1>4. ASSUME NEW y \in T PROVE x <= y
  <2>1. x \in Nat /\ y \in Nat
    OBVIOUS
  <2>2. ~(y < x)
    BY <1>2, <1>3, <2>1
  <2> QED BY <2>1, <2>2
<1> QED BY <1>4

LEMMA Induct ==
  ASSUME NEW S, 0 \in S, \A n \in Nat : n \in S => n + 1 \in S
  PROVE  Nat \subseteq S
<1> DEFINE T == Nat \ S
<1> SUFFICES ASSUME T # {} PROVE FALSE
  OBVIOUS
<1>1. T \subseteq Nat
  OBVIOUS
<1> HIDE DEF T
<1>2. PICK x \in T : \A y \in T : x <= y
  BY <1>1, Least
<1>3. x # 0 /\ x - 1 \in Nat /\ x - 1 \in S
  <2>1. x \in Nat /\ x # 0
    BY <1>1 DEF T
  <2>2. x - 1 \in Nat /\ ~(x <= x - 1)
    BY <2>1
  <2> QED BY <1>2, <2>1, <2>2 DEF T
<1>4. x \in S
  <2>1. (x - 1) + 1 = x
    BY <1>1
  <2> QED BY <1>3, <2>1
<1> QED BY <1>4 DEF T

\* A list of values, each made from the one before.
Iterates(f, S, base, n, step) ==
  f \in [0..n -> S] /\ f[0] = base /\ \A i \in 1..n : f[i] = step[i][f[i - 1]]

IteratesFromOne(f, S, base, n, step) ==
  f \in [1..n -> S] /\ f[1] = base /\ \A i \in 2..n : f[i] = step[i][f[i - 1]]

LEMMA Recursion ==
  ASSUME NEW S, NEW base \in S, NEW n \in Nat, NEW step \in [1..n -> [S -> S]]
  PROVE  \E f : Iterates(f, S, base, n, step)
<1> DEFINE Upto(m, f) == f \in [0..m -> S] /\ f[0] = base /\ \A i \in 1..m : f[i] = step[i][f[i - 1]]
           T == {m \in Nat : m <= n => \E f : Upto(m, f)}
<1>1. 0 \in T
  <2> DEFINE f == [k \in 0..0 |-> base]
  <2>1. Upto(0, f)
    OBVIOUS
  <2> QED BY <2>1
<1>2. ASSUME NEW m \in Nat, m \in T PROVE m + 1 \in T
  <2> SUFFICES ASSUME m + 1 <= n PROVE \E f : Upto(m + 1, f)
    OBVIOUS
  <2>1. PICK f : Upto(m, f)
    BY <1>2
  <2> DEFINE g == [k \in 0..m + 1 |-> IF k <= m THEN f[k] ELSE step[m + 1][f[m]]]
  <2>2. m + 1 \in 1..n /\ f[m] \in S
    BY <2>1
  <2>3. g \in [0..m + 1 -> S] /\ g[0] = base
    BY <2>1, <2>2
  <2>4. ASSUME NEW i \in 1..m + 1 PROVE g[i] = step[i][g[i - 1]]
    <3>1. i - 1 \in 0..m /\ g[i - 1] = f[i - 1]
      OBVIOUS
    <3>2. CASE i = m + 1
      BY <3>1, <3>2
    <3>3. CASE i # m + 1
      <4>1. i \in 1..m /\ g[i] = f[i]
        BY <3>3
      <4> QED BY <2>1, <3>1, <4>1
    <3> QED BY <3>2, <3>3
  <2> HIDE DEF g
  <2>5. Upto(m + 1, g)
    BY <2>3, <2>4
  <2> QED BY <2>5
<1>3. n \in T
  <2> HIDE DEF T
  <2> QED BY <1>1, <1>2, Induct
<1> QED BY <1>3 DEF Iterates

\* The same for a list that starts with the value 1.
LEMMA RecursionFromOne ==
  ASSUME NEW S, NEW base \in S, NEW n \in Nat \ {0}, NEW step \in [1..n -> [S -> S]]
  PROVE  \E f : IteratesFromOne(f, S, base, n, step)
<1> DEFINE later == [i \in 1..n - 1 |-> step[i + 1]]
<1>1. later \in [1..n - 1 -> [S -> S]] /\ n - 1 \in Nat
  OBVIOUS
<1>2. \A i \in 1..n - 1 : later[i] = step[i + 1]
  OBVIOUS
<1> HIDE DEF later
<1>3. PICK f : Iterates(f, S, base, n - 1, later)
  BY <1>1, Recursion
<1>4. f \in [0..n - 1 -> S] /\ f[0] = base /\ \A i \in 1..n - 1 : f[i] = later[i][f[i - 1]]
  BY <1>3 DEF Iterates
<1> DEFINE g == [i \in 1..n |-> f[i - 1]]
<1>5. g \in [1..n -> S] /\ g[1] = base
  BY <1>4
<1>6. ASSUME NEW i \in 2..n PROVE g[i] = step[i][g[i - 1]]
  <2>1. i - 1 \in 1..n - 1 /\ (i - 1) + 1 = i /\ g[i] = f[i - 1] /\ g[i - 1] = f[(i - 1) - 1]
    OBVIOUS
  <2> QED BY <1>2, <1>4, <2>1
<1> HIDE DEF g
<1> QED BY <1>5, <1>6 DEF IteratesFromOne

-----------------------------------------------------------------------------
(* The lists one after the other.                                          *)

\* flatten, the function that FlattenSeq defines, is the one that has these values.
Flattens(seqs, f) ==
  f = [i \in 1..Len(seqs) |-> IF i = 1 THEN seqs[i] ELSE f[i - 1] \o seqs[i]]

LEMMA FlattenIsFlattens ==
  ASSUME NEW seqs, Len(seqs) \in Nat \ {0}, NEW g, Flattens(seqs, g)
  PROVE  \E f : Flattens(seqs, f) /\ FlattenSeq(seqs) = f[Len(seqs)]
<1> DEFINE f == CHOOSE h : Flattens(seqs, h)
<1>1. Flattens(seqs, f)
  OBVIOUS
<1>2. FlattenSeq(seqs) = f[Len(seqs)]
  BY DEF FlattenSeq, Flattens
<1> HIDE DEF f
<1> QED BY <1>1, <1>2

LEMMA FlattenExists ==
  ASSUME NEW S, NEW seqs \in Seq(Seq(S)), Len(seqs) # 0
  PROVE  \E f \in [1..Len(seqs) -> Seq(S)] : Flattens(seqs, f)
<1> DEFINE n == Len(seqs)
           step == [i \in 1..n |-> [s \in Seq(S) |-> s \o seqs[i]]]
<1>1. n \in Nat \ {0} /\ \A i \in 1..n : seqs[i] \in Seq(S)
  OBVIOUS
<1>2. step \in [1..n -> [Seq(S) -> Seq(S)]]
  BY <1>1
<1>3. \A i \in 1..n : \A s \in Seq(S) : step[i][s] = s \o seqs[i]
  OBVIOUS
<1>4. seqs[1] \in Seq(S)
  BY <1>1
<1> HIDE DEF n, step
<1>5. PICK f : IteratesFromOne(f, Seq(S), seqs[1], n, step)
  BY <1>1, <1>2, <1>4, RecursionFromOne
<1>6. f \in [1..n -> Seq(S)] /\ f[1] = seqs[1] /\ \A i \in 2..n : f[i] = step[i][f[i - 1]]
  BY <1>5 DEF IteratesFromOne
<1>7. \A i \in 2..n : i - 1 \in 1..n /\ i \in 1..n /\ f[i] = f[i - 1] \o seqs[i]
  <2> SUFFICES ASSUME NEW i \in 2..n PROVE i - 1 \in 1..n /\ i \in 1..n /\ f[i] = f[i - 1] \o seqs[i]
    OBVIOUS
  <2>1. i - 1 \in 1..n /\ i \in 1..n
    BY <1>1
  <2>2. f[i - 1] \in Seq(S)
    BY <1>6, <2>1
  <2> QED BY <1>3, <1>6, <2>1, <2>2
<1>8. \A i \in 1..n : f[i] = IF i = 1 THEN seqs[i] ELSE f[i - 1] \o seqs[i]
  <2> SUFFICES ASSUME NEW i \in 1..n PROVE f[i] = IF i = 1 THEN seqs[i] ELSE f[i - 1] \o seqs[i]
    OBVIOUS
  <2>1. i = 1 \/ i \in 2..n
    BY <1>1
  <2> QED BY <1>6, <1>7, <2>1
<1>9. f = [i \in 1..n |-> IF i = 1 THEN seqs[i] ELSE f[i - 1] \o seqs[i]]
  BY <1>6, <1>8
<1> QED BY <1>6, <1>9 DEF Flattens, n

LEMMA ConcatenationAt ==
  ASSUME NEW S, NEW s \in Seq(S), NEW t \in Seq(S)
  PROVE  /\ DOMAIN s = 1..Len(s) /\ DOMAIN t = 1..Len(t) /\ DOMAIN (s \o t) = 1..Len(s) + Len(t)
         /\ \A i \in 1..Len(s) : (s \o t)[i] = s[i]
         /\ \A i \in 1..Len(t) : i + Len(s) \in 1..Len(s) + Len(t) /\ (s \o t)[i + Len(s)] = t[i]
<1>1. DOMAIN s = 1..Len(s) /\ DOMAIN t = 1..Len(t) /\ DOMAIN (s \o t) = 1..Len(s) + Len(t)
  BY ConcatProperties
<1>2. \A i \in 1..Len(s) : (s \o t)[i] = s[i]
  BY ConcatProperties
<1>3. \A i \in 1..Len(t) : i + Len(s) \in 1..Len(s) + Len(t) /\ (s \o t)[i + Len(s)] = t[i]
  BY ConcatProperties
<1> QED BY <1>1, <1>2, <1>3

LEMMA ConcatenationOf ==
  ASSUME NEW S, NEW s \in Seq(S), NEW t \in Seq(S), NEW m, NEW n, Len(s) = m, Len(t) = n
  PROVE  /\ s \o t \in Seq(S) /\ Len(s \o t) = m + n
         /\ \A i \in 1..m : (s \o t)[i] = s[i]
         /\ \A i \in 1..n : (s \o t)[m + i] = t[i]
<1>1. s \o t \in Seq(S) /\ Len(s \o t) = m + n
  BY ConcatProperties
<1>2. (\A i \in 1..m : (s \o t)[i] = s[i]) /\ \A i \in 1..n : (s \o t)[i + m] = t[i]
  BY ConcatenationAt
<1>3. \A i \in 1..n : i + m = m + i
  OBVIOUS
<1> QED BY <1>1, <1>2, <1>3

LEMMA OfItsRange ==
  ASSUME NEW S, NEW s \in Seq(S)
  PROVE  s \in Seq(Range(s))
<1>1. Len(s) \in Nat /\ DOMAIN s = 1..Len(s) /\ s = [i \in 1..Len(s) |-> s[i]]
  OBVIOUS
<1>2. \A i \in 1..Len(s) : s[i] \in Range(s)
  BY <1>1 DEF Range
<1>3. [i \in 1..Len(s) |-> s[i]] \in Seq(Range(s))
  BY <1>1, <1>2
<1> QED BY <1>1, <1>3

LEMMA ConcatenationRange ==
  ASSUME NEW S, NEW s \in Seq(S), NEW t \in Seq(S)
  PROVE  Range(s \o t) = Range(s) \cup Range(t)
<1>1. DOMAIN s = 1..Len(s) /\ DOMAIN t = 1..Len(t) /\ DOMAIN (s \o t) = 1..Len(s) + Len(t)
  BY ConcatenationAt
<1>2. \A i \in 1..Len(s) : (s \o t)[i] = s[i]
  BY ConcatenationAt
<1>3. \A i \in 1..Len(t) : i + Len(s) \in 1..Len(s) + Len(t) /\ (s \o t)[i + Len(s)] = t[i]
  BY ConcatenationAt
<1>4. \A i \in 1..Len(s) + Len(t) : i \in 1..Len(s) \/ \E j \in 1..Len(t) : i = j + Len(s)
  <2> SUFFICES ASSUME NEW i \in 1..Len(s) + Len(t), ~(i \in 1..Len(s))
               PROVE  \E j \in 1..Len(t) : i = j + Len(s)
    OBVIOUS
  <2>1. i - Len(s) \in 1..Len(t) /\ i = (i - Len(s)) + Len(s)
    OBVIOUS
  <2> QED BY <2>1
<1>5. Len(s) \in Nat /\ Len(t) \in Nat /\ \A i \in 1..Len(s) : i \in 1..Len(s) + Len(t)
  OBVIOUS
<1>6. Range(s \o t) \subseteq Range(s) \cup Range(t)
  BY <1>1, <1>2, <1>3, <1>4 DEF Range
<1>7. Range(s) \subseteq Range(s \o t)
  BY <1>1, <1>2, <1>5 DEF Range
<1>8. Range(t) \subseteq Range(s \o t)
  BY <1>1, <1>3 DEF Range
<1> QED BY <1>6, <1>7, <1>8

\* What is in one of the lists, and nothing else.
LEMMA FlattenKeeps ==
  ASSUME NEW S, NEW seqs \in Seq(Seq(S))
  PROVE  /\ FlattenSeq(seqs) \in Seq(S)
         /\ Range(FlattenSeq(seqs)) = UNION {Range(seqs[i]) : i \in DOMAIN seqs}
<1> DEFINE n == Len(seqs)
<1>1. CASE n = 0
  <2>1. seqs = <<>> /\ FlattenSeq(seqs) = <<>> /\ DOMAIN seqs = {}
    BY <1>1 DEF FlattenSeq
  <2>2. Range(<<>>) = {} /\ <<>> \in Seq(S)
    BY DEF Range
  <2>3. UNION {Range(seqs[i]) : i \in DOMAIN seqs} = {}
    BY <2>1
  <2> QED BY <2>1, <2>2, <2>3
<1>2. CASE n # 0
  <2>1. PICK g \in [1..n -> Seq(S)] : Flattens(seqs, g)
    BY <1>2, FlattenExists
  <2>2. n \in Nat \ {0} /\ DOMAIN seqs = 1..n /\ \A i \in 1..n : seqs[i] \in Seq(S)
    BY <1>2
  <2>3. PICK f : Flattens(seqs, f) /\ FlattenSeq(seqs) = f[n]
    BY <2>1, <2>2, FlattenIsFlattens
  <2>4. f[1] = seqs[1] /\ \A i \in 2..n : f[i] = f[i - 1] \o seqs[i]
    <3>1. f = [i \in 1..n |-> IF i = 1 THEN seqs[i] ELSE f[i - 1] \o seqs[i]]
      BY <2>3 DEF Flattens
    <3>2. 1 \in 1..n /\ \A i \in 2..n : i \in 1..n /\ i # 1
      BY <2>2
    <3> HIDE DEF n
    <3> QED BY <3>1, <3>2
  <2> DEFINE T == {m \in Nat : m + 1 \in 1..n =>
                     f[m + 1] \in Seq(S) /\ Range(f[m + 1]) = UNION {Range(seqs[i]) : i \in 1..m + 1}}
  <2>5. 0 \in T
    BY <2>2, <2>4
  <2>6. ASSUME NEW m \in Nat, m \in T PROVE m + 1 \in T
    <3> SUFFICES ASSUME (m + 1) + 1 \in 1..n
                 PROVE  /\ f[(m + 1) + 1] \in Seq(S)
                        /\ Range(f[(m + 1) + 1]) = UNION {Range(seqs[i]) : i \in 1..(m + 1) + 1}
      OBVIOUS
    <3>1. m + 1 \in 1..n /\ (m + 1) + 1 \in 2..n /\ ((m + 1) + 1) - 1 = m + 1
      BY <2>2
    <3>2. f[m + 1] \in Seq(S) /\ Range(f[m + 1]) = UNION {Range(seqs[i]) : i \in 1..m + 1}
      BY <2>6, <3>1
    <3>3. f[(m + 1) + 1] = f[m + 1] \o seqs[(m + 1) + 1] /\ seqs[(m + 1) + 1] \in Seq(S)
      BY <2>2, <2>4, <3>1
    <3>4. Range(f[(m + 1) + 1]) = Range(f[m + 1]) \cup Range(seqs[(m + 1) + 1])
      BY <3>2, <3>3, ConcatenationRange
    <3>5. 1..(m + 1) + 1 = 1..m + 1 \cup {(m + 1) + 1}
      OBVIOUS
    <3> QED BY <3>2, <3>3, <3>4, <3>5
  <2>7. n - 1 \in T
    <3> HIDE DEF T, n
    <3>1. n - 1 \in Nat
      BY <2>2
    <3> QED BY <2>5, <2>6, <3>1, Induct
  <2>8. (n - 1) + 1 = n /\ n \in 1..n
    BY <2>2
  <2> QED BY <2>2, <2>3, <2>7, <2>8
<1> QED BY <1>1, <1>2

-----------------------------------------------------------------------------
(* The elements of a list that are in a set.                               *)

\* kept, the function that Among defines, is the one that has these values.
KeepsFrom(list, set, f) ==
  f = [n \in 0..Len(list) |->
         IF n = 0 THEN <<>> ELSE IF list[n] \in set THEN Append(f[n - 1], list[n]) ELSE f[n - 1]]

LEMMA AmongIsKept ==
  ASSUME NEW list, Len(list) \in Nat, NEW set, NEW g, KeepsFrom(list, set, g)
  PROVE  \E f : KeepsFrom(list, set, f) /\ Among(list, set) = f[Len(list)]
<1> DEFINE f == CHOOSE h : KeepsFrom(list, set, h)
<1>1. KeepsFrom(list, set, f)
  OBVIOUS
<1>2. Among(list, set) = f[Len(list)]
  BY DEF Among, KeepsFrom
<1> HIDE DEF f
<1> QED BY <1>1, <1>2

LEMMA KeptExists ==
  ASSUME NEW S, NEW list \in Seq(S), NEW set
  PROVE  \E f : KeepsFrom(list, set, f)
<1> DEFINE n == Len(list)
           step == [i \in 1..n |-> [s \in Seq(S) |-> IF list[i] \in set THEN Append(s, list[i]) ELSE s]]
<1>1. n \in Nat /\ \A i \in 1..n : list[i] \in S
  OBVIOUS
<1>2. step \in [1..n -> [Seq(S) -> Seq(S)]]
  BY <1>1
<1>3. \A i \in 1..n : \A s \in Seq(S) : step[i][s] = IF list[i] \in set THEN Append(s, list[i]) ELSE s
  OBVIOUS
<1>4. <<>> \in Seq(S)
  OBVIOUS
<1> HIDE DEF n, step
<1>5. PICK f : Iterates(f, Seq(S), <<>>, n, step)
  BY <1>1, <1>2, <1>4, Recursion
<1>6. f \in [0..n -> Seq(S)] /\ f[0] = <<>> /\ \A i \in 1..n : f[i] = step[i][f[i - 1]]
  BY <1>5 DEF Iterates
<1>7. ASSUME NEW i \in 0..n
      PROVE  f[i] = IF i = 0 THEN <<>> ELSE IF list[i] \in set THEN Append(f[i - 1], list[i]) ELSE f[i - 1]
  <2>1. CASE i = 0
    BY <1>6, <2>1
  <2>2. CASE i # 0
    <3>1. i \in 1..n /\ i - 1 \in 0..n
      BY <1>1, <2>2
    <3>2. f[i - 1] \in Seq(S)
      BY <1>6, <3>1
    <3> QED BY <1>3, <1>6, <2>2, <3>1, <3>2
  <2> QED BY <2>1, <2>2
<1>8. f = [i \in 0..n |->
             IF i = 0 THEN <<>> ELSE IF list[i] \in set THEN Append(f[i - 1], list[i]) ELSE f[i - 1]]
  BY <1>6, <1>7
<1> QED BY <1>8 DEF KeepsFrom, n

\* Each element kept has a place of its own among the first m of the list, and
\* each of these that is in the set is kept.
Places(list, set, m, kept, e) ==
  /\ e \in [1..Len(kept) -> 1..m]
  /\ \A a \in 1..Len(kept) : list[e[a]] \in set /\ kept[a] = list[e[a]]
  /\ \A a, b \in 1..Len(kept) : a # b => e[a] # e[b]
  /\ \A j \in 1..m : list[j] \in set => \E a \in 1..Len(kept) : e[a] = j

LEMMA PlaceMore ==
  ASSUME NEW S, NEW list \in Seq(S), NEW set, NEW m \in Nat, m + 1 \in 1..Len(list), NEW kept \in Seq(S),
         NEW e, Places(list, set, m, kept, e)
  PROVE  LET more == IF list[m + 1] \in set THEN Append(kept, list[m + 1]) ELSE kept
         IN  more \in Seq(S) /\ \E p : Places(list, set, m + 1, more, p)
<1>1. CASE list[m + 1] \in set
  <2> DEFINE x == list[m + 1]
             l == Len(kept)
             more == Append(kept, x)
             p == [a \in 1..l + 1 |-> IF a <= l THEN e[a] ELSE m + 1]
  <2>1. x \in S /\ l \in Nat
    OBVIOUS
  <2>2. more \in Seq(S) /\ Len(more) = l + 1 /\ more[l + 1] = x /\ \A a \in 1..l : more[a] = kept[a]
    BY <2>1
  <2>3. e \in [1..l -> 1..m] /\ \A a \in 1..l : e[a] \in 1..m /\ e[a] # m + 1
    BY DEF Places
  <2>4. p \in [1..l + 1 -> 1..m + 1] /\ p[l + 1] = m + 1 /\ \A a \in 1..l : p[a] = e[a]
    BY <2>1, <2>3
  <2>5. \A a \in 1..l + 1 : a \in 1..l \/ a = l + 1
    BY <2>1
  <2>6. \A j \in 1..m + 1 : j \in 1..m \/ j = m + 1
    OBVIOUS
  <2>7. l + 1 \in 1..l + 1 /\ \A a \in 1..l : a \in 1..l + 1
    BY <2>1
  <2> HIDE DEF l, more, p, x
  <2>8. \A a \in 1..l : list[e[a]] \in set /\ kept[a] = list[e[a]]
    BY DEF Places, l
  <2>9. \A a \in 1..l + 1 : list[p[a]] \in set /\ more[a] = list[p[a]]
    BY <1>1, <2>2, <2>4, <2>5, <2>8 DEF x
  <2>10. \A a, b \in 1..l : a # b => e[a] # e[b]
    BY DEF Places, l
  <2>11. \A a, b \in 1..l + 1 : a # b => p[a] # p[b]
    BY <2>3, <2>4, <2>5, <2>10
  <2>12. \A j \in 1..m : list[j] \in set => \E a \in 1..l : e[a] = j
    BY DEF Places, l
  <2>13. \A j \in 1..m + 1 : list[j] \in set => \E a \in 1..l + 1 : p[a] = j
    BY <2>4, <2>6, <2>7, <2>12
  <2>14. Places(list, set, m + 1, more, p)
    BY <2>2, <2>4, <2>9, <2>11, <2>13 DEF Places
  <2> QED BY <1>1, <2>2, <2>14 DEF more, x
<1>2. CASE list[m + 1] \notin set
  <2>1. \A j \in 1..m + 1 : list[j] \in set => j \in 1..m
    BY <1>2
  <2>2. 1..m \subseteq 1..m + 1
    OBVIOUS
  <2>3. Places(list, set, m + 1, kept, e)
    BY <2>1, <2>2 DEF Places
  <2> QED BY <1>2, <2>3
<1> QED BY <1>1, <1>2

LEMMA AmongPlaces ==
  ASSUME NEW S, NEW list \in Seq(S), NEW set
  PROVE  /\ Among(list, set) \in Seq(S)
         /\ \E e : Places(list, set, Len(list), Among(list, set), e)
<1> DEFINE n == Len(list)
<1>1. n \in Nat
  OBVIOUS
<1>2. PICK g : KeepsFrom(list, set, g)
  BY KeptExists
<1>3. PICK f : KeepsFrom(list, set, f) /\ Among(list, set) = f[n]
  BY <1>1, <1>2, AmongIsKept
<1>4. f[0] = <<>> /\ \A i \in 1..n : f[i] = IF list[i] \in set THEN Append(f[i - 1], list[i]) ELSE f[i - 1]
  <2>1. f = [i \in 0..n |->
               IF i = 0 THEN <<>> ELSE IF list[i] \in set THEN Append(f[i - 1], list[i]) ELSE f[i - 1]]
    BY <1>3 DEF KeepsFrom
  <2>2. 0 \in 0..n /\ \A i \in 1..n : i \in 0..n /\ i # 0
    BY <1>1
  <2> HIDE DEF n
  <2> QED BY <2>1, <2>2
<1> DEFINE T == {m \in Nat : m \in 0..n => f[m] \in Seq(S) /\ \E e : Places(list, set, m, f[m], e)}
<1>5. 0 \in T
  <2>1. Places(list, set, 0, <<>>, <<>>)
    BY DEF Places
  <2>2. <<>> \in Seq(S)
    OBVIOUS
  <2> QED BY <1>4, <2>1, <2>2
<1>6. ASSUME NEW m \in Nat, m \in T PROVE m + 1 \in T
  <2> SUFFICES ASSUME m + 1 \in 0..n
               PROVE  f[m + 1] \in Seq(S) /\ \E e : Places(list, set, m + 1, f[m + 1], e)
    OBVIOUS
  <2>1. m \in 0..n /\ m + 1 \in 1..n /\ (m + 1) - 1 = m
    BY <1>1
  <2>2. f[m] \in Seq(S)
    BY <1>6, <2>1
  <2>3. PICK e : Places(list, set, m, f[m], e)
    BY <1>6, <2>1
  <2>4. f[m + 1] = IF list[m + 1] \in set THEN Append(f[m], list[m + 1]) ELSE f[m]
    BY <1>4, <2>1
  <2> QED BY <2>1, <2>2, <2>3, <2>4, PlaceMore
<1>7. n \in T
  <2> HIDE DEF T, n
  <2> QED BY <1>1, <1>5, <1>6, Induct
<1>8. n \in 0..n
  BY <1>1
<1> QED BY <1>3, <1>7, <1>8

LEMMA AmongKeeps ==
  ASSUME NEW S, NEW list \in Seq(S), NEW set
  PROVE  Among(list, set) \in Seq(S) /\ Range(Among(list, set)) = Range(list) \cap set
<1> DEFINE kept == Among(list, set)
<1>1. kept \in Seq(S)
  BY AmongPlaces
<1>2. PICK e : Places(list, set, Len(list), kept, e)
  BY AmongPlaces
<1>3. DOMAIN kept = 1..Len(kept) /\ DOMAIN list = 1..Len(list)
  BY <1>1
<1> HIDE DEF kept
<1>4. Range(kept) \subseteq Range(list) \cap set
  BY <1>2, <1>3 DEF Places, Range
<1>5. Range(list) \cap set \subseteq Range(kept)
  BY <1>2, <1>3 DEF Places, Range
<1> QED BY <1>1, <1>4, <1>5 DEF kept


-----------------------------------------------------------------------------
(* Lists whose elements have different ids.                                *)

LEMMA NamesAre ==
  ASSUME NEW S, NEW list \in Seq(S)
  PROVE  /\ NameInstances(list) = [i \in 1..Len(list) |-> list[i].id]
         /\ NameInstances(list) \in Seq({x.id : x \in S})
         /\ Len(NameInstances(list)) = Len(list)
         /\ Range(NameInstances(list)) = {x.id : x \in Range(list)}
<1>1. DOMAIN list = 1..Len(list) /\ Len(list) \in Nat /\ \A i \in 1..Len(list) : list[i] \in S
  OBVIOUS
<1>2. NameInstances(list) = [i \in 1..Len(list) |-> list[i].id]
  BY <1>1 DEF NameInstances
<1>3. NameInstances(list) \in Seq({x.id : x \in S}) /\ Len(NameInstances(list)) = Len(list)
  BY <1>1, <1>2
<1>4. Range(NameInstances(list)) = {x.id : x \in Range(list)}
  BY <1>1, <1>2 DEF Range
<1> QED BY <1>2, <1>3, <1>4

NoTwo(list) == \A i, j \in 1..Len(list) : list[i].id = list[j].id => i = j

LEMMA NoTwoNames ==
  ASSUME NEW S, NEW list \in Seq(S)
  PROVE  IsInjective(NameInstances(list)) <=> NoTwo(list)
<1>1. NameInstances(list) = [i \in 1..Len(list) |-> list[i].id]
  BY NamesAre
<1>2. IsInjective([i \in 1..Len(list) |-> list[i].id]) <=> NoTwo(list)
  BY DEF IsInjective, NoTwo
<1> QED BY <1>1, <1>2

LEMMA NoTwoAmong ==
  ASSUME NEW S, NEW list \in Seq(S), NoTwo(list), NEW set
  PROVE  NoTwo(Among(list, set))
<1> DEFINE kept == Among(list, set)
<1>1. PICK e : Places(list, set, Len(list), kept, e)
  BY AmongPlaces
<1> HIDE DEF kept
<1>2. ASSUME NEW i \in 1..Len(kept), NEW j \in 1..Len(kept), kept[i].id = kept[j].id PROVE i = j
  <2>1. e[i] \in 1..Len(list) /\ e[j] \in 1..Len(list) /\ kept[i] = list[e[i]] /\ kept[j] = list[e[j]]
    BY <1>1 DEF Places
  <2>2. e[i] = e[j]
    BY <1>2, <2>1 DEF NoTwo
  <2> QED BY <1>1, <2>2 DEF Places
<1> QED BY <1>2 DEF NoTwo, kept

LEMMA NoTwoAmongFewer ==
  ASSUME NEW S, NEW list \in Seq(S), NEW set, NoTwo(Among(list, set)), NEW sub, sub \subseteq set
  PROVE  NoTwo(Among(list, sub))
<1> DEFINE kept == Among(list, sub)
           all == Among(list, set)
<1>1. PICK e : Places(list, sub, Len(list), kept, e)
  BY AmongPlaces
<1>2. PICK p : Places(list, set, Len(list), all, p)
  BY AmongPlaces
<1> HIDE DEF kept, all
<1>3. \A i \in 1..Len(kept) : \E a \in 1..Len(all) : p[a] = e[i] /\ all[a] = kept[i]
  BY <1>1, <1>2 DEF Places
<1>4. ASSUME NEW i \in 1..Len(kept), NEW j \in 1..Len(kept), kept[i].id = kept[j].id PROVE i = j
  <2>1. PICK a \in 1..Len(all) : p[a] = e[i] /\ all[a] = kept[i]
    BY <1>3
  <2>2. PICK b \in 1..Len(all) : p[b] = e[j] /\ all[b] = kept[j]
    BY <1>3
  <2>3. a = b
    BY <1>4, <2>1, <2>2 DEF NoTwo, all
  <2> QED BY <1>1, <2>1, <2>2, <2>3 DEF Places
<1> QED BY <1>4 DEF NoTwo, kept

\* When no two elements of two lists have the same id, then no two of either
\* list, and none of the one list the same as one of the other.
LEMMA NoTwoOfBoth ==
  ASSUME NEW S, NEW s \in Seq(S), NEW t \in Seq(S), NoTwo(s \o t)
  PROVE  NoTwo(s) /\ NoTwo(t) /\ \A i \in 1..Len(s), j \in 1..Len(t) : s[i].id # t[j].id
<1> DEFINE both == s \o t
           m == Len(s)
           n == Len(t)
<1>1. m \in Nat /\ n \in Nat /\ Len(both) = m + n
  BY ConcatProperties
<1>2. \A i \in 1..m : both[i] = s[i] /\ i \in 1..m + n
  BY ConcatProperties
<1>3. \A i \in 1..n : both[m + i] = t[i] /\ m + i \in 1..m + n
  BY <1>1, ConcatProperties
<1> HIDE DEF both, m, n
<1>4. \A i, j \in 1..m + n : both[i].id = both[j].id => i = j
  BY <1>1 DEF NoTwo, both
<1>5. \A i, j \in 1..m : s[i].id = s[j].id => i = j
  BY <1>2, <1>4
<1>6. \A i, j \in 1..n : t[i].id = t[j].id => i = j
  <2> SUFFICES ASSUME NEW i \in 1..n, NEW j \in 1..n, t[i].id = t[j].id PROVE i = j
    OBVIOUS
  <2>1. m + i = m + j
    BY <1>3, <1>4
  <2> QED BY <1>1, <2>1
<1>7. \A i \in 1..m, j \in 1..n : s[i].id # t[j].id
  <2> SUFFICES ASSUME NEW i \in 1..m, NEW j \in 1..n, s[i].id = t[j].id PROVE FALSE
    OBVIOUS
  <2>1. i = m + j
    BY <1>2, <1>3, <1>4
  <2> QED BY <1>1, <2>1
<1> QED BY <1>5, <1>6, <1>7 DEF NoTwo, m, n

LEMMA NoTwoTogether ==
  ASSUME NEW S, NEW s \in Seq(S), NEW t \in Seq(S), NoTwo(s), NoTwo(t),
         \A x \in Range(s), y \in Range(t) : x.id # y.id
  PROVE  NoTwo(s \o t)
<1> DEFINE both == s \o t
           m == Len(s)
           n == Len(t)
<1>1. m \in Nat /\ n \in Nat /\ DOMAIN s = 1..m /\ DOMAIN t = 1..n /\ Len(both) = m + n
  BY ConcatProperties
<1>2. (\A i \in 1..m : both[i] = s[i]) /\ \A i \in 1..n : both[i + m] = t[i]
  BY ConcatenationAt
<1> HIDE DEF both, m, n
<1>3. \A i \in 1..m + n : i \in 1..m \/ (i - m \in 1..n /\ i = (i - m) + m)
  BY <1>1
<1>4. (\A i \in 1..m : s[i] \in Range(s)) /\ \A i \in 1..n : t[i] \in Range(t)
  BY <1>1 DEF Range
<1>5. ASSUME NEW i \in 1..m + n, NEW j \in 1..m + n, both[i].id = both[j].id PROVE i = j
  <2>1. CASE i \in 1..m /\ j \in 1..m
    BY <1>2, <1>5, <2>1 DEF NoTwo, m
  <2>2. CASE i \in 1..m /\ j \notin 1..m
    <3>1. j - m \in 1..n /\ both[j] = t[j - m]
      BY <1>2, <1>3, <2>2
    <3> QED BY <1>2, <1>4, <1>5, <2>2, <3>1
  <2>3. CASE i \notin 1..m /\ j \in 1..m
    <3>1. i - m \in 1..n /\ both[i] = t[i - m]
      BY <1>2, <1>3, <2>3
    <3> QED BY <1>2, <1>4, <1>5, <2>3, <3>1
  <2>4. CASE i \notin 1..m /\ j \notin 1..m
    <3>1. i - m \in 1..n /\ both[i] = t[i - m] /\ j - m \in 1..n /\ both[j] = t[j - m]
      BY <1>2, <1>3, <2>4
    <3>2. i - m = j - m
      BY <1>5, <3>1 DEF NoTwo, n
    <3> QED BY <1>1, <3>2
  <2> QED BY <2>1, <2>2, <2>3, <2>4
<1> QED BY <1>1, <1>5 DEF NoTwo, both

-----------------------------------------------------------------------------
(* The documents of a skill: they exist because none invokes itself, at    *)
(* any depth.                                                              *)

Unfold(doc, collected) == <<doc>> \o FlattenSeq([d \in DOMAIN doc.subs |-> collected[doc.subs[d]]])

Below(n) == {doc \in Documents : Depth[doc] < n}

CollectsBelow(n, g) == g \in [Below(n) -> Seq(Documents)] /\ \A doc \in Below(n) : g[doc] = Unfold(doc, g)

LEMMA SubsBelow ==
  ASSUME NEW doc \in Documents, NEW d \in DOMAIN doc.subs
  PROVE  /\ doc.subs[d] \in Documents
         /\ Depth[doc] \in Nat /\ Depth[doc.subs[d]] \in Nat /\ Depth[doc.subs[d]] < Depth[doc]
<1>1. doc.subs \in Seq(Documents) /\ Depth[doc] \in Nat /\ Depth[doc.subs[d]] < Depth[doc]
  BY DocumentsAssumption
<1>2. doc.subs[d] \in Documents
  BY <1>1
<1> QED BY <1>1, <1>2, DocumentsAssumption

LEMMA UnfoldCollects ==
  ASSUME NEW doc \in Documents, NEW g, \A d \in DOMAIN doc.subs : g[doc.subs[d]] \in Seq(Documents)
  PROVE  Unfold(doc, g) \in Seq(Documents)
<1> DEFINE lists == [d \in DOMAIN doc.subs |-> g[doc.subs[d]]]
<1>1. DOMAIN doc.subs = 1..Len(doc.subs) /\ Len(doc.subs) \in Nat
  <2>1. doc.subs \in Seq(Documents)
    BY DocumentsAssumption
  <2> QED BY <2>1
<1>2. lists \in Seq(Seq(Documents))
  BY <1>1
<1> HIDE DEF lists
<1>3. FlattenSeq(lists) \in Seq(Documents)
  BY <1>2, FlattenKeeps
<1>4. <<doc>> \in Seq(Documents)
  OBVIOUS
<1>5. <<doc>> \o FlattenSeq(lists) \in Seq(Documents)
  BY <1>3, <1>4, ConcatProperties
<1> QED BY <1>5 DEF Unfold, lists

LEMMA UnfoldSame ==
  ASSUME NEW doc, NEW g, NEW h, \A d \in DOMAIN doc.subs : g[doc.subs[d]] = h[doc.subs[d]]
  PROVE  Unfold(doc, g) = Unfold(doc, h)
<1>1. [d \in DOMAIN doc.subs |-> g[doc.subs[d]]] = [d \in DOMAIN doc.subs |-> h[doc.subs[d]]]
  OBVIOUS
<1> QED BY <1>1 DEF Unfold

LEMMA BelowLess ==
  ASSUME NEW n \in Nat, NEW doc \in Below(n), NEW d \in DOMAIN doc.subs
  PROVE  doc.subs[d] \in Below(n)
<1>1. doc \in Documents /\ Depth[doc] < n
  BY DEF Below
<1>2. doc.subs[d] \in Documents /\ Depth[doc] \in Nat /\ Depth[doc.subs[d]] \in Nat /\ Depth[doc.subs[d]] < Depth[doc]
  BY <1>1, SubsBelow
<1> QED BY <1>1, <1>2 DEF Below

LEMMA BelowNext ==
  ASSUME NEW n \in Nat, NEW doc \in Below(n + 1), NEW d \in DOMAIN doc.subs
  PROVE  doc.subs[d] \in Below(n)
<1>1. doc \in Documents /\ Depth[doc] < n + 1
  BY DEF Below
<1>2. doc.subs[d] \in Documents /\ Depth[doc] \in Nat /\ Depth[doc.subs[d]] \in Nat /\ Depth[doc.subs[d]] < Depth[doc]
  BY <1>1, SubsBelow
<1> QED BY <1>1, <1>2 DEF Below

LEMMA CollectsBelowOne ==
  ASSUME NEW n \in Nat
  PROVE  /\ \E g : CollectsBelow(n, g)
         /\ \A g, h : CollectsBelow(n, g) /\ CollectsBelow(n, h) => \A doc \in Below(n) : g[doc] = h[doc]
<1> DEFINE T == {m \in Nat :
                   /\ \E g : CollectsBelow(m, g)
                   /\ \A g, h : CollectsBelow(m, g) /\ CollectsBelow(m, h) => \A doc \in Below(m) : g[doc] = h[doc]}
<1>1. 0 \in T
  <2>1. Below(0) = {}
    BY DocumentsAssumption DEF Below
  <2> DEFINE g == [doc \in Below(0) |-> <<>>]
  <2>2. g \in [Below(0) -> Seq(Documents)]
    BY <2>1
  <2> HIDE DEF g
  <2>3. CollectsBelow(0, g)
    BY <2>1, <2>2 DEF CollectsBelow
  <2> QED BY <2>1, <2>3
<1>2. ASSUME NEW m \in Nat, m \in T PROVE m + 1 \in T
  <2>1. Below(m) \subseteq Below(m + 1)
    BY DocumentsAssumption DEF Below
  <2>2. \E g : CollectsBelow(m + 1, g)
    <3>1. PICK g : CollectsBelow(m, g)
      BY <1>2
    <3> DEFINE h == [doc \in Below(m + 1) |-> Unfold(doc, g)]
    <3>2. \A doc \in Below(m + 1) : h[doc] = Unfold(doc, g)
      OBVIOUS
    <3>3. \A doc \in Below(m) : h[doc] = g[doc] /\ g[doc] \in Seq(Documents)
      BY <2>1, <3>1, <3>2 DEF CollectsBelow
    <3>4. ASSUME NEW doc \in Below(m + 1) PROVE Unfold(doc, g) \in Seq(Documents)
      <4>1. doc \in Documents
        BY DEF Below
      <4>2. \A d \in DOMAIN doc.subs : g[doc.subs[d]] \in Seq(Documents)
        BY <3>3, BelowNext
      <4> QED BY <4>1, <4>2, UnfoldCollects
    <3>5. h \in [Below(m + 1) -> Seq(Documents)]
      BY <3>4
    <3> HIDE DEF h
    <3>6. ASSUME NEW doc \in Below(m + 1) PROVE h[doc] = Unfold(doc, h)
      <4>1. \A d \in DOMAIN doc.subs : g[doc.subs[d]] = h[doc.subs[d]]
        BY <3>3, BelowNext
      <4>2. Unfold(doc, g) = Unfold(doc, h)
        BY <4>1, UnfoldSame
      <4> QED BY <3>2, <4>2
    <3> QED BY <3>5, <3>6 DEF CollectsBelow
  <2>3. ASSUME NEW g, NEW h, CollectsBelow(m + 1, g), CollectsBelow(m + 1, h), NEW doc \in Below(m + 1)
        PROVE  g[doc] = h[doc]
    <3> DEFINE Lower(f) == [x \in Below(m) |-> f[x]]
    <3>1. ASSUME NEW f, CollectsBelow(m + 1, f) PROVE CollectsBelow(m, Lower(f))
      <4>1. \A x \in Below(m) : Lower(f)[x] = f[x] /\ f[x] = Unfold(x, f) /\ f[x] \in Seq(Documents)
        BY <2>1, <3>1 DEF CollectsBelow
      <4>2. Lower(f) \in [Below(m) -> Seq(Documents)]
        BY <4>1
      <4> HIDE DEF Lower
      <4>3. ASSUME NEW x \in Below(m) PROVE Lower(f)[x] = Unfold(x, Lower(f))
        <5>1. \A d \in DOMAIN x.subs : f[x.subs[d]] = Lower(f)[x.subs[d]]
          BY <4>1, BelowLess
        <5>2. Unfold(x, f) = Unfold(x, Lower(f))
          BY <5>1, UnfoldSame
        <5> QED BY <4>1, <5>2
      <4> QED BY <4>2, <4>3 DEF CollectsBelow
    <3>2. CollectsBelow(m, Lower(g)) /\ CollectsBelow(m, Lower(h))
      BY <2>3, <3>1
    <3>3. \A x \in Below(m) : Lower(g)[x] = Lower(h)[x]
      <4> HIDE DEF Lower
      <4> QED BY <1>2, <3>2
    <3>4. \A x \in Below(m) : g[x] = h[x]
      BY <3>3
    <3>5. Unfold(doc, g) = Unfold(doc, h)
      BY <3>4, BelowNext, UnfoldSame
    <3> QED BY <2>3, <3>5 DEF CollectsBelow
  <2> QED BY <2>2, <2>3
<1>3. n \in T
  <2> HIDE DEF T
  <2> QED BY <1>1, <1>2, Induct
<1> QED BY <1>3

Collects(c) == c \in [Documents -> Seq(Documents)] /\ \A doc \in Documents : c[doc] = Unfold(doc, c)

LEMMA CollectsExists == \E c : Collects(c)
<1> DEFINE G(n) == CHOOSE g : CollectsBelow(n, g)
           c == [doc \in Documents |-> G(Depth[doc] + 1)[doc]]
<1>1. ASSUME NEW n \in Nat PROVE CollectsBelow(n, G(n))
  BY CollectsBelowOne
<1>2. ASSUME NEW doc \in Documents PROVE doc \in Below(Depth[doc] + 1) /\ Depth[doc] + 1 \in Nat
  BY DocumentsAssumption DEF Below
<1> HIDE DEF G
<1>3. ASSUME NEW m \in Nat, NEW n \in Nat, m <= n, NEW doc \in Below(m) PROVE G(m)[doc] = G(n)[doc]
  <2>1. Below(m) \subseteq Below(n)
    BY <1>3, DocumentsAssumption DEF Below
  <2> DEFINE low == [x \in Below(m) |-> G(n)[x]]
  <2>2. \A x \in Below(m) : low[x] = G(n)[x] /\ G(n)[x] = Unfold(x, G(n)) /\ G(n)[x] \in Seq(Documents)
    BY <1>1, <2>1 DEF CollectsBelow
  <2>3. low \in [Below(m) -> Seq(Documents)]
    BY <2>2
  <2> HIDE DEF low
  <2>4. ASSUME NEW x \in Below(m) PROVE low[x] = Unfold(x, low)
    <3>1. \A d \in DOMAIN x.subs : G(n)[x.subs[d]] = low[x.subs[d]]
      BY <2>2, BelowLess
    <3>2. Unfold(x, G(n)) = Unfold(x, low)
      BY <3>1, UnfoldSame
    <3> QED BY <2>2, <3>2
  <2>5. CollectsBelow(m, low)
    BY <2>3, <2>4 DEF CollectsBelow
  <2>6. CollectsBelow(m, G(m))
    BY <1>1
  <2> QED BY <2>2, <2>5, <2>6, CollectsBelowOne
<1>4. \A doc \in Documents : c[doc] = G(Depth[doc] + 1)[doc]
  OBVIOUS
<1>5. ASSUME NEW doc \in Documents PROVE c[doc] \in Seq(Documents) /\ c[doc] = Unfold(doc, c)
  <2> DEFINE n == Depth[doc] + 1
  <2>1. n \in Nat /\ doc \in Below(n)
    BY <1>2
  <2>2. G(n)[doc] \in Seq(Documents) /\ G(n)[doc] = Unfold(doc, G(n))
    BY <1>1, <2>1 DEF CollectsBelow
  <2>3. ASSUME NEW d \in DOMAIN doc.subs PROVE G(n)[doc.subs[d]] = c[doc.subs[d]]
    <3> DEFINE sub == doc.subs[d]
    <3>1. sub \in Documents /\ Depth[sub] \in Nat /\ Depth[doc] \in Nat /\ Depth[sub] < Depth[doc]
      BY SubsBelow
    <3>2. Depth[sub] + 1 <= n /\ Depth[sub] + 1 \in Nat /\ sub \in Below(Depth[sub] + 1)
      BY <1>2, <3>1
    <3> HIDE DEF n, sub, c
    <3>3. G(Depth[sub] + 1)[sub] = G(n)[sub]
      BY <1>3, <2>1, <3>2
    <3> QED BY <1>4, <3>1, <3>3 DEF sub
  <2> HIDE DEF n, c
  <2>4. Unfold(doc, G(n)) = Unfold(doc, c)
    BY <2>3, UnfoldSame
  <2> QED BY <1>4, <2>2, <2>4 DEF n
<1>6. c \in [Documents -> Seq(Documents)]
  BY <1>5
<1> HIDE DEF c
<1> QED BY <1>5, <1>6 DEF Collects

LEMMA CollectedDocuments ==
  /\ collectAllDocuments \in [Documents -> Seq(Documents)]
  /\ \A doc \in Documents : collectAllDocuments[doc] = Unfold(doc, collectAllDocuments)
<1> DEFINE Is(c) == c = [doc \in Documents |->
                           <<doc>> \o FlattenSeq([d \in DOMAIN doc.subs |-> c[doc.subs[d]]])]
<1>1. ASSUME NEW c, Is(c) PROVE \A doc \in Documents : c[doc] = Unfold(doc, c)
  BY <1>1 DEF Unfold
<1>2. PICK c : Collects(c)
  BY CollectsExists
<1>3. Is(c)
  BY <1>2 DEF Collects, Unfold
<1>4. Is(collectAllDocuments)
  <2>1. collectAllDocuments = CHOOSE x : Is(x)
    BY DEF collectAllDocuments
  <2> HIDE DEF Is
  <2> QED BY <1>3, <2>1
<1>5. \A doc \in Documents : collectAllDocuments[doc] = Unfold(doc, collectAllDocuments)
  <2> HIDE DEF Is
  <2> QED BY <1>1, <1>4
<1>6. collectAllDocuments = [doc \in Documents |-> collectAllDocuments[doc]]
  BY <1>4
<1> DEFINE T == {n \in Nat : \A doc \in Below(n) : collectAllDocuments[doc] \in Seq(Documents)}
<1>7. 0 \in T
  BY DocumentsAssumption DEF Below
<1>8. ASSUME NEW n \in Nat, n \in T PROVE n + 1 \in T
  <2> SUFFICES ASSUME NEW doc \in Below(n + 1) PROVE collectAllDocuments[doc] \in Seq(Documents)
    OBVIOUS
  <2>1. doc \in Documents
    BY DEF Below
  <2>2. \A d \in DOMAIN doc.subs : collectAllDocuments[doc.subs[d]] \in Seq(Documents)
    BY <1>8, BelowNext
  <2>3. Unfold(doc, collectAllDocuments) \in Seq(Documents)
    BY <2>1, <2>2, UnfoldCollects
  <2> QED BY <1>5, <2>1, <2>3
<1>9. Nat \subseteq T
  <2> HIDE DEF T
  <2> QED BY <1>7, <1>8, Induct
<1>10. ASSUME NEW doc \in Documents PROVE collectAllDocuments[doc] \in Seq(Documents)
  <2>1. Depth[doc] + 1 \in T /\ doc \in Below(Depth[doc] + 1)
    <3> HIDE DEF T
    <3>1. Depth[doc] + 1 \in Nat /\ doc \in Below(Depth[doc] + 1)
      BY DocumentsAssumption DEF Below
    <3> QED BY <1>9, <3>1
  <2> QED BY <2>1
<1> QED BY <1>5, <1>6, <1>10


LEMMA CollectedNotEmpty ==
  ASSUME NEW doc \in Documents
  PROVE  collectAllDocuments[doc] \in Seq(Documents) /\ Len(collectAllDocuments[doc]) \in Nat \ {0}
<1>1. collectAllDocuments[doc] = Unfold(doc, collectAllDocuments)
      /\ \A d \in DOMAIN doc.subs : collectAllDocuments[doc.subs[d]] \in Seq(Documents)
  BY CollectedDocuments, SubsBelow
<1> DEFINE lists == [d \in DOMAIN doc.subs |-> collectAllDocuments[doc.subs[d]]]
<1>2. lists \in Seq(Seq(Documents))
  <2>1. doc.subs \in Seq(Documents)
    BY DocumentsAssumption
  <2>2. DOMAIN doc.subs = 1..Len(doc.subs) /\ Len(doc.subs) \in Nat
    BY <2>1
  <2> QED BY <1>1, <2>2
<1>3. collectAllDocuments[doc] = <<doc>> \o FlattenSeq(lists)
  BY <1>1 DEF Unfold
<1> HIDE DEF lists
<1>4. FlattenSeq(lists) \in Seq(Documents) /\ <<doc>> \in Seq(Documents) /\ Len(<<doc>>) = 1
  BY <1>2, FlattenKeeps
<1>5. Len(collectAllDocuments[doc]) = 1 + Len(FlattenSeq(lists))
  BY <1>3, <1>4, ConcatProperties
<1> QED BY <1>4, <1>5, CollectedDocuments

LEMMA CollectedFirst ==
  ASSUME NEW doc \in Documents
  PROVE  collectAllDocuments[doc][1] = doc
<1> DEFINE lists == [d \in DOMAIN doc.subs |-> collectAllDocuments[doc.subs[d]]]
<1>1. \A d \in DOMAIN doc.subs : collectAllDocuments[doc.subs[d]] \in Seq(Documents)
  BY CollectedDocuments, SubsBelow
<1>2. lists \in Seq(Seq(Documents))
  <2>1. doc.subs \in Seq(Documents)
    BY DocumentsAssumption
  <2>2. DOMAIN doc.subs = 1..Len(doc.subs) /\ Len(doc.subs) \in Nat
    BY <2>1
  <2> QED BY <1>1, <2>2
<1>3. collectAllDocuments[doc] = <<doc>> \o FlattenSeq(lists)
  BY CollectedDocuments DEF Unfold
<1> HIDE DEF lists
<1>4. FlattenSeq(lists) \in Seq(Documents) /\ <<doc>> \in Seq(Documents) /\ Len(<<doc>>) = 1 /\ <<doc>>[1] = doc
  BY <1>2, FlattenKeeps
<1>5. (<<doc>> \o FlattenSeq(lists))[1] = <<doc>>[1]
  BY <1>4, ConcatenationAt
<1> QED BY <1>3, <1>4, <1>5

-----------------------------------------------------------------------------
(* What the generator keeps of the documents.                              *)


ListedState(s) == s.id \in STRING /\ s.SkillAck \in SkillAck \cup {"SKILL_UNDEFINED"}

LEMMA StatusIsKnown ==
  ASSUME NEW element \in StateElement, element.bt_status \in (DOMAIN BtStatus \ {"Undefined"}) \cup {NoValue}
  PROVE  ListedState(ListState(element))
<1>1. DOMAIN BtStatus = {"Undefined", "SKILL_IDLE", "SKILL_SUCCESS", "SKILL_FAILURE", "SKILL_RUNNING"}
  BY DEF BtStatus
<1>2. preReadElementState(element) \in 0..4
  BY <1>1 DEF preReadElementState, BtStatus
<1>3. decoderEnum(preReadElementState(element)) \in SkillAck \cup {"SKILL_UNDEFINED"}
  BY <1>2 DEF decoderEnum, SkillAck
<1> QED BY <1>3 DEF ListState, ListedState, StateElement

LEMMA ListIsAList ==
  ASSUME NEW doc \in Documents
  PROVE  describe(doc).ListStates \in Seq(Range(describe(doc).ListStates))
<1> DEFINE docs == collectAllDocuments[doc]
           lists == [d \in DOMAIN docs |-> docs[d].states]
           states == FlattenSeq(lists)
<1>1. docs \in Seq(Documents) /\ DOMAIN docs = 1..Len(docs) /\ Len(docs) \in Nat
      /\ \A d \in 1..Len(docs) : docs[d] \in Documents
  BY CollectedNotEmpty
<1>2. describe(doc).ListStates = ListStates(states)
  BY DEF describe
<1> HIDE DEF docs
<1>3. lists \in Seq(Seq(StateElement))
  BY <1>1, DocumentsAssumption
<1> HIDE DEF lists
<1>4. states \in Seq(StateElement)
  BY <1>3, FlattenKeeps
<1> HIDE DEF states
<1>5. DOMAIN states = 1..Len(states) /\ Len(states) \in Nat
  BY <1>4
<1>6. ListStates(states) = [i \in 1..Len(states) |-> ListState(states[i])]
  BY <1>5 DEF ListStates
<1>7. ListStates(states) \in Seq({ListState(states[i]) : i \in 1..Len(states)})
  BY <1>5, <1>6
<1> QED BY <1>2, <1>7, OfItsRange

LEMMA DescribedStates ==
  ASSUME NEW doc \in Documents, Compiles(doc)
  PROVE  /\ describe(doc).ListStates \in Seq(Range(describe(doc).ListStates))
         /\ \A s \in Range(describe(doc).ListStates) : ListedState(s)
<1> DEFINE docs == collectAllDocuments[doc]
           lists == [d \in DOMAIN docs |-> docs[d].states]
           states == FlattenSeq(lists)
<1>1. docs \in Seq(Documents) /\ DOMAIN docs = 1..Len(docs) /\ Len(docs) \in Nat
      /\ \A d \in 1..Len(docs) : docs[d] \in Documents /\ docs[d] \in Range(docs)
  BY CollectedNotEmpty DEF Range
<1>2. describe(doc).ListStates = ListStates(states)
  BY DEF describe
<1>3. \A s \in Range(docs) : \A i \in DOMAIN s.states : s.states[i].bt_status \in (DOMAIN BtStatus \ {"Undefined"}) \cup {NoValue}
  BY DEF Compiles
<1> HIDE DEF docs
<1>4. lists \in Seq(Seq(StateElement))
  BY <1>1, DocumentsAssumption
<1>5. DOMAIN lists = DOMAIN docs /\ \A d \in DOMAIN docs : lists[d] = docs[d].states
  OBVIOUS
<1> HIDE DEF lists
<1>6. states \in Seq(StateElement) /\ Range(states) = UNION {Range(lists[d]) : d \in DOMAIN docs}
  BY <1>4, <1>5, FlattenKeeps
<1> HIDE DEF states
<1>7. ASSUME NEW element \in Range(states) PROVE ListedState(ListState(element))
  <2>1. PICK d \in DOMAIN docs : element \in Range(docs[d].states)
    BY <1>5, <1>6
  <2>2. PICK i \in DOMAIN docs[d].states : element = docs[d].states[i]
    BY <2>1 DEF Range
  <2>3. element.bt_status \in (DOMAIN BtStatus \ {"Undefined"}) \cup {NoValue}
    BY <1>1, <1>3, <2>1, <2>2
  <2>4. element \in StateElement
    BY <1>6 DEF Range
  <2> QED BY <2>3, <2>4, StatusIsKnown
<1>8. DOMAIN states = 1..Len(states) /\ Len(states) \in Nat
  BY <1>6
<1>9. ListStates(states) = [i \in 1..Len(states) |-> ListState(states[i])]
  BY <1>8 DEF ListStates
<1>10. \A s \in Range(ListStates(states)) : ListedState(s)
  BY <1>7, <1>8, <1>9 DEF Range
<1> QED BY <1>2, <1>10, ListIsAList

LEMMA DescribedData ==
  ASSUME NEW doc \in Documents
  PROVE  LET made == describe(doc)
             options == made.ListAttributesParsedAsOption
         IN  /\ made.UsedServices \in Seq(DataElement) /\ made.UsedAttributes \in Seq(DataElement)
             /\ options \in Seq(DataElement)
             /\ \A e \in Range(options) : e \in Range(made.UsedAttributes) /\ e.init_source = "parse_as_option"
             /\ NoTwo(made.UsedAttributes) => NoTwo(options)
             /\ made.add_default_constructor = (options # <<>>)
             /\ made.skill_name = doc.file /\ doc.file \in STRING
<1> DEFINE docs == collectAllDocuments[doc]
           lists == [d \in DOMAIN docs |-> docs[d].data]
           data == FlattenSeq(lists)
           services == {e \in Range(data) : e.thrift_protocol # NoValue}
           attributes == {e \in Range(data) : e.thrift_protocol = NoValue /\ e.cpp_type # NoValue}
           parsed == {e \in attributes : e.init_source = "parse_as_option"}
           made == describe(doc)
<1>1. /\ made.UsedServices = Among(data, services)
      /\ made.UsedAttributes = Among(data, attributes)
      /\ made.ListAttributesParsedAsOption = Among(data, parsed)
      /\ made.add_default_constructor = (made.ListAttributesParsedAsOption # <<>>)
      /\ made.skill_name = doc.file
  BY DEF describe
<1>2. docs \in Seq(Documents) /\ DOMAIN docs = 1..Len(docs) /\ Len(docs) \in Nat
      /\ \A d \in 1..Len(docs) : docs[d] \in Documents
  BY CollectedNotEmpty
<1> HIDE DEF docs, made
<1>3. lists \in Seq(Seq(DataElement))
  BY <1>2, DocumentsAssumption
<1> HIDE DEF lists
<1>4. data \in Seq(DataElement)
  BY <1>3, FlattenKeeps
<1>5. parsed \subseteq attributes /\ \A e \in parsed : e.init_source = "parse_as_option"
  OBVIOUS
<1> HIDE DEF data, services, attributes, parsed
<1>6. /\ Among(data, services) \in Seq(DataElement)
      /\ Among(data, attributes) \in Seq(DataElement)
      /\ Range(Among(data, attributes)) = Range(data) \cap attributes
      /\ Among(data, parsed) \in Seq(DataElement)
      /\ Range(Among(data, parsed)) = Range(data) \cap parsed
  BY <1>4, AmongKeeps
<1>7. NoTwo(Among(data, attributes)) => NoTwo(Among(data, parsed))
  BY <1>4, <1>5, NoTwoAmongFewer
<1>8. doc.file \in STRING
  BY DocumentsAssumption
<1> QED BY <1>1, <1>5, <1>6, <1>7, <1>8 DEF made

\* A call of setup is one of the three for a service, and no earlier kind of
\* call comes after a later one.
Ops == <<"open", "attach", "connect">>

LEMMA CallsAre ==
  ASSUME NEW doc \in Documents
  PROVE  LET made == describe(doc)
             n == Len(made.UsedServices)
         IN  /\ Calls(made) \in Seq(Range(Calls(made))) /\ Len(Calls(made)) = n + n + n
             /\ \A s \in 1..n :
                  /\ Calls(made)[s] = Call(made, made.UsedServices[s], "open")
                  /\ Calls(made)[n + s] = Call(made, made.UsedServices[s], "attach")
                  /\ Calls(made)[n + n + s] = Call(made, made.UsedServices[s], "connect")
<1> DEFINE made == describe(doc)
           n == Len(made.UsedServices)
           Made(op) == PerService(made, op)
           All == {Call(made, made.UsedServices[s], op) : s \in 1..n, op \in {"open", "attach", "connect"}}
<1>1. n \in Nat /\ DOMAIN made.UsedServices = 1..n
  <2>1. made.UsedServices \in Seq(DataElement)
    BY DescribedData
  <2> QED BY <2>1
<1> HIDE DEF made, n
<1>2. ASSUME NEW op \in {"open", "attach", "connect"}
      PROVE  /\ Made(op) \in Seq(All) /\ Len(Made(op)) = n
             /\ \A s \in 1..n : Made(op)[s] = Call(made, made.UsedServices[s], op)
  <2>1. PerService(made, op) = [s \in 1..n |-> Call(made, made.UsedServices[s], op)]
    BY <1>1 DEF PerService
  <2>2. \A s \in 1..n : Call(made, made.UsedServices[s], op) \in All
    OBVIOUS
  <2> HIDE DEF All
  <2>3. [s \in 1..n |-> Call(made, made.UsedServices[s], op)] \in Seq(All)
    BY <1>1, <2>2
  <2> QED BY <1>1, <2>1, <2>3
<1> DEFINE o == Made("open")
           a == Made("attach")
           c == Made("connect")
<1>3. o \in Seq(All) /\ a \in Seq(All) /\ c \in Seq(All) /\ Len(o) = n /\ Len(a) = n /\ Len(c) = n
  BY <1>2
<1>4. Calls(made) = (o \o a) \o c
  BY DEF Calls
<1>5. \A s \in 1..n : /\ o[s] = Call(made, made.UsedServices[s], "open")
                      /\ a[s] = Call(made, made.UsedServices[s], "attach")
                      /\ c[s] = Call(made, made.UsedServices[s], "connect")
  BY <1>2
<1> HIDE DEF o, a, c, Made, All
<1>6. o \o a \in Seq(All) /\ Len(o \o a) = n + n
      /\ \A s \in 1..n : (o \o a)[s] = o[s] /\ (o \o a)[n + s] = a[s]
  BY <1>1, <1>3, ConcatenationOf
<1> DEFINE oa == o \o a
<1> HIDE DEF oa
<1>7. oa \o c \in Seq(All) /\ Len(oa \o c) = n + n + n
      /\ (\A i \in 1..n + n : (oa \o c)[i] = oa[i]) /\ \A s \in 1..n : (oa \o c)[n + n + s] = c[s]
  <2>1. oa \in Seq(All) /\ Len(oa) = n + n /\ n + n \in Nat
    BY <1>1, <1>6 DEF oa
  <2> QED BY <1>1, <1>3, <2>1, ConcatenationOf
<1>8. \A s \in 1..n : s \in 1..n + n /\ n + s \in 1..n + n
  BY <1>1
<1>9. oa \o c \in Seq(Range(oa \o c))
  BY <1>7, OfItsRange
<1> QED BY <1>4, <1>5, <1>6, <1>7, <1>8, <1>9 DEF oa, made, n


-----------------------------------------------------------------------------
(* Five files written for one description make a program.                  *)

Wanted(file) ==
  CASE file = "main"          -> generate_Main(skill)
    [] file = "Skill_h"       -> generate_Skill_h(skill)
    [] file = "Skill_cpp"     -> generate_Skill_cpp(skill, ConstructorParameters(skill))
    [] file = "DataModel_h"   -> generate_Skill_DataModel_h(skill)
    [] file = "DataModel_cpp" -> generate_Skill_DataModel_cpp(skill)

Declaration == [type : STRING, id : STRING]

LEMMA DeclarationsAre ==
  ASSUME NEW list \in Seq(DataElement)
  PROVE  /\ Declarations(list) \in Seq(Declaration) /\ Clients(list) \in Seq(Declaration)
         /\ Declarations(list) = [i \in 1..Len(list) |-> [type |-> list[i].cpp_type, id |-> list[i].id]]
         /\ Clients(list) = [i \in 1..Len(list) |-> [type |-> list[i].service_type, id |-> list[i].id]]
         /\ Len(Declarations(list)) = Len(list) /\ Len(Clients(list)) = Len(list)
         /\ Parsed(list) = [i \in 1..Len(list) |-> [type |-> "std::string", id |-> list[i].id]]
<1>1. DOMAIN list = 1..Len(list) /\ Len(list) \in Nat /\ \A i \in 1..Len(list) : list[i] \in DataElement
  OBVIOUS
<1>2. \A e \in DataElement : e.cpp_type \in STRING /\ e.service_type \in STRING /\ e.id \in STRING
  BY DEF DataElement
<1>3. \A i \in 1..Len(list) : /\ [type |-> list[i].cpp_type, id |-> list[i].id] \in Declaration
                              /\ [type |-> list[i].service_type, id |-> list[i].id] \in Declaration
  BY <1>1, <1>2 DEF Declaration
<1>4. /\ Declarations(list) = [i \in 1..Len(list) |-> [type |-> list[i].cpp_type, id |-> list[i].id]]
      /\ Clients(list) = [i \in 1..Len(list) |-> [type |-> list[i].service_type, id |-> list[i].id]]
      /\ Parsed(list) = [i \in 1..Len(list) |-> [type |-> "std::string", id |-> list[i].id]]
  BY <1>1 DEF Declarations, Clients, Parsed
<1> DEFINE n == Len(list)
           d == [i \in 1..n |-> [type |-> list[i].cpp_type, id |-> list[i].id]]
           c == [i \in 1..n |-> [type |-> list[i].service_type, id |-> list[i].id]]
<1>5. n \in Nat /\ d \in [1..n -> Declaration] /\ c \in [1..n -> Declaration]
  BY <1>1, <1>3
<1> HIDE DEF d, c, n, Declaration
<1>6. d \in Seq(Declaration) /\ Len(d) = n
  BY <1>5
<1>7. c \in Seq(Declaration) /\ Len(c) = n
  BY <1>5
<1> QED BY <1>4, <1>6, <1>7 DEF d, c, n

\* Names of what is declared are names of the elements.
LEMMA SameNames ==
  ASSUME NEW list \in Seq(DataElement)
  PROVE  /\ NoTwo(list) => NoTwo(Declarations(list)) /\ NoTwo(Clients(list))
         /\ \A d \in Range(Declarations(list)) : \E e \in Range(list) : d.id = e.id
         /\ \A d \in Range(Clients(list)) : \E e \in Range(list) : d.id = e.id
<1> DEFINE n == Len(list)
           d == Declarations(list)
           c == Clients(list)
<1>1. /\ d = [i \in 1..n |-> [type |-> list[i].cpp_type, id |-> list[i].id]] /\ Len(d) = n
      /\ c = [i \in 1..n |-> [type |-> list[i].service_type, id |-> list[i].id]] /\ Len(c) = n
  BY DeclarationsAre
<1>2. DOMAIN list = 1..n
  OBVIOUS
<1> HIDE DEF d, c, n
<1>3. DOMAIN d = 1..n /\ DOMAIN c = 1..n /\ \A i \in 1..n : d[i].id = list[i].id /\ c[i].id = list[i].id
  BY <1>1
<1> QED BY <1>1, <1>2, <1>3 DEF NoTwo, Range, d, c, n

LEMMA ParametersAre ==
  ASSUME NEW doc \in Documents, skill = describe(doc)
  PROVE  LET options == skill.ListAttributesParsedAsOption
             P == ConstructorParameters(skill)
         IN  /\ P = Declarations(options) /\ P \in Seq(Declaration) /\ options \in Seq(DataElement)
             /\ options = <<>> => P = <<>>
             /\ OptionsAreStrings => Parsed(options) = P
<1> DEFINE options == skill.ListAttributesParsedAsOption
<1>1. options \in Seq(DataElement) /\ skill.add_default_constructor = (options # <<>>)
  BY DescribedData
<1>2. Declarations(<<>>) = <<>>
  BY DEF Declarations
<1>3. ConstructorParameters(skill) = Declarations(options)
  BY <1>1, <1>2 DEF ConstructorParameters
<1>4. DOMAIN options = 1..Len(options)
  BY <1>1
<1>5. OptionsAreStrings => \A o \in 1..Len(options) : options[o].cpp_type = "std::string"
  BY <1>4 DEF OptionsAreStrings
<1> HIDE DEF options
<1>6. OptionsAreStrings => Parsed(options) = Declarations(options)
  <2> SUFFICES ASSUME \A o \in 1..Len(options) : options[o].cpp_type = "std::string"
               PROVE  Parsed(options) = Declarations(options)
    BY <1>5
  <2>1. /\ Declarations(options) = [i \in 1..Len(options) |-> [type |-> options[i].cpp_type, id |-> options[i].id]]
        /\ Parsed(options) = [i \in 1..Len(options) |-> [type |-> "std::string", id |-> options[i].id]]
    BY <1>1, DeclarationsAre
  <2>2. \A i \in 1..Len(options) :
          [type |-> options[i].cpp_type, id |-> options[i].id] = [type |-> "std::string", id |-> options[i].id]
    OBVIOUS
  <2> QED BY <2>1, <2>2
<1>7. Declarations(options) \in Seq(Declaration)
  BY <1>1, DeclarationsAre
<1> QED BY <1>1, <1>2, <1>3, <1>6, <1>7 DEF options

LEMMA Passing ==
  ASSUME NEW doc \in Documents, skill = describe(doc), NEW declared,
         Range(ConstructorParameters(skill)) \subseteq Range(declared)
  PROVE  Passes(ConstructorArguments(skill), declared, ConstructorParameters(skill))
<1> DEFINE P == ConstructorParameters(skill)
<1>1. P \in Seq(Declaration)
  BY ParametersAre
<1>2. Range(P) \subseteq Range(declared)
  OBVIOUS
<1> HIDE DEF P
<1>3. NameInstances(P) = [i \in 1..Len(P) |-> P[i].id] /\ Len(NameInstances(P)) = Len(P)
  BY <1>1, NamesAre
<1>4. ASSUME NEW p \in DOMAIN P PROVE [type |-> P[p].type, id |-> NameInstances(P)[p]] \in Range(declared)
  <2>1. p \in 1..Len(P) /\ P[p] \in Declaration
    BY <1>1
  <2>2. [type |-> P[p].type, id |-> NameInstances(P)[p]] = P[p]
    BY <1>3, <2>1 DEF Declaration
  <2> QED BY <1>2, <2>2 DEF Range
<1> QED BY <1>3, <1>4 DEF Passes, ConstructorArguments, P

LEMMA MembersAre ==
  ASSUME NEW doc \in Documents, skill = describe(doc), Unambiguous, Unreserved
  PROVE  LET members == Clients(skill.UsedServices) \o Members(skill)
         IN  /\ Declares(ConstructorParameters(skill), MainNames) /\ Declares(ConstructorParameters(skill), SkillNames)
             /\ Declares(members, DataModelNames)
             /\ Range(ConstructorParameters(skill)) \subseteq Range(members)
             /\ Range(Members(skill)) \subseteq Range(members)
<1> DEFINE services == skill.UsedServices
           attributes == skill.UsedAttributes
           options == skill.ListAttributesParsedAsOption
           set == {e \in Range(attributes) : e.init_source # "not_initialize"}
           initialized == Among(attributes, set)
           clients == Clients(services)
           others == Declarations(initialized)
           P == Declarations(options)
<1>1. /\ services \in Seq(DataElement) /\ attributes \in Seq(DataElement) /\ options \in Seq(DataElement)
      /\ \A e \in Range(options) : e \in Range(attributes) /\ e.init_source = "parse_as_option"
      /\ NoTwo(attributes) => NoTwo(options)
  BY DescribedData
<1>2. IsInjective(NameInstances(services \o attributes))
  BY DEF Unambiguous
<1>3. Members(skill) = others
  BY DEF Members
<1>4. ConstructorParameters(skill) = P
  BY ParametersAre
<1>5. "parse_as_option" # "not_initialize"
  OBVIOUS
<1>6. /\ Range(NameInstances(options)) \cap (MainNames \cup SkillNames) = {}
      /\ Range(NameInstances(services \o attributes)) \cap DataModelNames = {}
  BY DEF Unreserved
<1> HIDE DEF services, attributes, options
<1>7. services \o attributes \in Seq(DataElement) /\ Range(services \o attributes) = Range(services) \cup Range(attributes)
  BY <1>1, ConcatProperties, ConcatenationRange
<1>8. NoTwo(services) /\ NoTwo(attributes)
      /\ \A i \in 1..Len(services), j \in 1..Len(attributes) : services[i].id # attributes[j].id
  <2>1. NoTwo(services \o attributes)
    BY <1>2, <1>7, NoTwoNames
  <2> QED BY <1>1, <2>1, NoTwoOfBoth
<1>9. initialized \in Seq(DataElement) /\ Range(initialized) = Range(attributes) \cap set
  BY <1>1, AmongKeeps
<1>10. NoTwo(initialized)
  BY <1>1, <1>8, NoTwoAmong
<1>11. Range(options) \subseteq Range(initialized)
  BY <1>1, <1>5, <1>9
<1> HIDE DEF set, initialized
<1>12. clients \in Seq(Declaration) /\ others \in Seq(Declaration) /\ P \in Seq(Declaration)
  BY <1>1, <1>9, DeclarationsAre
<1>13. NoTwo(clients) /\ NoTwo(others) /\ NoTwo(P)
  BY <1>1, <1>8, <1>9, <1>10, SameNames
<1>14. /\ \A x \in Range(clients) : \E e \in Range(services) : x.id = e.id
       /\ \A x \in Range(others) : \E e \in Range(attributes) : x.id = e.id
       /\ \A x \in Range(P) : \E e \in Range(options) : x.id = e.id
  BY <1>1, <1>9, SameNames
<1>15. Range(P) \subseteq Range(others)
  <2>1. /\ P = [i \in 1..Len(options) |-> [type |-> options[i].cpp_type, id |-> options[i].id]]
        /\ others = [i \in 1..Len(initialized) |-> [type |-> initialized[i].cpp_type, id |-> initialized[i].id]]
    BY <1>1, <1>9, DeclarationsAre
  <2>2. DOMAIN options = 1..Len(options) /\ DOMAIN initialized = 1..Len(initialized)
    BY <1>1, <1>9
  <2>3. \A i \in 1..Len(options) : \E j \in 1..Len(initialized) : options[i] = initialized[j]
    BY <1>11, <2>2 DEF Range
  <2> HIDE DEF P, others
  <2> QED BY <2>1, <2>3 DEF Range
<1>16. \A x \in Range(clients), y \in Range(others) : x.id # y.id
  <2>1. DOMAIN services = 1..Len(services) /\ DOMAIN attributes = 1..Len(attributes)
    BY <1>1
  <2>2. \A x \in Range(services), y \in Range(attributes) : x.id # y.id
    BY <1>8, <2>1 DEF Range
  <2> HIDE DEF clients, others
  <2> QED BY <1>14, <2>2
<1> HIDE DEF clients, others, P
<1>17. /\ NoTwo(clients \o others) /\ clients \o others \in Seq(Declaration)
       /\ Range(clients \o others) = Range(clients) \cup Range(others)
  <2>1. NoTwo(clients \o others)
    BY <1>12, <1>13, <1>16, NoTwoTogether
  <2>2. clients \o others \in Seq(Declaration)
    BY <1>12, ConcatProperties
  <2>3. Range(clients \o others) = Range(clients) \cup Range(others)
    BY <1>12, ConcatenationRange
  <2> QED BY <2>1, <2>2, <2>3
<1>18. Declares(clients \o others, DataModelNames)
  <2>1. Range(NameInstances(clients \o others)) = {x.id : x \in Range(clients \o others)}
        /\ Range(NameInstances(services \o attributes)) = {x.id : x \in Range(services \o attributes)}
    BY <1>7, <1>17, NamesAre
  <2>2. Range(NameInstances(clients \o others)) \subseteq Range(NameInstances(services \o attributes))
    BY <1>7, <1>14, <1>17, <2>1
  <2>3. IsInjective(NameInstances(clients \o others))
    BY <1>17, NoTwoNames
  <2> QED BY <1>6, <2>2, <2>3 DEF Declares
<1>19. Declares(P, MainNames) /\ Declares(P, SkillNames)
  <2>1. Range(NameInstances(P)) = {x.id : x \in Range(P)}
        /\ Range(NameInstances(options)) = {x.id : x \in Range(options)}
    BY <1>1, <1>12, NamesAre
  <2>2. Range(NameInstances(P)) \subseteq Range(NameInstances(options))
    BY <1>14, <2>1
  <2>3. IsInjective(NameInstances(P))
    BY <1>12, <1>13, NoTwoNames
  <2> QED BY <1>6, <2>2, <2>3 DEF Declares
<1> QED BY <1>3, <1>4, <1>15, <1>17, <1>18, <1>19 DEF clients, services

LEMMA ThreeWords ==
  ASSUME NEW a, NEW b, NEW c
  PROVE  Append(<<a, b>>, c) = <<a, b, c>>
<1> DEFINE S == {a, b, c}
           s == <<a, b>>
           t == Append(s, c)
<1>1. s \in Seq(S) /\ Len(s) = 2 /\ s[1] = a /\ s[2] = b /\ c \in S
  OBVIOUS
<1> HIDE DEF s, S
<1>2. t \in Seq(S) /\ Len(t) = Len(s) + 1
  BY <1>1, AppendProperties
<1>3. t[Len(s) + 1] = c
  BY <1>1, AppendProperties
<1>4. \A n \in 1..Len(s) : t[n] = s[n]
  <2>1. s \in Seq(S) /\ c \in S
    BY <1>1
  <2> HIDE DEF t
  <2>2. t = Append(s, c)
    BY DEF t
  <2> QED BY <2>1, <2>2, AppendProperties
<1> HIDE DEF t
<1>5. t \in Seq(S) /\ Len(t) = 3 /\ t[1] = a /\ t[2] = b /\ t[3] = c
  BY <1>1, <1>2, <1>3, <1>4
<1>6. t = <<a, b, c>>
  BY <1>5
<1> QED BY <1>6 DEF t, s

LEMMA CallsDeclared ==
  ASSUME NEW doc \in Documents, skill = describe(doc), Referenced, NEW c \in DOMAIN Calls(skill)
  PROVE  /\ Calls(skill)[c].service \in Range(NameInstances(skill.UsedServices))
         /\ Len(Calls(skill)[c].name) = 3 =>
              [type |-> "std::string", id |-> Calls(skill)[c].name[3]] \in Range(Members(skill))
<1> DEFINE services == skill.UsedServices
           n == Len(services)
<1>1. services \in Seq(DataElement) /\ n \in Nat /\ DOMAIN services = 1..n
  <2>1. services \in Seq(DataElement)
    BY DescribedData
  <2> QED BY <2>1
<1>2. /\ DOMAIN Calls(skill) = 1..n + n + n
      /\ \A s \in 1..n : /\ Calls(skill)[s] = Call(skill, services[s], "open")
                         /\ Calls(skill)[n + s] = Call(skill, services[s], "attach")
                         /\ Calls(skill)[n + n + s] = Call(skill, services[s], "connect")
  <2>1. Calls(skill) \in Seq(Range(Calls(skill))) /\ Len(Calls(skill)) = n + n + n
    BY CallsAre
  <2>2. DOMAIN Calls(skill) = 1..n + n + n
    BY <2>1
  <2> QED BY <2>2, CallsAre
<1>3. \A s \in 1..n : LET attribute == services[s].port_name_client_attribute
                      IN  attribute = "default" \/ [type |-> "std::string", id |-> attribute] \in Range(Members(skill))
  BY <1>1 DEF Referenced
<1>4. Range(NameInstances(services)) = {x.id : x \in Range(services)}
  BY <1>1, NamesAre
<1> HIDE DEF services, n
<1>5. PICK s \in 1..n, op \in {"open", "attach", "connect"} : Calls(skill)[c] = Call(skill, services[s], op)
  <2>1. CASE c \in 1..n
    BY <1>2, <2>1
  <2>2. CASE c \in n + 1..n + n
    <3>1. c - n \in 1..n /\ c = n + (c - n)
      BY <1>1, <2>2
    <3> QED BY <1>2, <3>1
  <2>3. CASE c \in n + n + 1..n + n + n
    <3>1. c - (n + n) \in 1..n /\ c = n + n + (c - (n + n))
      BY <1>1, <2>3
    <3> QED BY <1>2, <3>1
  <2> QED BY <1>1, <1>2, <2>1, <2>2, <2>3
<1>6. services[s].id \in Range(NameInstances(services))
  <2>1. services[s] \in Range(services)
    BY <1>1 DEF Range
  <2> QED BY <1>4, <2>1
<1>7. services[s].port_name_client_attribute # "default" \/ Len(PortName(skill, services[s])) = 2
  BY DEF PortName, PortPrefix
<1>8. Len(PortName(skill, services[s])) = 3 =>
        /\ PortName(skill, services[s])[3] = services[s].port_name_client_attribute
        /\ services[s].port_name_client_attribute # "default"
  <2>1. ASSUME NEW w, NEW a PROVE Append(<<w, "Client">>, a) = <<w, "Client", a>>
    BY ThreeWords
  <2>2. services[s].port_name_client_attribute # "default" =>
          PortName(skill, services[s])[3] = services[s].port_name_client_attribute
    BY <2>1 DEF PortName, PortPrefix
  <2> QED BY <1>7, <2>2
<1>9. Calls(skill)[c].service = services[s].id /\ Calls(skill)[c].name = PortName(skill, services[s])
  BY <1>5 DEF Call
<1> QED BY <1>3, <1>6, <1>8, <1>9 DEF services

LEMMA AnswersDeclared ==
  ASSUME NEW doc \in Documents, Compiles(doc), skill = describe(doc), Declared, NEW values_,
         NEW a \in DOMAIN generate_Skill_cpp(skill, values_).answers
  PROVE  generate_Skill_cpp(skill, values_).answers[a].SkillAck \in SkillAck
<1> DEFINE list == skill.ListStates
           set == {s \in Range(list) : s.id # "wrapper"}
           answers == Among(list, set)
<1>1. generate_Skill_cpp(skill, values_).answers = answers
  BY DEF generate_Skill_cpp
<1>2. list \in Seq(Range(list)) /\ \A s \in Range(list) : ListedState(s)
  BY DescribedStates
<1>3. \A s \in DOMAIN list : list[s].id = "wrapper" \/ list[s].SkillAck # "SKILL_UNDEFINED"
  BY DEF Declared
<1> HIDE DEF list
<1>4. Range(answers) = Range(list) \cap set
  BY <1>2, AmongKeeps
<1> HIDE DEF answers
<1>5. answers[a] \in Range(list) /\ answers[a].id # "wrapper"
  BY <1>1, <1>4 DEF Range
<1> QED BY <1>1, <1>2, <1>3, <1>5 DEF Range, ListedState

LEMMA GenerationBuilds ==
  ASSUME NEW doc \in Documents, Compiles(doc), skill = describe(doc), WellFormed,
         \A f \in Files : files[f] = Wanted(f)
  PROVE  Builds(files)
<1> DEFINE P == ConstructorParameters(skill)
           A == ConstructorArguments(skill)
           main == files["main"]
           h == files["Skill_h"]
           cpp == files["Skill_cpp"]
           dh == files["DataModel_h"]
           dcpp == files["DataModel_cpp"]
<1> USE DEF WellFormed
<1>1. /\ main = generate_Main(skill) /\ h = generate_Skill_h(skill)
      /\ cpp = generate_Skill_cpp(skill, P)
      /\ dh = generate_Skill_DataModel_h(skill) /\ dcpp = generate_Skill_DataModel_cpp(skill)
  BY DEF Files, Wanted
<1>2. \A f \in Files : files[f].Skill = skill.skill_name
  BY <1>1 DEF Files, generate_Main, generate_Skill_h, generate_Skill_cpp, generate_Skill_DataModel_h,
              generate_Skill_DataModel_cpp
<1>3. /\ main.passed = A /\ main.parsed = P /\ h.parameters = P
      /\ cpp.parameters = P /\ cpp.dataModel = A /\ dh.parameters = P
      /\ dcpp.parameters = P /\ dcpp.assigned = A
      /\ dh.ports = NameInstances(skill.UsedServices)
      /\ dh.members = Clients(skill.UsedServices) \o Members(skill)
      /\ dcpp.setup = Calls(skill)
  BY <1>1, ParametersAre
  DEF generate_Main, generate_Skill_h, generate_Skill_cpp, generate_Skill_DataModel_h, generate_Skill_DataModel_cpp
<1>4. /\ Declares(P, MainNames) /\ Declares(P, SkillNames) /\ Declares(dh.members, DataModelNames)
      /\ Range(P) \subseteq Range(dh.members) /\ Range(Members(skill)) \subseteq Range(dh.members)
  BY <1>3, MembersAre
<1>5. \A c \in DOMAIN dcpp.setup :
        /\ dcpp.setup[c].service \in Range(dh.ports)
        /\ Len(dcpp.setup[c].name) = 3 =>
             [type |-> "std::string", id |-> dcpp.setup[c].name[3]] \in Range(dh.members)
  BY <1>3, <1>4, CallsDeclared
<1>6. \A a \in DOMAIN cpp.answers : cpp.answers[a].SkillAck \in SkillAck
  BY <1>1, AnswersDeclared
<1>7. \A f \in Files : files[f].Skill = main.Skill
  BY <1>2 DEF Files
<1>8. Passes(A, P, P) /\ Passes(A, dh.members, P)
  BY <1>4, Passing
<1> HIDE DEF P, A
<1> QED BY <1>3, <1>4, <1>5, <1>6, <1>7, <1>8 DEF Builds

-----------------------------------------------------------------------------
(* The runs of the generator.  A file that the run of the description has  *)
(* written has the content it should, whatever it had before: Skill_h      *)
(* comes before Skill_cpp, so that the parameters are there.               *)

BuildInv ==
  /\ chart \in Charts
  /\ \E c \in Charts : Compiles(c) /\ skill = describe(c)
  /\ pc \in 0..5
  /\ pc > 2 => values = ConstructorParameters(skill)
  /\ \A n \in 1..5 : (pc = 0 \/ n < pc) /\ Order[n] \notin unwritten => files[Order[n]] = Wanted(Order[n])
  /\ DOMAIN files = Files

LEMMA OrderIs ==
  /\ Order[1] = "main" /\ Order[2] = "Skill_h" /\ Order[3] = "Skill_cpp"
  /\ Order[4] = "DataModel_h" /\ Order[5] = "DataModel_cpp" /\ Len(Order) = 5
  /\ \A n \in 1..5 : Order[n] \in Files
  /\ \A f \in Files : \E n \in 1..5 : f = Order[n]
  /\ \A m, n \in 1..5 : Order[m] = Order[n] => m = n
BY DEF Order, Files

LEMMA BuildInitInv == BuildInit => BuildInv
<1> SUFFICES ASSUME BuildInit PROVE BuildInv
  OBVIOUS
<1>1. \A n \in 1..5 : Order[n] \in unwritten
  BY OrderIs DEF BuildInit
<1> QED BY <1>1 DEF BuildInit, BuildInv

LEMMA BuildStepInv ==
  ASSUME BuildInv, Edit \/ Start \/ Generate \/ UNCHANGED buildVars
  PROVE  BuildInv'
<1>1. CASE Edit
  BY <1>1 DEF Edit, BuildInv, Wanted
<1>2. CASE Start
  <2>1. pc' = 1 /\ ~(pc' > 2) /\ \A n \in 1..5 : ~(n < pc')
    BY <1>2 DEF Start
  <2> QED BY <1>2, <2>1 DEF Start, BuildInv
<1>3. CASE Generate
  <2> DEFINE file == Order[pc]
  <2>1. PICK opened_ \in BOOLEAN :
          /\ files' = IF opened_ THEN [files EXCEPT ![file] = Content(file)] ELSE files
          /\ unwritten' = IF opened_ THEN unwritten ELSE unwritten \cup {file}
    BY <1>3 DEF Generate
  <2>2. /\ pc \in 1..5 /\ skill' = skill /\ chart' = chart
        /\ values' = IF file = "Skill_h" THEN ConstructorParameters(skill) ELSE values
        /\ pc' = IF pc = 5 THEN 0 ELSE pc + 1
    BY <1>3, OrderIs DEF Generate, BuildInv
  <2>3. Content(file) = Wanted(file)
    <3>1. pc = 3 => values = ConstructorParameters(skill)
      BY <2>2 DEF BuildInv
    <3>2. file = "Skill_cpp" => pc = 3
      BY <2>2, OrderIs
    <3> QED BY <2>2, <3>1, <3>2, OrderIs DEF Content, Wanted, Files
  <2>4. pc' \in 0..5 /\ (pc' > 2 => values' = ConstructorParameters(skill'))
    <3>1. CASE pc = 2
      BY <2>2, <3>1, OrderIs
    <3>2. CASE pc # 2
      <4>1. file # "Skill_h"
        BY <2>2, <3>2, OrderIs
      <4>2. pc' > 2 => pc > 2
        BY <2>2, <3>2
      <4> QED BY <2>2, <4>1, <4>2 DEF BuildInv
    <3> QED BY <3>1, <3>2
  <2>5. DOMAIN files' = Files
    BY <2>1 DEF BuildInv
  <2>6. ASSUME NEW n \in 1..5, pc' = 0 \/ n < pc', Order[n] \notin unwritten'
        PROVE  files'[Order[n]] = Wanted(Order[n])
    <3>1. CASE n = pc
      BY <2>1, <2>3, <2>6, <3>1, OrderIs DEF BuildInv
    <3>2. CASE n # pc
      <4>1. n < pc
        BY <2>2, <2>6, <3>2
      <4>2. Order[n] \notin unwritten /\ files'[Order[n]] = files[Order[n]]
        BY <2>1, <2>2, <2>6, <3>2, OrderIs
      <4> QED BY <4>1, <4>2 DEF BuildInv
    <3> QED BY <3>1, <3>2
  <2>7. \A f : Wanted(f)' = Wanted(f)
    BY <2>2 DEF Wanted
  <2> QED BY <2>2, <2>4, <2>5, <2>6, <2>7 DEF BuildInv
<1>4. CASE UNCHANGED buildVars
  BY <1>4 DEF buildVars, BuildInv, Wanted
<1> QED BY <1>1, <1>2, <1>3, <1>4

LEMMA BuildNext == [Next]_vars => Edit \/ Start \/ Generate \/ UNCHANGED buildVars
BY DEF Next, Develop, ServerUp, Launch, Step, Return, Begin, Move, Ask, Answer, vars

LEMMA BuildInvariant == Spec => []BuildInv
<1>1. Init => BuildInv
  BY BuildInitInv DEF Init
<1>2. BuildInv /\ [Next]_vars => BuildInv'
  BY BuildNext, BuildStepInv
<1> QED BY <1>1, <1>2, PTL DEF Spec

\* The files of a run that could write them all fit together, whatever earlier
\* runs had left of other statecharts, if the elements are well formed.
THEOREM GeneratedBuildsHolds == Spec => []GeneratedBuilds
<1>1. BuildInv => GeneratedBuilds
  <2> SUFFICES ASSUME BuildInv, pc = 0, unwritten = {}, WellFormed
               PROVE  Builds(files)
    BY DEF GeneratedBuilds
  <2>1. PICK c \in Charts : Compiles(c) /\ skill = describe(c)
    BY DEF BuildInv
  <2>2. c \in Documents
    BY ChartsAssumption
  <2>3. \A f \in Files : files[f] = Wanted(f)
    BY OrderIs DEF BuildInv
  <2> QED BY <2>1, <2>2, <2>3, GenerationBuilds
<1> QED BY <1>1, BuildInvariant, PTL

-----------------------------------------------------------------------------
(* The processes: each is made from a statechart, and the calls of setup   *)
(* before the next one have been made.                                     *)

Made(i, doc) ==
  program[i].services = describe(doc).UsedServices /\ program[i].setup = Calls(describe(doc))

Done(i, op) == {n \in 1..next[i] - 1 : program[i].setup[n].op = op}

Shape ==
  /\ DOMAIN program = Skills
  /\ phase \in [Skills -> {"down", "setup", "ended", "running"}]
  /\ next \in [Skills -> Nat \ {0}]
  /\ DOMAIN opened = Skills /\ DOMAIN attached = Skills /\ DOMAIN connected = Skills
  /\ ok \in [Skills -> BOOLEAN]

Known(i) ==
  /\ opened[i] = {Resolved(i, program[i].setup[n].name) : n \in Done(i, "open")}
  /\ attached[i] = {program[i].setup[n].service : n \in Done(i, "attach")}
  /\ connected[i] = {<<program[i].setup[n].service, program[i].setup[n].server>> : n \in Done(i, "connect")}

Progress(i) ==
  /\ next[i] <= Len(program[i].setup) + 1
  /\ phase[i] = "down" => next[i] = 1
  /\ phase[i] \in {"down", "setup"} => ~ok[i]
  /\ ok[i] => next[i] = Len(program[i].setup) + 1

StartupInv ==
  /\ Shape
  /\ \A i \in Skills : (\E doc \in Sources(i) : Made(i, doc)) /\ Known(i) /\ Progress(i)

LEMMA SourcesAreDocuments ==
  ASSUME NEW i \in Skills
  PROVE  Sources(i) \subseteq Documents
BY ChartsAssumption, ChartOfAssumption DEF Sources

LEMMA SetupIsAList ==
  ASSUME NEW i \in Skills, StartupInv
  PROVE  /\ Len(program[i].setup) \in Nat /\ DOMAIN program[i].setup = 1..Len(program[i].setup)
         /\ next[i] \in Nat \ {0}
<1>1. PICK doc \in Sources(i) : Made(i, doc)
  BY DEF StartupInv
<1>2. Calls(describe(doc)) \in Seq(Range(Calls(describe(doc))))
  BY <1>1, SourcesAreDocuments, CallsAre
<1>3. program[i].setup \in Seq(Range(Calls(describe(doc))))
  BY <1>1, <1>2 DEF Made
<1> QED BY <1>3 DEF StartupInv, Shape

LEMMA StartupInitInv == Init => StartupInv
<1> SUFFICES ASSUME Init PROVE StartupInv
  OBVIOUS
<1>1. Shape
  BY DEF Init, Shape
<1>2. ASSUME NEW i \in Skills PROVE (\E doc \in Sources(i) : Made(i, doc)) /\ Known(i) /\ Progress(i)
  <2> DEFINE doc == IF i \in Developed THEN chart ELSE ChartOf[i]
  <2>1. doc \in Sources(i)
    BY DEF Init, BuildInit, Sources
  <2>2. program[i] = Written(doc)
    BY <1>2 DEF Init
  <2>3. Made(i, doc)
    BY <2>2 DEF Made, Written, Program, generate_Skill_DataModel_cpp
  <2>4. next[i] = 1 /\ opened[i] = {} /\ attached[i] = {} /\ connected[i] = {} /\ ok[i] = FALSE
    BY DEF Init
  <2>5. Known(i)
    BY <2>4 DEF Known, Done
  <2>6. Len(program[i].setup) \in Nat
    <3>1. Calls(describe(doc)) \in Seq(Range(Calls(describe(doc))))
      BY <2>1, SourcesAreDocuments, CallsAre
    <3> QED BY <2>3, <3>1 DEF Made
  <2>7. Progress(i)
    BY <2>4, <2>6 DEF Progress
  <2> QED BY <2>1, <2>3, <2>5, <2>7
<1> QED BY <1>1, <1>2 DEF StartupInv

\* A process none of whose variables changes.
LEMMA StaysAsItIs ==
  ASSUME NEW i \in Skills, StartupInv,
         program'[i] = program[i], next'[i] = next[i], opened'[i] = opened[i],
         attached'[i] = attached[i], connected'[i] = connected[i]
  PROVE  /\ \A doc : Made(i, doc)' = Made(i, doc)
         /\ Known(i)' = Known(i)
         /\ phase'[i] = phase[i] /\ ok'[i] = ok[i] => Progress(i)' = Progress(i)
BY DEF Made, Known, Done, Progress

LEMMA StepInv ==
  ASSUME StartupInv, NEW i \in Skills, Step(i)
  PROVE  StartupInv'
<1> DEFINE setup == program[i].setup
           k == next[i]
           call == setup[k]
<1>1. /\ phase[i] = "setup" /\ k \in DOMAIN setup /\ program' = program /\ ok' = ok
  BY DEF Step
<1>2. k \in 1..Len(setup) /\ Len(setup) \in Nat /\ k \in Nat \ {0}
  BY <1>1, SetupIsAList
<1>3. \A j \in Skills : j # i =>
        /\ program'[j] = program[j] /\ next'[j] = next[j] /\ opened'[j] = opened[j]
        /\ attached'[j] = attached[j] /\ connected'[j] = connected[j] /\ phase'[j] = phase[j] /\ ok'[j] = ok[j]
  BY DEF Step, Add, StartupInv, Shape
<1>4. \A j \in Skills : j # i => (\E doc \in Sources(j) : Made(j, doc))' /\ Known(j)' /\ Progress(j)'
  BY <1>3, StaysAsItIs DEF StartupInv, Sources
<1>5. Shape'
  BY <1>1, <1>2 DEF Step, Add, StartupInv, Shape
<1>6. (\E doc \in Sources(i) : Made(i, doc))'
  BY <1>1 DEF StartupInv, Made, Sources
<1>7. ASSUME /\ opened' = IF call.op = "open" THEN Add(opened, i, Resolved(i, call.name)) ELSE opened
             /\ attached' = IF call.op = "attach" THEN Add(attached, i, call.service) ELSE attached
             /\ connected' = IF call.op = "connect" THEN Add(connected, i, <<call.service, call.server>>) ELSE connected
             /\ next' = [next EXCEPT ![i] = @ + 1]
             /\ phase' = phase
      PROVE  Known(i)' /\ Progress(i)'
  <2>1. next'[i] = k + 1
    BY <1>7 DEF StartupInv, Shape
  <2>2. \A op : Done(i, op)' = Done(i, op) \cup (IF call.op = op THEN {k} ELSE {})
    <3>1. 1..(k + 1) - 1 = 1..k - 1 \cup {k}
      BY <1>2
    <3> QED BY <1>1, <2>1, <3>1 DEF Done
  <2>3. Known(i)
    BY DEF StartupInv
  <2>4. opened'[i] = opened[i] \cup (IF call.op = "open" THEN {Resolved(i, call.name)} ELSE {})
    BY <1>7 DEF Add, StartupInv, Shape
  <2>5. attached'[i] = attached[i] \cup (IF call.op = "attach" THEN {call.service} ELSE {})
    BY <1>7 DEF Add, StartupInv, Shape
  <2>6. connected'[i] = connected[i] \cup (IF call.op = "connect" THEN {<<call.service, call.server>>} ELSE {})
    BY <1>7 DEF Add, StartupInv, Shape
  <2>7. \A name : Resolved(i, name)' = Resolved(i, name)
    BY DEF Resolved
  <2>8. opened'[i] = {Resolved(i, setup[n].name) : n \in Done(i, "open")'}
    BY <2>2, <2>3, <2>4 DEF Known
  <2>9. attached'[i] = {setup[n].service : n \in Done(i, "attach")'}
    BY <2>2, <2>3, <2>5 DEF Known
  <2>10. connected'[i] = {<<setup[n].service, setup[n].server>> : n \in Done(i, "connect")'}
    BY <2>2, <2>3, <2>6 DEF Known
  <2>11. Known(i)'
    BY <1>1, <2>7, <2>8, <2>9, <2>10 DEF Known
  <2>12. Progress(i)'
    BY <1>1, <1>2, <1>7, <2>1 DEF Progress, StartupInv
  <2> QED BY <2>11, <2>12
<1>8. ASSUME phase' = [phase EXCEPT ![i] = "ended"], UNCHANGED <<next, opened, attached, connected>>
      PROVE  Known(i)' /\ Progress(i)'
  <2>1. Known(i)'
    BY <1>1, <1>8, StaysAsItIs DEF StartupInv
  <2>2. Progress(i)'
    BY <1>1, <1>8 DEF Progress, StartupInv, Shape
  <2> QED BY <2>1, <2>2
<1>9. Known(i)' /\ Progress(i)'
  <2> HIDE DEF call
  <2>1. \/ /\ opened' = IF call.op = "open" THEN Add(opened, i, Resolved(i, call.name)) ELSE opened
           /\ attached' = IF call.op = "attach" THEN Add(attached, i, call.service) ELSE attached
           /\ connected' = IF call.op = "connect" THEN Add(connected, i, <<call.service, call.server>>) ELSE connected
           /\ next' = [next EXCEPT ![i] = @ + 1]
           /\ phase' = phase
        \/ phase' = [phase EXCEPT ![i] = "ended"] /\ UNCHANGED <<next, opened, attached, connected>>
    BY DEF Step, call
  <2> QED BY <1>7, <1>8, <2>1
<1> QED BY <1>4, <1>5, <1>6, <1>9 DEF StartupInv

LEMMA ReturnInv ==
  ASSUME StartupInv, NEW i \in Skills, Return(i)
  PROVE  StartupInv'
<1>1. Shape'
  BY DEF Return, StartupInv, Shape
<1>2. ASSUME NEW j \in Skills PROVE (\E doc \in Sources(j) : Made(j, doc))' /\ Known(j)'
  BY StaysAsItIs DEF Return, StartupInv, Sources
<1>3. Progress(i)'
  <2>1. next[i] = Len(program[i].setup) + 1
    BY SetupIsAList DEF Return, StartupInv, Progress
  <2> QED BY <2>1 DEF Return, StartupInv, Shape, Progress
<1>4. ASSUME NEW j \in Skills, j # i PROVE Progress(j)'
  BY <1>4 DEF Return, StartupInv, Shape, Progress
<1> QED BY <1>1, <1>2, <1>3, <1>4 DEF StartupInv

LEMMA BeginInv ==
  ASSUME StartupInv, NEW i \in Skills, Begin(i)
  PROVE  StartupInv'
<1>1. Shape'
  BY DEF Begin, StartupInv, Shape
<1>2. ASSUME NEW j \in Skills PROVE (\E doc \in Sources(j) : Made(j, doc))' /\ Known(j)'
  BY StaysAsItIs DEF Begin, StartupInv, Sources
<1>3. ASSUME NEW j \in Skills PROVE Progress(j)'
  BY <1>3 DEF Begin, StartupInv, Shape, Progress
<1> QED BY <1>1, <1>2, <1>3 DEF StartupInv

\* The program of a process under development is that of the statechart on disk.
LEMMA LaunchInv ==
  ASSUME StartupInv, BuildInv, NEW i \in Skills, Launch(i)
  PROVE  StartupInv'
<1>1. /\ phase[i] = "down" /\ Built /\ program' = Launched(i)
      /\ phase' = [phase EXCEPT ![i] = "setup"]
      /\ UNCHANGED <<next, opened, attached, connected, ok>>
  BY DEF Launch
<1>2. Shape'
  BY <1>1 DEF StartupInv, Shape, Launched
<1>3. \A j \in Skills : j # i => program'[j] = program[j]
  BY <1>1 DEF StartupInv, Shape, Launched
<1>4. ASSUME NEW j \in Skills, j # i
      PROVE  (\E doc \in Sources(j) : Made(j, doc))' /\ Known(j)' /\ Progress(j)'
  <2>1. phase'[j] = phase[j]
    BY <1>1, <1>4 DEF StartupInv, Shape
  <2> QED BY <1>1, <1>3, <1>4, <2>1, StaysAsItIs DEF StartupInv, Sources
<1>5. next[i] = 1 /\ ~ok[i]
  BY <1>1 DEF StartupInv, Progress
<1>6. (\E doc \in Sources(i) : Made(i, doc))'
  <2>1. CASE i \in Developed
    <3>1. program'[i] = Program(chart, files["Skill_cpp"], files["DataModel_cpp"])
      BY <1>1, <2>1 DEF StartupInv, Shape, Launched
    <3>2. files["DataModel_cpp"] = generate_Skill_DataModel_cpp(skill)
      BY <1>1, OrderIs DEF BuildInv, Built, Wanted
    <3>3. skill = describe(chart) /\ chart \in Charts /\ Compiles(chart)
      BY <1>1 DEF Built, BuildInv
    <3>4. Made(i, chart)' = (program'[i].services = describe(chart').UsedServices
                             /\ program'[i].setup = Calls(describe(chart')))
      BY DEF Made
    <3>5. chart' = chart
      BY DEF Launch, buildVars
    <3>6. program'[i].services = describe(chart).UsedServices /\ program'[i].setup = files["DataModel_cpp"].setup
      BY <3>1 DEF Program
    <3>7. files["DataModel_cpp"].setup = Calls(describe(chart))
      BY <3>2, <3>3 DEF generate_Skill_DataModel_cpp
    <3>8. Made(i, chart)'
      BY <3>4, <3>5, <3>6, <3>7
    <3> QED BY <2>1, <3>3, <3>5, <3>8 DEF Sources
  <2>2. CASE i \notin Developed
    <3>1. program' = program
      BY <1>1, <2>2 DEF Launched
    <3> QED BY <3>1 DEF StartupInv, Made, Sources
  <2> QED BY <2>1, <2>2
<1>7. Known(i)'
  <2>1. opened[i] = {} /\ attached[i] = {} /\ connected[i] = {}
    BY <1>5 DEF StartupInv, Known, Done
  <2>2. \A op : Done(i, op)' = {}
    BY <1>1, <1>5 DEF Done
  <2> QED BY <1>1, <2>1, <2>2 DEF Known
<1>8. Progress(i)'
  <2>1. Len(program'[i].setup) \in Nat
    <3>1. PICK doc \in Sources(i) : Made(i, doc)'
      BY <1>6 DEF Sources
    <3>2. Calls(describe(doc)) \in Seq(Range(Calls(describe(doc))))
      BY <3>1, SourcesAreDocuments, CallsAre
    <3> QED BY <3>1, <3>2 DEF Made
  <2>2. phase'[i] = "setup" /\ next'[i] = 1 /\ ~ok'[i]
    BY <1>1, <1>5 DEF StartupInv, Shape
  <2> QED BY <2>1, <2>2 DEF Progress
<1> QED BY <1>2, <1>4, <1>6, <1>7, <1>8 DEF StartupInv

LEMMA StartupNextInv == StartupInv /\ BuildInv /\ [Next]_vars => StartupInv'
<1> SUFFICES ASSUME StartupInv, BuildInv, [Next]_vars PROVE StartupInv'
  OBVIOUS
<1>1. ASSUME UNCHANGED <<program, setupVars>> PROVE StartupInv'
  <2>1. /\ program' = program /\ phase' = phase /\ next' = next /\ opened' = opened
        /\ attached' = attached /\ connected' = connected /\ ok' = ok
    BY <1>1 DEF setupVars
  <2>2. Shape'
    BY <2>1 DEF StartupInv, Shape
  <2> QED BY <2>1, <2>2, StaysAsItIs DEF StartupInv, Sources
<1>2. CASE Develop
  BY <1>1, <1>2 DEF Develop
<1>3. ASSUME NEW s \in Servers, ServerUp(s) PROVE StartupInv'
  BY <1>1, <1>3 DEF ServerUp
<1>4. ASSUME NEW i \in Skills, Move(i) \/ Ask(i) \/ Answer(i) PROVE StartupInv'
  BY <1>1, <1>4 DEF Move, Ask, Answer
<1>5. CASE UNCHANGED vars
  BY <1>1, <1>5 DEF vars, setupVars
<1> QED BY <1>2, <1>3, <1>4, <1>5, LaunchInv, StepInv, ReturnInv, BeginInv DEF Next

LEMMA StartupInvariant == Spec => []StartupInv
<1>1. Init => StartupInv
  BY StartupInitInv
<1>2. StartupInv /\ BuildInv /\ [Next]_vars => StartupInv'
  BY StartupNextInv
<1> QED BY <1>1, <1>2, BuildInvariant, PTL DEF Spec


\* A setup that has returned true has made all its calls.
THEOREM SetupConnectsHolds == Spec => []SetupConnects
<1>1. StartupInv => SetupConnects
  <2> SUFFICES ASSUME StartupInv, NEW i \in Skills, ok[i], NEW s \in DOMAIN program[i].services
               PROVE  LET service == program[i].services[s]
                      IN  /\ service.id \in attached[i]
                          /\ <<service.id, service.port_name_server>> \in connected[i]
    BY DEF SetupConnects
  <2> DEFINE service == program[i].services[s]
             setup == program[i].setup
             n == Len(program[i].services)
  <2>1. PICK doc \in Sources(i) : Made(i, doc)
    BY DEF StartupInv
  <2>2. doc \in Documents
    BY <2>1, SourcesAreDocuments
  <2>3. n \in Nat /\ s \in 1..n
    <3>1. program[i].services \in Seq(DataElement)
      BY <2>1, <2>2, DescribedData DEF Made
    <3> QED BY <3>1
  <2>4. Len(setup) = n + n + n
        /\ setup[n + s] = Call(describe(doc), service, "attach")
        /\ setup[n + n + s] = Call(describe(doc), service, "connect")
    BY <2>1, <2>2, <2>3, CallsAre DEF Made
  <2>5. next[i] - 1 = n + n + n
    <3>1. next[i] = Len(setup) + 1
      BY DEF StartupInv, Progress
    <3> HIDE DEF setup, n
    <3> QED BY <2>3, <2>4, <3>1
  <2> HIDE DEF service, setup, n
  <2>6. setup[n + s].op = "attach" /\ setup[n + s].service = service.id
        /\ setup[n + n + s].op = "connect" /\ setup[n + n + s].service = service.id
        /\ setup[n + n + s].server = service.port_name_server
    BY <2>4 DEF Call
  <2>7. n + s \in Done(i, "attach") /\ n + n + s \in Done(i, "connect")
    BY <2>3, <2>5, <2>6 DEF Done, setup
  <2>8. Known(i)
    BY DEF StartupInv
  <2>9. service.id \in attached[i]
    BY <2>6, <2>7, <2>8 DEF Known, setup
  <2>10. <<service.id, service.port_name_server>> \in connected[i]
    BY <2>6, <2>7, <2>8 DEF Known, setup
  <2> QED BY <2>9, <2>10 DEF service
<1> QED BY <1>1, StartupInvariant, PTL

-----------------------------------------------------------------------------
(* The names of the ports: what the options tell apart.                    *)

PortOf(i, doc, s) == Resolved(i, PortName(describe(doc), describe(doc).UsedServices[s]))

PortFacts(i, doc, s, client, port) ==
  /\ Len(port) = IF client = "default" THEN 2 ELSE 3
  /\ PortPrefix(describe(doc), describe(doc).UsedServices[s]) = <<port[1], port[2]>>
  /\ client # "default" => port[3] = Option[i][client]

LEMMA PortIs ==
  ASSUME NEW i, NEW doc \in Documents, NEW s
  PROVE  PortFacts(i, doc, s, describe(doc).UsedServices[s].port_name_client_attribute, PortOf(i, doc, s))
<1> DEFINE client == describe(doc).UsedServices[s]
           attribute == client.port_name_client_attribute
           word == Spelled(client.service_type) \o Spelled(describe(doc).skill_name)
           prefix == <<word, "Client">>
<1>1. PortPrefix(describe(doc), client) = prefix
  BY DEF PortPrefix
<1> HIDE DEF word
<1>2. CASE attribute = "default"
  <2>1. PortOf(i, doc, s) = Resolved(i, prefix)
    BY <1>1, <1>2 DEF PortOf, PortName
  <2>2. Resolved(i, prefix) = prefix
    BY DEF Resolved
  <2> QED BY <1>1, <1>2, <2>1, <2>2 DEF PortFacts
<1>3. CASE attribute # "default"
  <2> DEFINE name == <<word, "Client", attribute>>
             port == <<word, "Client", Option[i][attribute]>>
  <2>1. Append(prefix, attribute) = name
    BY ThreeWords
  <2>2. PortOf(i, doc, s) = Resolved(i, name)
    BY <1>1, <1>3, <2>1 DEF PortOf, PortName
  <2>3. Resolved(i, name) = port
    BY DEF Resolved
  <2>4. Len(port) = 3 /\ prefix = <<port[1], port[2]>> /\ port[3] = Option[i][attribute]
    OBVIOUS
  <2> HIDE DEF name, port, prefix
  <2> QED BY <1>1, <1>3, <2>2, <2>3, <2>4 DEF PortFacts
<1> QED BY <1>2, <1>3

LEMMA PortsDiffer ==
  ASSUME OptionsTellApart, NEW i \in Skills, NEW j \in Skills, NEW c \in Sources(i), NEW d \in Sources(j),
         NEW s \in DOMAIN describe(c).UsedServices, NEW t \in DOMAIN describe(d).UsedServices,
         i # j \/ (c = d /\ s # t)
  PROVE  PortOf(i, c, s) # PortOf(j, d, t)
<1> DEFINE client == describe(c).UsedServices[s]
           other == describe(d).UsedServices[t]
<1>1. c \in Documents /\ d \in Documents
  BY SourcesAreDocuments
<1> DEFINE p == PortOf(i, c, s)
           q == PortOf(j, d, t)
           a == client.port_name_client_attribute
           b == other.port_name_client_attribute
<1>2. PortFacts(i, c, s, a, p)
  BY <1>1, PortIs
<1>3. PortFacts(j, d, t, b, q)
  BY <1>1, PortIs
<1>4. SUFFICES ASSUME p = q PROVE FALSE
  OBVIOUS
<1>5. PortPrefix(describe(c), client) = PortPrefix(describe(d), other)
  <2> HIDE DEF p, q, a, b
  <2> QED BY <1>2, <1>3, <1>4 DEF PortFacts
<1>6. Distinct(i, a, j, b)
  BY <1>5 DEF OptionsTellApart
<1> HIDE DEF p, q, a, b
<1>7. (a = "default") <=> (b = "default")
  BY <1>2, <1>3, <1>4 DEF PortFacts
<1>8. a # "default" => Option[i][a] = Option[j][b]
  BY <1>2, <1>3, <1>4, <1>7 DEF PortFacts
<1> QED BY <1>6, <1>7, <1>8 DEF Distinct

\* The opens come first: call s of the first n opens the port of service s.
LEMMA CallAt ==
  ASSUME NEW i \in Skills, NEW doc \in Sources(i), Made(i, doc), NEW k \in 1..Len(program[i].setup)
  PROVE  LET n == Len(describe(doc).UsedServices)
             call == program[i].setup[k]
         IN  /\ n \in Nat
             /\ call.op = "open" => k \in 1..n /\ Resolved(i, call.name) = PortOf(i, doc, k)
             /\ call.op = "attach" => \E s \in 1..n : /\ s < k
                                                     /\ program[i].setup[s].op = "open"
                                                     /\ program[i].setup[s].name = call.name
             /\ call.op \in {"open", "attach", "connect"}
<1> DEFINE clients == describe(doc).UsedServices
           n == Len(clients)
           setup == program[i].setup
           call == setup[k]
<1>1. doc \in Documents
  BY SourcesAreDocuments
<1>2. n \in Nat
  <2>1. clients \in Seq(DataElement)
    BY <1>1, DescribedData
  <2> QED BY <2>1
<1>3. /\ Len(setup) = n + n + n
      /\ \A s \in 1..n : /\ setup[s] = Call(describe(doc), clients[s], "open")
                         /\ setup[n + s] = Call(describe(doc), clients[s], "attach")
                         /\ setup[n + n + s] = Call(describe(doc), clients[s], "connect")
  BY <1>1, CallsAre DEF Made
<1>4. \A s : PortOf(i, doc, s) = Resolved(i, PortName(describe(doc), clients[s]))
  BY DEF PortOf
<1>5. k \in 1..n + n + n
  BY <1>3
<1> HIDE DEF clients, n, setup
<1>6. CASE k \in 1..n
  <2>1. call = Call(describe(doc), clients[k], "open")
    BY <1>3, <1>6
  <2>2. call.op = "open" /\ call.name = PortName(describe(doc), clients[k])
    BY <2>1 DEF Call
  <2> QED BY <1>2, <1>4, <1>6, <2>2 DEF setup, n, clients
<1>7. CASE k \in n + 1..n + n
  <2> DEFINE s == k - n
  <2>1. s \in 1..n /\ k = n + s /\ s < k
    BY <1>2, <1>7
  <2>2. call = Call(describe(doc), clients[s], "attach") /\ setup[s] = Call(describe(doc), clients[s], "open")
    BY <1>3, <2>1
  <2>3. call.op = "attach" /\ setup[s].op = "open" /\ call.name = setup[s].name
    BY <2>2 DEF Call
  <2> QED BY <1>2, <2>1, <2>3 DEF setup, n, clients
<1>8. CASE k \in n + n + 1..n + n + n
  <2> DEFINE s == k - (n + n)
  <2>1. s \in 1..n /\ k = n + n + s
    BY <1>2, <1>8
  <2>2. call = Call(describe(doc), clients[s], "connect")
    BY <1>3, <2>1
  <2>3. call.op = "connect"
    BY <2>2 DEF Call
  <2> QED BY <1>2, <2>3 DEF setup, n, clients
<1> QED BY <1>2, <1>5, <1>6, <1>7, <1>8

OnlyConnectFails ==
  \A i \in Skills : phase[i] \in {"ended", "running"} /\ ~ok[i] =>
    next[i] \in DOMAIN program[i].setup /\ program[i].setup[next[i]].op = "connect"

LEMMA FailsAtConnect ==
  ASSUME OptionsTellApart, StartupInv, NEW i \in Skills, next[i] \in DOMAIN program[i].setup,
         ~Succeeds(i, program[i].setup[next[i]])
  PROVE  program[i].setup[next[i]].op = "connect"
<1> DEFINE k == next[i]
           call == program[i].setup[k]
<1>1. k \in 1..Len(program[i].setup) /\ k \in Nat
  BY SetupIsAList
<1>2. PICK doc \in Sources(i) : Made(i, doc)
  BY DEF StartupInv
<1> DEFINE n == Len(describe(doc).UsedServices)
<1>3. /\ n \in Nat
      /\ call.op = "open" => k \in 1..n /\ Resolved(i, call.name) = PortOf(i, doc, k)
      /\ call.op = "attach" => \E s \in 1..n : /\ s < k
                                              /\ program[i].setup[s].op = "open"
                                              /\ program[i].setup[s].name = call.name
      /\ call.op \in {"open", "attach", "connect"}
  BY <1>1, <1>2, CallAt
<1>4. Known(i)
  BY DEF StartupInv
<1>5. CASE call.op = "attach"
  <2>1. PICK s \in 1..n : s < k /\ program[i].setup[s].op = "open" /\ program[i].setup[s].name = call.name
    BY <1>3, <1>5
  <2>2. s \in Done(i, "open")
    BY <1>1, <1>3, <2>1 DEF Done
  <2>3. Resolved(i, call.name) \in opened[i]
    BY <1>4, <2>1, <2>2 DEF Known
  <2> QED BY <1>5, <2>3 DEF Succeeds
<1>6. CASE call.op = "open"
  <2>1. PICK j \in Skills : Resolved(i, call.name) \in opened[j]
    BY <1>6 DEF Succeeds
  <2>2. PICK m \in Done(j, "open") : Resolved(i, call.name) = Resolved(j, program[j].setup[m].name)
    BY <2>1 DEF StartupInv, Known
  <2>3. PICK other \in Sources(j) : Made(j, other) /\ (i = j => other = doc)
    BY <1>2 DEF StartupInv
  <2>4. m \in 1..Len(program[j].setup) /\ program[j].setup[m].op = "open" /\ m < next[j]
    <3>1. next[j] <= Len(program[j].setup) + 1 /\ next[j] \in Nat /\ Len(program[j].setup) \in Nat
      BY SetupIsAList DEF StartupInv, Progress
    <3> QED BY <2>2, <3>1 DEF Done
  <2>5. m \in 1..Len(describe(other).UsedServices) /\ Resolved(j, program[j].setup[m].name) = PortOf(j, other, m)
    BY <2>3, <2>4, CallAt
  <2>6. i = j => m # k
    BY <1>1, <2>4
  <2>7. k \in DOMAIN describe(doc).UsedServices /\ m \in DOMAIN describe(other).UsedServices
    <3>1. doc \in Documents /\ other \in Documents
      BY SourcesAreDocuments
    <3>2. describe(doc).UsedServices \in Seq(DataElement) /\ describe(other).UsedServices \in Seq(DataElement)
      BY <3>1, DescribedData
    <3> QED BY <1>3, <1>6, <2>5, <3>2
  <2>8. PortOf(i, doc, k) = PortOf(j, other, m)
    BY <1>3, <1>6, <2>2, <2>5
  <2> HIDE DEF k
  <2>9. i # j \/ (doc = other /\ k # m)
    BY <2>3, <2>6
  <2> QED BY <2>7, <2>8, <2>9, PortsDiffer
<1> QED BY <1>3, <1>5, <1>6

LEMMA OnlyConnectNext ==
  ASSUME OptionsTellApart, StartupInv, OnlyConnectFails, [Next]_vars
  PROVE  OnlyConnectFails'
<1>1. ASSUME UNCHANGED <<program, setupVars>> PROVE OnlyConnectFails'
  BY <1>1 DEF OnlyConnectFails, setupVars
<1>2. CASE Develop
  BY <1>1, <1>2 DEF Develop
<1>3. ASSUME NEW s \in Servers, ServerUp(s) PROVE OnlyConnectFails'
  BY <1>1, <1>3 DEF ServerUp
<1>4. ASSUME NEW i \in Skills, Move(i) \/ Ask(i) \/ Answer(i) PROVE OnlyConnectFails'
  BY <1>1, <1>4 DEF Move, Ask, Answer
<1>5. CASE UNCHANGED vars
  BY <1>1, <1>5 DEF vars, setupVars
<1>6. ASSUME NEW i \in Skills, Launch(i) PROVE OnlyConnectFails'
  <2>1. phase'[i] = "setup" /\ \A j \in Skills : j # i => phase'[j] = phase[j] /\ program'[j] = program[j]
    BY <1>6 DEF Launch, Launched, StartupInv, Shape
  <2>2. next' = next /\ ok' = ok
    BY <1>6 DEF Launch
  <2> QED BY <2>1, <2>2 DEF OnlyConnectFails
<1>7. ASSUME NEW i \in Skills, Step(i) PROVE OnlyConnectFails'
  <2>1. program' = program /\ ok' = ok /\ phase[i] = "setup" /\ next[i] \in DOMAIN program[i].setup
    BY <1>7 DEF Step
  <2>2. \A j \in Skills : j # i => phase'[j] = phase[j] /\ next'[j] = next[j]
    BY <1>7 DEF Step, StartupInv, Shape
  <2>3. phase'[i] = "setup" \/ (next' = next /\ ~Succeeds(i, program[i].setup[next[i]]))
    BY <1>7, <2>1 DEF Step
  <2>4. phase'[i] = "setup" \/ (next'[i] \in DOMAIN program[i].setup /\ program[i].setup[next'[i]].op = "connect")
    BY <2>1, <2>3, FailsAtConnect
  <2> QED BY <2>1, <2>2, <2>4 DEF OnlyConnectFails
<1>8. ASSUME NEW i \in Skills, Return(i) PROVE OnlyConnectFails'
  <2>1. ok'[i] = TRUE /\ \A j \in Skills : j # i => phase'[j] = phase[j] /\ ok'[j] = ok[j]
    BY <1>8 DEF Return, StartupInv, Shape
  <2>2. program' = program /\ next' = next
    BY <1>8 DEF Return
  <2> QED BY <2>1, <2>2 DEF OnlyConnectFails
<1>9. ASSUME NEW i \in Skills, Begin(i) PROVE OnlyConnectFails'
  <2>1. phase[i] = "ended" /\ \A j \in Skills : j # i => phase'[j] = phase[j]
    BY <1>9 DEF Begin, StartupInv, Shape
  <2>2. program' = program /\ next' = next /\ ok' = ok
    BY <1>9 DEF Begin
  <2> QED BY <2>1, <2>2 DEF OnlyConnectFails
<1> QED BY <1>2, <1>3, <1>4, <1>5, <1>6, <1>7, <1>8, <1>9 DEF Next

\* Processes whose clients the options tell apart never refuse each other a port.
THEOREM InstancesDoNotClashHolds ==
  ASSUME OptionsTellApart
  PROVE  Spec => []InstancesDoNotClash
<1>1. Init => OnlyConnectFails
  BY DEF Init, OnlyConnectFails
<1>2. StartupInv /\ OnlyConnectFails /\ [Next]_vars => OnlyConnectFails'
  BY OnlyConnectNext
<1>3. OnlyConnectFails => InstancesDoNotClash
  BY DEF OnlyConnectFails, InstancesDoNotClash
<1> QED BY <1>1, <1>2, <1>3, StartupInvariant, PTL DEF Spec


-----------------------------------------------------------------------------
(* The statechart runs from the moment setup has returned, in a state that *)
(* request_ack finds in its list.                                          *)

AnswersOf(doc) ==
  Among(describe(doc).ListStates, {s \in Range(describe(doc).ListStates) : s.id # "wrapper"})

RunsFrom(i, doc) == program[i].states = States(doc) /\ program[i].answers = AnswersOf(doc)

RunInv ==
  /\ up \subseteq Servers
  /\ DOMAIN state = Skills /\ asked \in [Skills -> BOOLEAN]
  /\ \A i \in Skills :
       /\ \E doc \in Sources(i) : RunsFrom(i, doc)
       /\ IF phase[i] = "running" THEN state[i] \in Range(program[i].states) ELSE state[i] = NoValue
       /\ asked[i] => phase[i] # "down"

LEMMA StatesAre ==
  ASSUME NEW i \in Skills, NEW doc \in Sources(i)
  PROVE  /\ States(doc)[1] \in Range(States(doc))
         /\ \A id \in Range(States(doc)) :
              id # NoValue /\ id # "wrapper" /\ \E s \in Range(doc.states) : s.id = id
<1> DEFINE names == NameInstances(doc.states)
           active == {doc.states[s].id : s \in DOMAIN doc.states} \ {"wrapper"}
<1>1. doc.states \in Seq(StateElement)
  BY SourcesAreDocuments, DocumentsAssumption
<1>2. names \in Seq({x.id : x \in StateElement}) /\ Range(names) = {x.id : x \in Range(doc.states)}
  BY <1>1, NamesAre
<1>3. Range(doc.states) = {doc.states[s] : s \in DOMAIN doc.states}
  BY DEF Range
<1>4. (\E id : id \in active) /\ NoValue \notin active
  BY StatesAssumption
<1>5. active \subseteq Range(names)
  BY <1>2, <1>3
<1>6. "wrapper" \notin active
  OBVIOUS
<1> HIDE DEF names, active
<1>7. Among(names, active) \in Seq({x.id : x \in StateElement})
      /\ Range(Among(names, active)) = Range(names) \cap active
  BY <1>2, AmongKeeps
<1>8. States(doc) = Among(names, active)
  BY DEF States, names, active
<1>9. Range(States(doc)) = active
  BY <1>5, <1>7, <1>8
<1>10. States(doc)[1] \in Range(States(doc))
  <2>1. DOMAIN States(doc) = 1..Len(States(doc)) /\ Len(States(doc)) \in Nat
    BY <1>7, <1>8
  <2>2. DOMAIN States(doc) # {}
    BY <1>4, <1>9 DEF Range
  <2>3. 1 \in DOMAIN States(doc)
    BY <2>1, <2>2
  <2> QED BY <2>3 DEF Range
<1> QED BY <1>2, <1>4, <1>5, <1>6, <1>9, <1>10

LEMMA RunInitInv == Init => RunInv
<1> SUFFICES ASSUME Init PROVE RunInv
  OBVIOUS
<1>1. ASSUME NEW i \in Skills PROVE \E doc \in Sources(i) : RunsFrom(i, doc)
  <2> DEFINE doc == IF i \in Developed THEN chart ELSE ChartOf[i]
  <2>1. doc \in Sources(i)
    BY DEF Init, BuildInit, Sources
  <2>2. program[i] = Written(doc)
    BY <1>1 DEF Init
  <2> HIDE DEF doc
  <2>3. RunsFrom(i, doc)
    BY <2>2 DEF RunsFrom, Written, Program, generate_Skill_cpp, AnswersOf
  <2> QED BY <2>1, <2>3
<1>2. \A i \in Skills : phase[i] = "down" /\ state[i] = NoValue /\ asked[i] = FALSE
  BY DEF Init
<1> QED BY <1>1, <1>2 DEF Init, RunInv

LEMMA RunNextInv == StartupInv /\ BuildInv /\ RunInv /\ [Next]_vars => RunInv'
<1> SUFFICES ASSUME StartupInv, BuildInv, RunInv, [Next]_vars PROVE RunInv'
  OBVIOUS
<1>1. Shape
  BY DEF StartupInv
<1>2. \A i : Sources(i)' = Sources(i)
  BY DEF Sources
<1>3. ASSUME UNCHANGED <<program, phase, state, asked>>, up' \subseteq Servers PROVE RunInv'
  BY <1>2, <1>3 DEF RunInv, RunsFrom
<1>4. CASE Develop
  BY <1>3, <1>4 DEF Develop, setupVars, RunInv
<1>5. ASSUME NEW s \in Servers, ServerUp(s) PROVE RunInv'
  BY <1>3, <1>5 DEF ServerUp, setupVars, RunInv
<1>6. CASE UNCHANGED vars
  BY <1>3, <1>6 DEF vars, RunInv
<1>7. ASSUME NEW i \in Skills, Launch(i) PROVE RunInv'
  <2>1. /\ phase[i] = "down" /\ Built /\ program' = Launched(i)
        /\ phase' = [phase EXCEPT ![i] = "setup"]
        /\ up' = up /\ state' = state /\ asked' = asked
    BY <1>7 DEF Launch
  <2>2. phase'[i] = "setup" /\ \A j \in Skills : j # i => phase'[j] = phase[j] /\ program'[j] = program[j]
    BY <1>1, <2>1 DEF Shape, Launched
  <2>3. \A j \in Skills : j # i => (\E doc \in Sources(j) : RunsFrom(j, doc))'
    BY <1>2, <2>2 DEF RunInv, RunsFrom
  <2>4. (\E doc \in Sources(i) : RunsFrom(i, doc))'
    <3>1. CASE i \in Developed
      <4>1. program'[i] = Program(chart, files["Skill_cpp"], files["DataModel_cpp"])
        BY <1>1, <2>1, <3>1 DEF Shape, Launched
      <4>2. files["Skill_cpp"] = generate_Skill_cpp(skill, ConstructorParameters(skill))
        BY <2>1, OrderIs DEF BuildInv, Built, Wanted
      <4>3. skill = describe(chart) /\ chart \in Sources(i)
        BY <2>1, <3>1 DEF Built, BuildInv, Sources
      <4>4. files["Skill_cpp"].answers = AnswersOf(chart)
        BY <4>2, <4>3 DEF generate_Skill_cpp, AnswersOf
      <4>5. program'[i].states = States(chart) /\ program'[i].answers = AnswersOf(chart)
        BY <4>1, <4>4 DEF Program
      <4>6. \A doc : RunsFrom(i, doc)' <=> program'[i].states = States(doc) /\ program'[i].answers = AnswersOf(doc)
        BY DEF RunsFrom
      <4> QED BY <1>2, <4>3, <4>5, <4>6
    <3>2. CASE i \notin Developed
      BY <1>2, <2>1, <3>2 DEF Launched, RunInv, RunsFrom
    <3> QED BY <3>1, <3>2
  <2> QED BY <2>1, <2>2, <2>3, <2>4 DEF RunInv
<1>8. ASSUME NEW i \in Skills, Step(i) PROVE RunInv'
  <2>1. program' = program /\ up' = up /\ state' = state /\ asked' = asked
    BY <1>8 DEF Step
  <2>2. phase[i] = "setup" /\ phase'[i] \in {"setup", "ended"} /\ \A j \in Skills : j # i => phase'[j] = phase[j]
    BY <1>1, <1>8 DEF Step, Shape
  <2> QED BY <1>2, <2>1, <2>2 DEF RunInv, RunsFrom
<1>9. ASSUME NEW i \in Skills, Return(i) PROVE RunInv'
  <2>1. program' = program /\ up' = up /\ state' = state /\ asked' = asked
    BY <1>9 DEF Return
  <2>2. phase[i] = "setup" /\ phase'[i] = "ended" /\ \A j \in Skills : j # i => phase'[j] = phase[j]
    BY <1>1, <1>9 DEF Return, Shape
  <2> QED BY <1>2, <2>1, <2>2 DEF RunInv, RunsFrom
<1>10. ASSUME NEW i \in Skills, Begin(i) PROVE RunInv'
  <2>1. program' = program /\ up' = up /\ asked' = asked
    BY <1>10 DEF Begin
  <2>2. phase'[i] = "running" /\ \A j \in Skills : j # i => phase'[j] = phase[j]
    BY <1>1, <1>10 DEF Begin, Shape
  <2>3. /\ state'[i] = program[i].states[1] /\ \A j \in Skills : j # i => state'[j] = state[j]
        /\ DOMAIN state' = Skills
    BY <1>10 DEF Begin, RunInv
  <2>4. state'[i] \in Range(program[i].states)
    BY <2>3, StatesAre DEF RunInv, RunsFrom
  <2> QED BY <1>2, <2>1, <2>2, <2>3, <2>4 DEF RunInv, RunsFrom
<1>11. ASSUME NEW i \in Skills, Move(i) PROVE RunInv'
  <2>1. program' = program /\ up' = up /\ asked' = asked /\ phase' = phase /\ phase[i] = "running"
    BY <1>11 DEF Move, setupVars
  <2>2. /\ state'[i] \in Range(program[i].states) /\ \A j \in Skills : j # i => state'[j] = state[j]
        /\ DOMAIN state' = Skills
    BY <1>11 DEF Move, RunInv
  <2> QED BY <1>2, <2>1, <2>2 DEF RunInv, RunsFrom
<1>12. ASSUME NEW i \in Skills, Ask(i) \/ Answer(i) PROVE RunInv'
  <2>1. program' = program /\ up' = up /\ state' = state /\ phase' = phase
    BY <1>12 DEF Ask, Answer, setupVars
  <2>2. /\ asked' \in [Skills -> BOOLEAN] /\ \A j \in Skills : j # i => asked'[j] = asked[j]
        /\ asked'[i] => phase[i] # "down"
    BY <1>12 DEF Ask, Answer, RunInv
  <2> QED BY <1>2, <2>1, <2>2 DEF RunInv, RunsFrom
<1> QED BY <1>4, <1>5, <1>6, <1>7, <1>8, <1>9, <1>10, <1>11, <1>12 DEF Next

LEMMA RunInvariant == Spec => []RunInv
<1>1. Init => RunInv
  BY RunInitInv
<1>2. StartupInv /\ BuildInv /\ RunInv /\ [Next]_vars => RunInv'
  BY RunNextInv
<1> QED BY <1>1, <1>2, BuildInvariant, StartupInvariant, PTL DEF Spec

\* The types of the variables; a statechart has an active state exactly while
\* it runs, and only an open port has a request.
THEOREM TypeCorrect == Spec => []TypeOK
<1>1. StartupInv /\ RunInv => TypeOK
  <2> SUFFICES ASSUME StartupInv, RunInv PROVE TypeOK
    OBVIOUS
  <2>1. ASSUME NEW i \in Skills PROVE next[i] \in 1..Len(program[i].setup) + 1
    BY <2>1, SetupIsAList DEF StartupInv, Progress
  <2>2. ASSUME NEW i \in Skills PROVE \A id \in Range(program[i].states) : id # NoValue
    BY <2>2, StatesAre DEF RunInv, RunsFrom
  <2>3. \A i \in Skills : phase[i] \in {"down", "setup", "ended", "running"}
    BY DEF StartupInv, Shape
  <2> QED BY <2>1, <2>2, <2>3 DEF TypeOK, RunInv
<1> QED BY <1>1, StartupInvariant, RunInvariant, PTL

\* The states of the statechart itself come first among those that are listed.
LEMMA OwnStatesListed ==
  ASSUME NEW doc \in Documents, NEW s \in Range(doc.states)
  PROVE  \E l \in Range(describe(doc).ListStates) : l.id = s.id
<1> DEFINE docs == collectAllDocuments[doc]
           lists == [d \in DOMAIN docs |-> docs[d].states]
           all == FlattenSeq(lists)
<1>1. docs \in Seq(Documents) /\ Len(docs) \in Nat \ {0} /\ DOMAIN docs = 1..Len(docs)
      /\ \A d \in 1..Len(docs) : docs[d] \in Documents
  BY CollectedNotEmpty
<1>2. docs[1] = doc
  BY CollectedFirst
<1>3. describe(doc).ListStates = ListStates(all)
  BY DEF describe
<1> HIDE DEF docs
<1>4. lists \in Seq(Seq(StateElement)) /\ 1 \in DOMAIN lists /\ lists[1] = doc.states
  BY <1>1, <1>2, DocumentsAssumption
<1> HIDE DEF lists
<1>5. all \in Seq(StateElement) /\ Range(all) = UNION {Range(lists[d]) : d \in DOMAIN lists}
  BY <1>4, FlattenKeeps
<1>6. s \in Range(all)
  BY <1>4, <1>5
<1> HIDE DEF all
<1>7. PICK n \in DOMAIN all : all[n] = s
  BY <1>6 DEF Range
<1>8. ListStates(all)[n] \in Range(ListStates(all)) /\ ListStates(all)[n].id = s.id
  BY <1>7 DEF ListStates, ListState, Range
<1> QED BY <1>3, <1>8

AnswerIsThere ==
  \A i \in Skills : phase[i] = "running" => \E a \in DOMAIN program[i].answers : program[i].answers[a].id = state[i]

\* Whatever state the statechart is in, request_ack finds it in the list and so
\* has an answer: what RequestsAnswered needs of every state besides fairness.
THEOREM AnswerIsAlwaysThere == Spec => []AnswerIsThere
<1>1. RunInv => AnswerIsThere
  <2> SUFFICES ASSUME RunInv, NEW i \in Skills, phase[i] = "running"
               PROVE  \E a \in DOMAIN program[i].answers : program[i].answers[a].id = state[i]
    BY DEF AnswerIsThere
  <2>1. PICK doc \in Sources(i) : RunsFrom(i, doc)
    BY DEF RunInv
  <2>2. doc \in Documents
    BY SourcesAreDocuments
  <2>3. state[i] # "wrapper" /\ \E s \in Range(doc.states) : s.id = state[i]
    <3>1. state[i] \in Range(States(doc))
      BY <2>1 DEF RunInv, RunsFrom
    <3> QED BY <3>1, StatesAre
  <2>4. PICK l \in Range(describe(doc).ListStates) : l.id = state[i]
    BY <2>2, <2>3, OwnStatesListed
  <2> DEFINE list == describe(doc).ListStates
             set == {s \in Range(list) : s.id # "wrapper"}
  <2>5. list \in Seq(Range(list))
    BY <2>2, ListIsAList
  <2>6. l \in set
    BY <2>3, <2>4
  <2>7. program[i].answers = Among(list, set)
    BY <2>1 DEF RunsFrom, AnswersOf
  <2> HIDE DEF list, set
  <2>8. l \in Range(program[i].answers)
    BY <2>4, <2>5, <2>6, <2>7, AmongKeeps DEF list
  <2> QED BY <2>4, <2>8 DEF Range
<1> QED BY <1>1, RunInvariant, PTL


=============================================================================
