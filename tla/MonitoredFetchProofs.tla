------------------------ MODULE MonitoredFetchProofs ------------------------
(***************************************************************************)
(* The Fetch skill, the arm and the monitors, for any number of misses of  *)
(* the hand, of lost calls and of ticks, any calls of home and any words   *)
(* for places.                                                             *)
(*                                                                         *)
(* First, what the readers of the protocols make of the words they get:    *)
(* the first words that name a method decide (ReadFinds), and as no name   *)
(* begins with another (Apart), they are those that were meant.            *)
(*                                                                         *)
(* Then the invariant.  The skill has one thing under way: an event, a     *)
(* timer or a call, and the call is on its way to the arm, or back with    *)
(* what the arm has done (ChartFollows, CallFollows).  What the arm has    *)
(* done stays true until the skill calls it again, whatever home does      *)
(* (HandFollows).                                                          *)
(***************************************************************************)
EXTENDS MonitoredFetch, SequenceTheorems, TLAPS

-----------------------------------------------------------------------------
(* The methods, and what the server reads of a request.                    *)

ArmHelper(n) == [name |-> <<n>>, takes |-> FALSE, returns |-> "bool"]

LEMMA Methods ==
  /\ P!ArmServiceCalls = {ArmHelper(n) : n \in ArmMethods}
  /\ NotCalling \notin P!ArmServiceCalls
  /\ P!ArmService_openHand_helper = ArmHelper("openHand")
  /\ P!ArmService_retractHand_helper = ArmHelper("retractHand")
BY DEF P!ArmServiceCalls, P!Method, ArmMethods, NotCalling, ArmHelper,
   P!ArmService_preGrasp_helper, P!ArmService_extractHand_helper, P!ArmService_retractHand_helper,
   P!ArmService_closeHand_helper, P!ArmService_openHand_helper, P!ArmService_hasGrasped_helper,
   P!ArmService_home_helper

LEMMA ReplyIsRead ==
  ASSUME NEW v \in {0, 1}
  PROVE  P!Read("bool", P!Reply("bool", v)) = v
BY DEF P!Read, P!Reply, P!Vocab, P!VOCAB_OK, P!VOCAB_FAIL, P!Number

\* flatten, the function that FlattenSeq defines, is the one that has these values.
Flattens(seqs, f) ==
  f = [i \in 1..Len(seqs) |-> IF i = 1 THEN seqs[i] ELSE f[i - 1] \o seqs[i]]

LEMMA FlattenIsFlattens ==
  ASSUME NEW seqs, Len(seqs) \in Nat \ {0}, NEW g, Flattens(seqs, g)
  PROVE  \E f : Flattens(seqs, f) /\ P!FlattenSeq(seqs) = f[Len(seqs)]
<1> DEFINE f == CHOOSE h : Flattens(seqs, h)
<1>1. Flattens(seqs, f)
  OBVIOUS
<1>2. P!FlattenSeq(seqs) = f[Len(seqs)]
  BY DEF P!FlattenSeq, Flattens
<1> HIDE DEF f
<1> QED BY <1>1, <1>2

LEMMA FlattenOne ==
  ASSUME NEW word
  PROVE  P!FlattenSeq(<<word>>) = word
<1> DEFINE seqs == <<word>>
<1>1. Len(seqs) = 1 /\ seqs[1] = word
  OBVIOUS
<1> HIDE DEF seqs
<1>2. Flattens(seqs, [i \in 1..1 |-> word])
  BY <1>1 DEF Flattens
<1>3. PICK f : Flattens(seqs, f) /\ P!FlattenSeq(seqs) = f[1]
  BY <1>1, <1>2, FlattenIsFlattens
<1>4. f[1] = word
  BY <1>1, <1>3 DEF Flattens
<1> QED BY <1>3, <1>4 DEF seqs

\* The words that name a method are looked for from the first on: the first n
\* that do so decide.
NamedBy(methods, words, first, n) == {m \in methods : m.name = P!FlattenSeq(SubSeq(words, first, n))}

Decide(methods, words, first, n, h) ==
  /\ words # <<>> /\ Len(words) \in Nat
  /\ first \in {1, 2} /\ first = IF words[1] = P!DIRECT THEN 2 ELSE 1
  /\ n \in first..Len(words)
  /\ NamedBy(methods, words, first, n) = {h}
  /\ \A k \in (first + 1)..n : words[k] # P!EmptyWord
  /\ \A k \in first..(n - 1) : NamedBy(methods, words, first, k) = {}

LEMMA ReadFinds ==
  ASSUME NEW methods, NEW words, NEW first, NEW n, NEW h, Decide(methods, words, first, n, h)
  PROVE  LET dest == IF n < Len(words) THEN words[n + 1] ELSE P!EmptyWord
         IN  P!read(methods, words) =
               IF h.takes /\ dest = P!EmptyWord THEN {}
               ELSE {[method |-> h, dest |-> IF h.takes THEN dest ELSE P!EmptyWord]}
<1> DEFINE named(k) == {m \in methods : m.name = P!FlattenSeq(SubSeq(words, first, k))}
           ends == {k \in first..Len(words) :
                      named(k) # {} /\ \A i \in (first + 1)..k : words[i] # P!EmptyWord}
           min == P!Min(ends)
           dest == IF min < Len(words) THEN words[min + 1] ELSE P!EmptyWord
<1>1. P!read(methods, words) =
        IF ends = {} THEN {}
        ELSE {[method |-> m, dest |-> IF m.takes THEN dest ELSE P!EmptyWord] :
                m \in {k \in named(min) : k.takes => dest # P!EmptyWord}}
  BY DEF P!read, Decide
<1>2. \A k : named(k) = NamedBy(methods, words, first, k)
  BY DEF NamedBy
<1>3. /\ n \in first..Len(words) /\ first \in {1, 2} /\ Len(words) \in Nat
      /\ NamedBy(methods, words, first, n) = {h}
      /\ \A k \in (first + 1)..n : words[k] # P!EmptyWord
      /\ \A k \in first..(n - 1) : NamedBy(methods, words, first, k) = {}
  BY DEF Decide
<1> HIDE DEF named
<1>4. n \in ends /\ ends \subseteq first..Len(words)
  BY <1>2, <1>3
<1>5. \A k \in ends : n <= k
  BY <1>2, <1>3
<1> HIDE DEF ends
<1>6. n \in Int /\ \A k \in ends : k \in Int
  BY <1>4, <1>3
<1>7. min = n
  <2>1. \A x \in ends : (\A y \in ends : x <= y) => x = n
    BY <1>4, <1>5, <1>6
  <2>2. \E x \in ends : \A y \in ends : x <= y
    BY <1>4, <1>5
  <2> QED BY <2>1, <2>2 DEF P!Min
<1>8. named(min) = {h} /\ ends # {}
  BY <1>2, <1>4, <1>7, <1>3
<1> HIDE DEF min
<1>9. {k \in named(min) : k.takes => dest # P!EmptyWord} =
        IF h.takes /\ dest = P!EmptyWord THEN {} ELSE {h}
  BY <1>8
<1>10. dest = IF n < Len(words) THEN words[n + 1] ELSE P!EmptyWord
  BY <1>7
<1> HIDE DEF dest
<1>11. P!read(methods, words) =
         IF h.takes /\ dest = P!EmptyWord THEN {}
         ELSE {[method |-> h, dest |-> IF h.takes THEN dest ELSE P!EmptyWord]}
  <2>1. CASE h.takes /\ dest = P!EmptyWord
    BY <1>1, <1>8, <1>9, <2>1
  <2>2. CASE ~(h.takes /\ dest = P!EmptyWord)
    <3>1. P!read(methods, words) =
            {[method |-> m, dest |-> IF m.takes THEN dest ELSE P!EmptyWord] : m \in {h}}
      BY <1>1, <1>8, <1>9, <2>2
    <3> QED BY <2>2, <3>1
  <2> QED BY <2>1, <2>2
<1> QED BY <1>10, <1>11

LEMMA SubSeqOfOne ==
  ASSUME NEW x
  PROVE  SubSeq(<<x>>, 1, 1) = <<x>>
<1>1. <<x>> \in Seq({x}) /\ Len(<<x>>) = 1
  OBVIOUS
<1> QED BY <1>1, SubSeqFull

\* The arm reads the call that has been written, and no other.
LEMMA RequestIsRead ==
  ASSUME NEW n \in ArmMethods
  PROVE  P!read(P!ArmServiceReads, P!Write(ArmHelper(n), P!EmptyWord)) =
           {[method |-> ArmHelper(n), dest |-> P!EmptyWord]}
<1> DEFINE words == <<<<n>>>>
<1>1. P!Write(ArmHelper(n), P!EmptyWord) = words
  <2>1. P!Write(ArmHelper(n), P!EmptyWord) = [i \in {1} |-> <<<<n>>[i]>>] \o <<>>
    BY DEF P!Write, ArmHelper
  <2>2. [i \in {1} |-> <<<<n>>[i]>>] = words
    OBVIOUS
  <2>3. words \in Seq({<<n>>})
    OBVIOUS
  <2> HIDE DEF words
  <2> QED BY <2>1, <2>2, <2>3, ConcatEmptySeq
<1>2. words # <<>> /\ words[1] # P!DIRECT /\ Len(words) = 1
  BY DEF P!DIRECT, ArmMethods
<1>3. P!FlattenSeq(SubSeq(words, 1, 1)) = <<n>>
  BY SubSeqOfOne, FlattenOne
<1>4. NamedBy(P!ArmServiceReads, words, 1, 1) = {ArmHelper(n)}
  BY <1>3 DEF NamedBy, P!ArmServiceReads, P!ArmServiceNames, ArmMethods, P!help, P!Method, ArmHelper
<1>5. ~ArmHelper(n).takes
  BY DEF ArmHelper
<1> HIDE DEF words
<1>6. Decide(P!ArmServiceReads, words, 1, 1, ArmHelper(n))
  BY <1>2, <1>4 DEF Decide
<1> QED BY <1>1, <1>2, <1>5, <1>6, ReadFinds

LEMMA RequestIsUnderstood ==
  ASSUME NEW n \in ArmMethods
  PROVE  Understood[P!Write(ArmHelper(n), P!EmptyWord)] = {[method |-> ArmHelper(n), dest |-> P!EmptyWord]}
<1>1. P!Write(ArmHelper(n), P!EmptyWord) \in {P!Write(helper, P!EmptyWord) : helper \in P!ArmServiceCalls}
  BY Methods
<1> QED BY <1>1, RequestIsRead DEF Understood

-----------------------------------------------------------------------------
(* What is written or typed is read as what it names.                      *)

LEMMA FlattenTwo ==
  ASSUME NEW a, NEW b
  PROVE  P!FlattenSeq(<<a, b>>) = a \o b
<1> DEFINE seqs == <<a, b>>
           joined == [i \in 1..2 |-> IF i = 1 THEN a ELSE a \o b]
<1>1. Len(seqs) = 2 /\ seqs[1] = a /\ seqs[2] = b
  OBVIOUS
<1> HIDE DEF seqs
<1>2. joined = [i \in 1..2 |-> IF i = 1 THEN seqs[i] ELSE joined[i - 1] \o seqs[i]]
  BY <1>1
<1>3. Flattens(seqs, joined)
  BY <1>1, <1>2 DEF Flattens
<1> HIDE DEF joined
<1>4. PICK f : Flattens(seqs, f) /\ P!FlattenSeq(seqs) = f[2]
  <2>1. Len(seqs) \in Nat \ {0}
    BY <1>1
  <2> QED BY <2>1, <1>1, <1>3, FlattenIsFlattens
<1>5. f[1] = a
  BY <1>1, <1>4 DEF Flattens
<1>6. f[2] = f[1] \o b
  BY <1>1, <1>4 DEF Flattens
<1> QED BY <1>4, <1>5, <1>6 DEF seqs

LEMMA Segments ==
  ASSUME NEW S, NEW s \in Seq(S), NEW i \in Nat \ {0}, i <= Len(s)
  PROVE  /\ SubSeq(s, i, i) = <<s[i]>>
         /\ i + 1 <= Len(s) => SubSeq(s, i, i + 1) = <<s[i], s[i + 1]>>
<1>1. Len(s) \in Nat /\ \A k \in 1..Len(s) : s[k] \in S
  BY LenProperties, ElementOfSeq
<1>2. SubSeq(s, i, i) = <<s[i]>>
  <2> DEFINE t == SubSeq(s, i, i)
             u == <<s[i]>>
  <2>1. \A k \in i..i : s[k] \in S
    BY <1>1
  <2>2. t \in Seq(S) /\ Len(t) = 1 /\ t[1] = s[i]
    BY <2>1, SubSeqProperties
  <2>3. u \in Seq(S) /\ Len(u) = 1 /\ u[1] = s[i]
    BY <1>1
  <2> HIDE DEF t, u
  <2>4. \A k \in 1..Len(t) : t[k] = u[k]
    BY <2>2, <2>3
  <2>5. t = u
    BY <2>2, <2>3, <2>4, SeqEqual
  <2> QED BY <2>5 DEF t, u
<1>3. ASSUME i + 1 <= Len(s)
      PROVE  SubSeq(s, i, i + 1) = <<s[i], s[i + 1]>>
  <2> DEFINE t == SubSeq(s, i, i + 1)
             u == <<s[i], s[i + 1]>>
  <2>1. \A k \in i..(i + 1) : s[k] \in S
    BY <1>1, <1>3
  <2>2. /\ t \in Seq(S)
        /\ Len(t) = IF i <= i + 1 THEN (i + 1) - i + 1 ELSE 0
        /\ \A k \in 1..((i + 1) - i + 1) : t[k] = s[i + k - 1]
    BY <2>1, i \in Int, i + 1 \in Int, SubSeqProperties
  <2>3. u \in Seq(S) /\ Len(u) = 2 /\ u[1] = s[i] /\ u[2] = s[i + 1]
    BY <2>1
  <2> HIDE DEF t, u
  <2>4. Len(t) = 2 /\ t[1] = s[i] /\ t[2] = s[i + 1]
    <3>1. (i + 1) - i + 1 = 2 /\ i <= i + 1 /\ i + 1 - 1 = i /\ i + 2 - 1 = i + 1
      BY i \in Int
    <3>2. Len(t) = 2 /\ \A k \in 1..2 : t[k] = s[i + k - 1]
      BY <2>2, <3>1
    <3> QED BY <3>1, <3>2
  <2>5. \A k \in 1..Len(t) : t[k] = u[k]
    BY <2>3, <2>4
  <2>6. t = u
    BY <2>2, <2>3, <2>4, <2>5, SeqEqual
  <2> QED BY <2>6 DEF t, u
<1> QED BY <1>2, <1>3

\* A name of one part and a name of two.
Name1(a) == <<a>>
Name2(a, b) == <<a, b>>

LEMMA Parts ==
  /\ \A a : Len(Name1(a)) = 1 /\ Name1(a)[1] = a
  /\ \A a, b : Len(Name2(a, b)) = 2 /\ Name2(a, b)[1] = a /\ Name2(a, b)[2] = b
BY DEF Name1, Name2

LEMMA NamesDiffer ==
  /\ \A a, b : Name1(a) = Name1(b) => a = b
  /\ \A a, b, c : Name1(a) # Name2(b, c)
  /\ \A a, b, c, d : Name2(a, b) = Name2(c, d) => a = c /\ b = d
BY Parts

\* No two methods have one name, the first part of a name is not a name, and none
\* is "__direct__".
Apart(methods) ==
  \A m \in methods :
    /\ m.name[1] # "__direct__"
    /\ \/ \E a : m.name = Name1(a)
       \/ \E a, b : b # "" /\ m.name = Name2(a, b)
    /\ \A k \in methods : k.name = m.name \/ k.name = Name1(m.name[1]) => k = m

LEMMA ReadersApart ==
  ASSUME NEW p \in P!Protocol
  PROVE  Apart(P!Readers[p])
<1>1. Apart(P!ArmServiceReads)
  <2> DEFINE served(n) == P!Method(Name1(n), FALSE, "bool")
             helps == P!Method(Name1("help"), FALSE, "many")
  <2>1. P!ArmServiceReads = {served(n) : n \in P!ArmServiceNames} \cup {helps}
    BY DEF P!ArmServiceReads, P!help, Name1
  <2>2. /\ \A n : served(n).name = Name1(n) /\ served(n).name[1] = n
        /\ helps.name = Name1("help") /\ helps.name[1] = "help"
    BY Parts DEF P!Method
  <2> HIDE DEF served, helps
  <2>3. \A n \in P!ArmServiceNames : n # "__direct__" /\ n # "help"
    BY DEF P!ArmServiceNames
  <2>4. \A m \in P!ArmServiceReads : m.name[1] # "__direct__" /\ \E a : m.name = Name1(a)
    BY <2>1, <2>2, <2>3
  <2>5. \A m, k \in P!ArmServiceReads : k.name = m.name \/ k.name = Name1(m.name[1]) => k = m
    BY <2>1, <2>2, <2>3, NamesDiffer
  <2> QED BY <2>4, <2>5 DEF Apart
<1>2. Apart(P!BatteryReaderReads)
  <2> DEFINE m1 == P!Method(Name1("level"), FALSE, "double")
             m2 == P!Method(Name2("charging", "status"), FALSE, "ChargingStatus")
             m3 == P!Method(Name1("help"), FALSE, "many")
  <2>1. P!BatteryReaderReads = {m1, m2, m3}
    BY DEF P!BatteryReaderReads, P!help, Name1, Name2
  <2>2. /\ m1.name = Name1("level") /\ m1.name[1] = "level"
        /\ m2.name = Name2("charging", "status") /\ m2.name[1] = "charging"
        /\ m3.name = Name1("help") /\ m3.name[1] = "help"
    BY Parts DEF P!Method
  <2> HIDE DEF m1, m2, m3
  <2>3. \A m \in P!BatteryReaderReads :
          /\ m.name[1] # "__direct__"
          /\ \/ \E a : m.name = Name1(a)
             \/ \E a, b : b # "" /\ m.name = Name2(a, b)
    BY <2>1, <2>2
  <2>4. \A m, k \in P!BatteryReaderReads : k.name = m.name \/ k.name = Name1(m.name[1]) => k = m
    BY <2>1, <2>2, Parts, NamesDiffer
  <2> QED BY <2>3, <2>4 DEF Apart
<1>3. Apart(P!GoToReads)
  <2> DEFINE m1 == P!Method(Name1("goTo"), TRUE, "void")
             m2 == P!Method(Name1("getStatus"), TRUE, "GoToStatus")
             m3 == P!Method(Name1("halt"), TRUE, "void")
             m4 == P!Method(Name1("isAtLocation"), TRUE, "bool")
             m5 == P!Method(Name1("help"), FALSE, "many")
  <2>1. P!GoToReads = {m1, m2, m3, m4, m5}
    BY DEF P!GoToReads, P!help, Name1, Name2
  <2>2. /\ m1.name = Name1("goTo") /\ m1.name[1] = "goTo"
        /\ m2.name = Name1("getStatus") /\ m2.name[1] = "getStatus"
        /\ m3.name = Name1("halt") /\ m3.name[1] = "halt"
        /\ m4.name = Name1("isAtLocation") /\ m4.name[1] = "isAtLocation"
        /\ m5.name = Name1("help") /\ m5.name[1] = "help"
    BY Parts DEF P!Method
  <2> HIDE DEF m1, m2, m3, m4, m5
  <2>3. \A m \in P!GoToReads :
          /\ m.name[1] # "__direct__"
          /\ \/ \E a : m.name = Name1(a)
             \/ \E a, b : b # "" /\ m.name = Name2(a, b)
    BY <2>1, <2>2
  <2>4. \A m, k \in P!GoToReads : k.name = m.name \/ k.name = Name1(m.name[1]) => k = m
    BY <2>1, <2>2, Parts, NamesDiffer
  <2> QED BY <2>3, <2>4 DEF Apart
<1>4. Apart(P!Skill_requestReads)
  <2> DEFINE m1 == P!Method(Name2("request", "ack"), FALSE, "SkillAck")
             m2 == P!Method(Name2("send", "start"), FALSE, "void")
             m3 == P!Method(Name2("send", "stop"), FALSE, "void")
             m4 == P!Method(Name1("help"), FALSE, "many")
  <2>1. P!Skill_requestReads = {m1, m2, m3, m4}
    BY DEF P!Skill_requestReads, P!help, Name1, Name2
  <2>2. /\ m1.name = Name2("request", "ack") /\ m1.name[1] = "request"
        /\ m2.name = Name2("send", "start") /\ m2.name[1] = "send"
        /\ m3.name = Name2("send", "stop") /\ m3.name[1] = "send"
        /\ m4.name = Name1("help") /\ m4.name[1] = "help"
    BY Parts DEF P!Method
  <2> HIDE DEF m1, m2, m3, m4
  <2>3. \A m \in P!Skill_requestReads :
          /\ m.name[1] # "__direct__"
          /\ \/ \E a : m.name = Name1(a)
             \/ \E a, b : b # "" /\ m.name = Name2(a, b)
    BY <2>1, <2>2
  <2>4. \A m, k \in P!Skill_requestReads : k.name = m.name \/ k.name = Name1(m.name[1]) => k = m
    BY <2>1, <2>2, Parts, NamesDiffer
  <2> QED BY <2>3, <2>4 DEF Apart
<1> QED BY <1>1, <1>2, <1>3, <1>4 DEF P!Protocol, P!Readers

\* The words of a name: one for all its parts, or one for each.
Parted(name, words) ==
  \/ words = <<name>>
  \/ \E a, b : Name1(b) # P!EmptyWord /\ name = Name2(a, b) /\ words = <<Name1(a), Name1(b)>>

\* A request of prefix, words and tail.
LEMMA Layout ==
  ASSUME NEW S, NEW prefix \in Seq(S), NEW words \in Seq(S), NEW tail \in Seq(S),
         NEW p \in {0, 1}, NEW w \in {1, 2}, NEW t \in {0, 1},
         Len(prefix) = p, Len(words) = w, Len(tail) = t
  PROVE  LET all == prefix \o words \o tail
         IN  /\ all \in Seq(S) /\ Len(all) = p + w + t
             /\ p = 1 => all[1] = prefix[1]
             /\ all[p + 1] = words[1]
             /\ w = 2 => all[p + 2] = words[2]
             /\ t = 1 => all[p + w + 1] = tail[1]
<1> DEFINE start == prefix \o words
<1>1. /\ start \in Seq(S) /\ Len(start) = p + w
      /\ \A i \in 1..(p + w) : start[i] = IF i <= p THEN prefix[i] ELSE words[i - p]
  BY ConcatProperties
<1> HIDE DEF start
<1> DEFINE all == start \o tail
<1>2. /\ all \in Seq(S) /\ Len(all) = p + w + t
      /\ \A i \in 1..(p + w + t) : all[i] = IF i <= p + w THEN start[i] ELSE tail[i - (p + w)]
  <2>1. start \in Seq(S) /\ Len(start) = p + w
    BY <1>1
  <2> QED BY <2>1, ConcatProperties
<1> HIDE DEF all
<1>3. \A i \in 1..(p + w) : all[i] = IF i <= p THEN prefix[i] ELSE words[i - p]
  BY <1>1, <1>2
<1>4. p = 1 => all[1] = prefix[1]
  BY <1>3
<1>5. all[p + 1] = words[1]
  <2>1. p + 1 \in 1..(p + w) /\ ~(p + 1 <= p) /\ (p + 1) - p = 1
    OBVIOUS
  <2> QED BY <1>3, <2>1
<1>6. w = 2 => all[p + 2] = words[2]
  <2>1. w = 2 => p + 2 \in 1..(p + w) /\ ~(p + 2 <= p) /\ (p + 2) - p = 2
    OBVIOUS
  <2> QED BY <1>3, <2>1
<1>7. t = 1 => all[p + w + 1] = tail[1]
  <2>1. t = 1 => /\ p + w + 1 \in 1..(p + w + t) /\ ~(p + w + 1 <= p + w)
                 /\ (p + w + 1) - (p + w) = 1
    OBVIOUS
  <2> QED BY <1>2, <2>1
<1> QED BY <1>2, <1>4, <1>5, <1>6, <1>7 DEF all, start

LEMMA WordsOfName ==
  ASSUME NEW methods, Apart(methods), NEW h \in methods, NEW words, Parted(h.name, words)
  PROVE  /\ Len(words) \in {1, 2} /\ words[1] # P!DIRECT /\ P!FlattenSeq(words) = h.name
         /\ Len(words) = 1 => words = <<words[1]>>
         /\ Len(words) = 2 => /\ words = <<words[1], words[2]>>
                              /\ words[1] = Name1(h.name[1]) /\ words[2] # P!EmptyWord
                              /\ h.name # Name1(h.name[1])
<1>1. h.name[1] # "__direct__" /\ P!DIRECT = Name1("__direct__")
  BY DEF Apart, P!DIRECT, Name1
<1>2. CASE words = <<h.name>>
  <2>1. Len(words) = 1 /\ words[1] = h.name
    BY <1>2
  <2>2. P!FlattenSeq(words) = h.name
    BY <1>2, FlattenOne
  <2>3. h.name # P!DIRECT
    BY <1>1, Parts
  <2> QED BY <1>2, <2>1, <2>2, <2>3
<1>3. ASSUME NEW a, NEW b, Name1(b) # P!EmptyWord, h.name = Name2(a, b), words = <<Name1(a), Name1(b)>>
      PROVE  /\ Len(words) = 2 /\ words[1] # P!DIRECT /\ P!FlattenSeq(words) = h.name
             /\ words = <<words[1], words[2]>>
             /\ words[1] = Name1(h.name[1]) /\ words[2] # P!EmptyWord
             /\ h.name # Name1(h.name[1])
  <2>1. Len(words) = 2 /\ words[1] = Name1(a) /\ words[2] = Name1(b)
    BY <1>3
  <2>2. P!FlattenSeq(words) = Name1(a) \o Name1(b)
    BY <1>3, FlattenTwo
  <2>3. Name1(a) \o Name1(b) = Name2(a, b)
    <3> DEFINE joined == Name1(a) \o Name1(b)
    <3>1. Name1(a) \in Seq({a, b}) /\ Name1(b) \in Seq({a, b}) /\ Name2(a, b) \in Seq({a, b})
      BY DEF Name1, Name2
    <3>2. /\ joined \in Seq({a, b}) /\ Len(joined) = 2
          /\ \A i \in 1..2 : joined[i] = IF i <= 1 THEN Name1(a)[i] ELSE Name1(b)[i - 1]
      BY <3>1, Parts, ConcatProperties
    <3> HIDE DEF joined
    <3>3. joined[1] = a /\ joined[2] = b
      BY <3>2, Parts
    <3>4. \A i \in 1..Len(joined) : joined[i] = Name2(a, b)[i]
      BY <3>2, <3>3, Parts
    <3>5. joined = Name2(a, b)
      BY <3>1, <3>2, <3>4, Parts, SeqEqual
    <3> QED BY <3>5 DEF joined
  <2>4. h.name[1] = a
    <3>1. Name2(a, b)[1] = a
      BY Parts
    <3> QED BY <1>3, <3>1
  <2>5. Name1(a) # P!DIRECT /\ Name1(b) # P!EmptyWord /\ h.name # Name1(a)
    <3>1. Name2(a, b) # Name1(a) /\ (Name1(a) = Name1("__direct__") => a = "__direct__")
      BY NamesDiffer
    <3> QED BY <1>1, <1>3, <2>4, <3>1
  <2> QED BY <1>3, <2>1, <2>2, <2>3, <2>4, <2>5
<1>4. CASE \E a, b : Name1(b) # P!EmptyWord /\ h.name = Name2(a, b) /\ words = <<Name1(a), Name1(b)>>
  <2> QED BY <1>3, <1>4
<1> QED BY <1>2, <1>4 DEF Parted

\* A request for a method: its name, parted, and a destination where it takes one.
Names(methods, h, words, place, prefix, tail) ==
  /\ Apart(methods) /\ h \in methods
  /\ Parted(h.name, words)
  /\ place # P!EmptyWord
  /\ prefix = <<>> \/ prefix = <<P!DIRECT>>
  /\ tail = <<>> \/ tail = <<place>>
  /\ h.takes => tail = <<place>>

\* However the name of a method is parted, it is read as this method.
LEMMA SpelledIsRead ==
  ASSUME NEW methods, NEW h, NEW words, NEW place, NEW prefix, NEW tail,
         Names(methods, h, words, place, prefix, tail)
  PROVE  P!read(methods, prefix \o words \o tail) =
           {[method |-> h, dest |-> IF h.takes THEN place ELSE P!EmptyWord]}
<1> DEFINE S == {P!DIRECT, place, words[1], words[2]}
           all == prefix \o words \o tail
           p == Len(prefix)
           w == Len(words)
           t == Len(tail)
<1> USE DEF Names
<1>1. /\ w \in {1, 2} /\ words[1] # P!DIRECT /\ P!FlattenSeq(words) = h.name
      /\ w = 1 => words = <<words[1]>>
      /\ w = 2 => /\ words = <<words[1], words[2]>>
                  /\ words[1] = Name1(h.name[1]) /\ words[2] # P!EmptyWord
                  /\ h.name # Name1(h.name[1])
  BY WordsOfName
<1>2. words \in Seq(S)
  <2>1. CASE w = 1
    <3>1. <<words[1]>> \in Seq(S)
      OBVIOUS
    <3> HIDE DEF S
    <3> QED BY <1>1, <2>1, <3>1
  <2>2. CASE w = 2
    <3>1. <<words[1], words[2]>> \in Seq(S)
      OBVIOUS
    <3> HIDE DEF S
    <3> QED BY <1>1, <2>2, <3>1
  <2> QED BY <1>1, <2>1, <2>2
<1>3. prefix \in Seq(S) /\ p \in {0, 1} /\ (p = 1 => prefix[1] = P!DIRECT)
  <2>1. CASE prefix = <<>>
    BY <2>1
  <2>2. CASE prefix = <<P!DIRECT>>
    BY <2>2
  <2> QED BY <2>1, <2>2
<1>4. tail \in Seq(S) /\ t \in {0, 1} /\ (t = 1 => tail[1] = place) /\ (h.takes => t = 1)
  <2>1. CASE tail = <<>>
    BY <2>1
  <2>2. CASE tail = <<place>>
    BY <2>2
  <2> QED BY <2>1, <2>2
<1> HIDE DEF S
<1>5. /\ all \in Seq(S) /\ Len(all) = p + w + t
      /\ p = 1 => all[1] = prefix[1]
      /\ all[p + 1] = words[1]
      /\ w = 2 => all[p + 2] = words[2]
      /\ t = 1 => all[p + w + 1] = tail[1]
  BY <1>1, <1>2, <1>3, <1>4, Layout
<1> HIDE DEF all, p, w, t
<1>6. /\ p + 1 \in {1, 2} /\ p + 1 = IF all[1] = P!DIRECT THEN 2 ELSE 1
      /\ Len(all) \in Nat /\ p + w \in (p + 1)..Len(all) /\ all # <<>>
  <2>1. Len(all) \in Nat /\ Len(all) # 0
    BY <1>1, <1>3, <1>4, <1>5
  <2>2. all # <<>>
    BY <2>1
  <2>3. p + 1 = IF all[1] = P!DIRECT THEN 2 ELSE 1
    BY <1>1, <1>3, <1>5
  <2> QED BY <1>1, <1>3, <1>4, <1>5, <2>1, <2>2, <2>3
<1>7. SubSeq(all, p + 1, p + w) = words /\ SubSeq(all, p + 1, p + 1) = <<words[1]>>
  <2>1. p + 1 \in Nat \ {0} /\ p + 1 <= Len(all) /\ (w = 2 => (p + 1) + 1 <= Len(all))
    BY <1>1, <1>3, <1>4, <1>5
  <2>2. /\ SubSeq(all, p + 1, p + 1) = <<all[p + 1]>>
        /\ w = 2 => SubSeq(all, p + 1, (p + 1) + 1) = <<all[p + 1], all[(p + 1) + 1]>>
    BY <1>5, <2>1, Segments
  <2>3. (p + 1) + 1 = p + 2
    BY <1>3
  <2>4. w = 2 => SubSeq(all, p + 1, p + 2) = words
    BY <1>1, <1>5, <2>2, <2>3
  <2> QED BY <1>1, <1>5, <2>2, <2>4
<1>8. NamedBy(methods, all, p + 1, p + w) = {h}
  <2>1. NamedBy(methods, all, p + 1, p + w) = {m \in methods : m.name = h.name}
    BY <1>1, <1>7 DEF NamedBy
  <2> QED BY <2>1 DEF Apart
<1>9. \A k \in (p + 1)..((p + w) - 1) : NamedBy(methods, all, p + 1, k) = {}
  <2> SUFFICES ASSUME NEW k \in (p + 1)..((p + w) - 1)
               PROVE  NamedBy(methods, all, p + 1, k) = {}
    OBVIOUS
  <2>1. k = p + 1 /\ w = 2
    BY <1>1, <1>3
  <2>2. NamedBy(methods, all, p + 1, k) = {m \in methods : m.name = Name1(h.name[1])}
    BY <1>1, <1>7, <2>1, FlattenOne DEF NamedBy
  <2>3. \A m \in methods : m.name # Name1(h.name[1])
    BY <1>1, <2>1 DEF Apart
  <2> QED BY <2>2, <2>3
<1>10. \A k \in ((p + 1) + 1)..(p + w) : all[k] # P!EmptyWord
  <2>1. \A k \in ((p + 1) + 1)..(p + w) : k = p + 2 /\ w = 2
    BY <1>1, <1>3
  <2> QED BY <1>1, <1>5, <2>1
<1>11. h.takes => p + w < Len(all) /\ all[p + w + 1] = place
  BY <1>1, <1>3, <1>4, <1>5
<1> DEFINE n == p + w
           dest == IF n < Len(all) THEN all[n + 1] ELSE P!EmptyWord
<1>12. P!read(methods, all) = IF h.takes /\ dest = P!EmptyWord THEN {}
                              ELSE {[method |-> h, dest |-> IF h.takes THEN dest ELSE P!EmptyWord]}
  <2>1. Decide(methods, all, p + 1, n, h)
    BY <1>6, <1>8, <1>9, <1>10 DEF Decide
  <2> HIDE DEF n
  <2> QED BY <2>1, ReadFinds
<1>13. h.takes => dest = place
  BY <1>11
<1> HIDE DEF dest
<1> QED BY <1>12, <1>13 DEF all

LEMMA NotEmptyWord ==
  \A b : b # "" => Name1(b) # P!EmptyWord
<1>1. P!EmptyWord = Name1("")
  BY DEF P!EmptyWord, Name1
<1> QED BY <1>1, NamesDiffer, Zenon

\* A stub writes a word for each part of the name.
LEMMA WrittenIsParted ==
  ASSUME NEW methods, Apart(methods), NEW h \in methods
  PROVE  LET words == [i \in DOMAIN h.name |-> <<h.name[i]>>]
         IN  words \in Seq({<<h.name[i]>> : i \in DOMAIN h.name}) /\ Parted(h.name, words)
<1>1. ASSUME NEW name, NEW a, name = Name1(a)
      PROVE  LET words == [i \in DOMAIN name |-> <<name[i]>>]
             IN  words \in Seq({<<name[i]>> : i \in DOMAIN name}) /\ Parted(name, words)
  <2> DEFINE words == [i \in DOMAIN name |-> <<name[i]>>]
  <2>1. DOMAIN name = 1..1 /\ name[1] = a
    BY <1>1 DEF Name1
  <2>2. words = <<Name1(a)>> /\ words \in Seq({<<name[i]>> : i \in DOMAIN name})
    BY <2>1 DEF Name1
  <2> QED BY <1>1, <2>2 DEF Parted
<1>2. ASSUME NEW name, NEW a, NEW b, Name1(b) # P!EmptyWord, name = Name2(a, b)
      PROVE  LET words == [i \in DOMAIN name |-> <<name[i]>>]
             IN  words \in Seq({<<name[i]>> : i \in DOMAIN name}) /\ Parted(name, words)
  <2> DEFINE words == [i \in DOMAIN name |-> <<name[i]>>]
  <2>1. DOMAIN name = 1..2 /\ name[1] = a /\ name[2] = b
    BY <1>2 DEF Name2
  <2>2. words = <<Name1(a), Name1(b)>> /\ words \in Seq({<<name[i]>> : i \in DOMAIN name})
    BY <2>1 DEF Name1
  <2> HIDE DEF words
  <2>3. Parted(name, words)
    BY <1>2, <2>2 DEF Parted
  <2> QED BY <2>2, <2>3 DEF words
<1>3. CASE \E a : h.name = Name1(a)
  BY <1>1, <1>3
<1>4. CASE \E a, b : b # "" /\ h.name = Name2(a, b)
  BY <1>2, <1>4, NotEmptyWord, Zenon
<1> QED BY <1>3, <1>4, Zenon DEF Apart

\* An operator may part them in any way.
LEMMA SpellingsAreParted ==
  ASSUME NEW methods, Apart(methods), NEW h \in methods, NEW words \in Spellings(h.name)
  PROVE  Parted(h.name, words)
<1>1. \A s : FlattenSeq(s) = P!FlattenSeq(s)
  BY DEF FlattenSeq, P!FlattenSeq
<1>2. ASSUME NEW name, NEW a, name = Name1(a), NEW w \in Spellings(name)
      PROVE  Parted(name, w)
  <2>1. DOMAIN name = 1..1
    BY <1>2 DEF Name1
  <2>2. PICK n \in 1..1 : w \in [1..n -> UNION {{SubSeq(name, i, j) : j \in i..Len(name)} : i \in 1..1}]
    BY <2>1, <1>2 DEF Spellings
  <2>3. w = <<w[1]>> /\ FlattenSeq(w) = name
    BY <1>2, <2>2 DEF Spellings
  <2>4. w[1] = name
    BY <1>1, <2>3, FlattenOne
  <2> QED BY <2>3, <2>4 DEF Parted
<1>3. ASSUME NEW name, NEW a, NEW b, Name1(b) # P!EmptyWord, name = Name2(a, b), NEW w \in Spellings(name)
      PROVE  Parted(name, w)
  <2> DEFINE pieces == UNION {{SubSeq(name, i, j) : j \in i..Len(name)} : i \in DOMAIN name}
  <2>1. DOMAIN name = 1..2 /\ Len(name) = 2 /\ name[1] = a /\ name[2] = b /\ name \in Seq({a, b})
    BY <1>3 DEF Name2
  <2>2. PICK n \in 1..2 : w \in [1..n -> pieces]
    BY <2>1, <1>3 DEF Spellings
  <2>3. FlattenSeq(w) = name
    BY <1>3 DEF Spellings
  <2>4. \A s \in pieces : s \in Seq({a, b}) /\ Len(s) >= 1
    <3> SUFFICES ASSUME NEW i \in 1..2, NEW j \in i..2
                 PROVE  SubSeq(name, i, j) \in Seq({a, b}) /\ Len(SubSeq(name, i, j)) >= 1
      BY <2>1
    <3>1. i \in Int /\ j \in Int /\ i <= j /\ \A k \in i..j : name[k] \in {a, b}
      BY <2>1
    <3> QED BY <3>1, SubSeqProperties
  <2> HIDE DEF pieces
  <2>5. CASE n = 1
    <3>1. w = <<w[1]>>
      BY <2>2, <2>5
    <3>2. w[1] = name
      BY <1>1, <2>3, <3>1, FlattenOne
    <3> QED BY <3>1, <3>2 DEF Parted
  <2>6. CASE n = 2
    <3>1. w = <<w[1], w[2]>> /\ w[1] \in pieces /\ w[2] \in pieces
      BY <2>2, <2>6
    <3>2. w[1] \o w[2] = name
      BY <1>1, <2>3, <3>1, FlattenTwo
    <3> DEFINE u == w[1]
               v == w[2]
    <3>3. u \in Seq({a, b}) /\ v \in Seq({a, b}) /\ Len(u) \in Nat \ {0} /\ Len(v) \in Nat \ {0}
      <4>1. u \in Seq({a, b}) /\ v \in Seq({a, b}) /\ Len(u) >= 1 /\ Len(v) >= 1
        BY <2>4, <3>1
      <4> QED BY <4>1, LenProperties
    <3> HIDE DEF u, v
    <3>4. /\ Len(name) = Len(u) + Len(v)
          /\ \A i \in 1..(Len(u) + Len(v)) : name[i] = IF i <= Len(u) THEN u[i] ELSE v[i - Len(u)]
      <4>1. name = u \o v
        BY <3>2 DEF u, v
      <4> QED BY <3>3, <4>1, ConcatProperties
    <3>5. Len(u) = 1 /\ Len(v) = 1 /\ u[1] = a /\ v[1] = b
      <4>1. Len(u) = 1 /\ Len(v) = 1
        <5>1. Len(u) + Len(v) = 2
          BY <2>1, <3>4
        <5>2. Len(u) \in Nat \ {0} /\ Len(v) \in Nat \ {0}
          BY <3>3
        <5>3. \A x, y \in Nat \ {0} : x + y = 2 => x = 1 /\ y = 1
          OBVIOUS
        <5> QED BY <5>1, <5>2, <5>3, Zenon
      <4>2. name[1] = u[1] /\ name[2] = v[1]
        BY <3>4, <4>1
      <4> QED BY <2>1, <4>1, <4>2
    <3>6. u = Name1(a) /\ v = Name1(b)
      BY <3>3, <3>5 DEF Name1
    <3> QED BY <1>3, <3>1, <3>6 DEF Parted, u, v
  <2> QED BY <2>5, <2>6
<1>4. CASE \E a : h.name = Name1(a)
  BY <1>2, <1>4
<1>5. CASE \E a, b : b # "" /\ h.name = Name2(a, b)
  BY <1>3, <1>5, NotEmptyWord, Zenon
<1> QED BY <1>4, <1>5, Zenon DEF Apart

\* What the stubs write and help lists is among what is served.
LEMMA ServedMethods ==
  ASSUME NEW p \in P!Protocol
  PROVE  /\ P!Stubs[p] \subseteq P!Readers[p]
         /\ \A name \in P!Listed[p] : \E h \in P!Readers[p] : h.name = name
<1>1. CASE p = "ArmService"
  <2>1. P!Stubs[p] = P!ArmServiceCalls /\ P!Readers[p] = P!ArmServiceReads /\ P!Listed[p] = P!ArmServiceHelp
    BY <1>1 DEF P!Stubs, P!Readers, P!Listed
  <2>2. P!ArmServiceReads = {ArmHelper(n) : n \in ArmMethods} \cup {P!help}
    BY DEF P!ArmServiceReads, P!ArmServiceNames, ArmMethods, P!Method, ArmHelper
  <2>3. P!ArmServiceHelp = {ArmHelper(n).name : n \in ArmMethods} \cup {P!help.name}
    BY DEF P!ArmServiceHelp, P!ArmServiceNames, ArmMethods, P!Method, ArmHelper, P!help
  <2> QED BY <2>1, <2>2, <2>3, Methods
<1>2. CASE p = "BatteryReader"
  BY <1>2 DEF P!Stubs, P!Readers, P!Listed, P!BatteryReaderCalls, P!BatteryReaderReads,
     P!BatteryReaderHelp, P!BatteryReader_level_helper, P!BatteryReader_charging_status_helper,
     P!help, P!Method
<1>3. CASE p = "GoTo"
  BY <1>3 DEF P!Stubs, P!Readers, P!Listed, P!GoToCalls, P!GoToReads, P!GoToHelp,
     P!GoTo_goTo_helper, P!GoTo_getStatus_helper, P!GoTo_halt_helper, P!GoTo_isAtLocation_helper,
     P!help, P!Method
<1>4. CASE p = "Skill_request"
  BY <1>4 DEF P!Stubs, P!Readers, P!Listed, P!Skill_requestCalls, P!Skill_requestReads,
     P!Skill_requestHelp, P!Skill_request_request_ack_helper, P!Skill_request_send_start_helper,
     P!Skill_request_send_stop_helper, P!help, P!Method
<1> QED BY <1>1, <1>2, <1>3, <1>4 DEF P!Protocol

LEMMA RepliesAreRead ==
  ASSUME NEW returns, NEW v \in P!Values(returns)
  PROVE  P!Read(returns, P!Reply(returns, v)) = v
<1>1. CASE returns = "void"
  BY <1>1 DEF P!Values, P!Read
<1>2. CASE returns = "bool"
  BY <1>2, ReplyIsRead DEF P!Values
<1>3. CASE returns # "void" /\ returns # "bool"
  BY <1>3 DEF P!Read, P!Reply
<1> QED BY <1>1, <1>2, <1>3

\* Nothing that a program or an operator calls is taken for something else: the
\* words of every stub and of every line of help, however an operator parts them,
\* are read as that method, and every value arrives.
THEOREM CallsAreServedHolds == CallsAreServed
<1>1. P!EmptyWord \notin Places
  BY MonitoredFetchAssumption
<1>2. ASSUME NEW p \in P!Protocol, NEW place \in Places, NEW h \in P!Stubs[p]
      PROVE  /\ P!read(P!Readers[p], P!Write(h, place)) =
                  {[method |-> h, dest |-> IF h.takes THEN place ELSE P!EmptyWord]}
             /\ \A v \in P!Values(h.returns) : P!Read(h.returns, P!Reply(h.returns, v)) = v
  <2> DEFINE words == [i \in DOMAIN h.name |-> <<h.name[i]>>]
             tail == IF h.takes THEN <<place>> ELSE <<>>
             S == {<<h.name[i]>> : i \in DOMAIN h.name}
  <2>1. Apart(P!Readers[p]) /\ h \in P!Readers[p]
    BY <1>2, ReadersApart, ServedMethods
  <2>2. words \in Seq(S) /\ Parted(h.name, words)
    BY <2>1, WrittenIsParted
  <2>3. P!Write(h, place) = words \o tail
    BY DEF P!Write
  <2> HIDE DEF words, S
  <2>4. <<>> \o words = words
    BY <2>2, ConcatEmptySeq
  <2>5. (tail = <<>> \/ tail = <<place>>) /\ (h.takes => tail = <<place>>)
    OBVIOUS
  <2> DEFINE prefix == <<>>
  <2>6. prefix = <<>> \/ prefix = <<P!DIRECT>>
    OBVIOUS
  <2>7. place # P!EmptyWord
    BY <1>1
  <2> HIDE DEF tail, prefix
  <2>8. P!read(P!Readers[p], prefix \o words \o tail) =
          {[method |-> h, dest |-> IF h.takes THEN place ELSE P!EmptyWord]}
    <3>1. Names(P!Readers[p], h, words, place, prefix, tail)
      BY <2>1, <2>2, <2>5, <2>6, <2>7 DEF Names
    <3> QED BY <3>1, SpelledIsRead
  <2> QED BY <2>3, <2>4, <2>8, RepliesAreRead DEF prefix
<1>3. ASSUME NEW p \in P!Protocol, NEW place \in Places, NEW name \in P!Listed[p],
             NEW prefix \in {<<>>, <<P!DIRECT>>}, NEW words \in Spellings(name)
      PROVE  \E m \in P!read(P!Readers[p], prefix \o words \o <<place>>) : m.method.name = name
  <2>1. PICK h \in P!Readers[p] : h.name = name
    BY ServedMethods
  <2>2. Apart(P!Readers[p]) /\ Parted(h.name, words)
    BY <2>1, ReadersApart, SpellingsAreParted
  <2> DEFINE tail == <<place>>
  <2>3. tail = <<place>> /\ (prefix = <<>> \/ prefix = <<P!DIRECT>>)
    OBVIOUS
  <2> HIDE DEF tail
  <2>4. place # P!EmptyWord
    BY <1>1
  <2>5. P!read(P!Readers[p], prefix \o words \o tail) =
          {[method |-> h, dest |-> IF h.takes THEN place ELSE P!EmptyWord]}
    <3>1. Names(P!Readers[p], h, words, place, prefix, tail)
      BY <2>2, <2>3, <2>4 DEF Names
    <3> QED BY <3>1, SpelledIsRead
  <2>6. [method |-> h, dest |-> IF h.takes THEN place ELSE P!EmptyWord].method.name = name
    BY <2>1
  <2> QED BY <2>3, <2>5, <2>6
<1> QED BY <1>2, <1>3 DEF CallsAreServed, StubsAreServed, HelpIsServed

-----------------------------------------------------------------------------
(* The invariant.                                                          *)

FetchStates == {"idle", "pregrasp", "extract", "open", "grasp", "retract", "success", "failure"}
Commands == {"CMD_START", "CMD_OK"}

\* The events that the script of a state may raise.
AnswerEvents(s) ==
  CASE s = "pregrasp" -> {"PREGRASP_OK", "PREGRASP_KO"}
    [] s = "extract"  -> {"EXTRACT_OK", "EXTRACT_KO"}
    [] s = "open"     -> {"OPEN_OK", "OPEN_KO"}
    [] s = "grasp"    -> {"GRASP_OK", "GRASP_KO"}
    [] s = "retract"  -> {"RETRACT_OK", "RETRACT_KO"}
    [] OTHER          -> {}

Raised(e) == late[fetch] = e \/ queue[fetch] = <<e>>

\* The chart has one thing under way: a script, a timer or an event.
ChartFollows ==
  /\ ChartTypeOK
  /\ state[fetch] \in FetchStates
  /\ calls[fetch] # <<>> =>
       /\ queue[fetch] = <<>> /\ late[fetch] = NoEvent
       /\ \/ calls[fetch] = OnEntry(state[fetch])
          \/ state[fetch] = "grasp" /\ calls[fetch] = <<"hasGrasped">>
  /\ late[fetch] # NoEvent => queue[fetch] = <<>> /\ late[fetch] \in AnswerEvents(state[fetch])
  /\ \/ queue[fetch] = <<>>
     \/ \E e \in Commands \cup AnswerEvents(state[fetch]) : queue[fetch] = <<e>>

\* What the skill waits for.
Asks(n) == asked = ArmHelper(n)
Has(v) == done = [call |-> asked, value |-> v] /\ reply = {P!Reply("bool", v)}

\* The call that the script makes is on its way to the arm, or back.
CallFollows ==
  /\ asked = NotCalling => request = {} /\ reply = {}
  /\ asked # NotCalling =>
       /\ calls[fetch] # <<>> /\ Asks(Head(calls[fetch]))
       /\ \/ request = {P!Write(asked, P!EmptyWord)} /\ reply = {} /\ done = NotDone
          \/ request = {} /\ \E v \in {0, 1} : Has(v)

\* A call of nobody may have undone it.
Held  == grasped \/ "openHand" \in unasked
Drawn == ~extracted \/ "extractHand" \in unasked

\* What the arm has done for the skill stays true.
HandFollows ==
  /\ ArmTypeOK
  /\ state[fetch] = "retract" \/ Raised("GRASP_OK") => Held
  /\ Asks("hasGrasped") /\ Has(1) => Held
  /\ (Asks("retractHand") /\ reply # {}) \/ Raised("RETRACT_OK") => Drawn
  /\ state[fetch] = "success" => Held /\ Drawn

Bounds == answer \in {0, 1} /\ breaks \in 0..MaxBreaks

FInv == ChartFollows /\ CallFollows /\ HandFollows /\ Bounds

-----------------------------------------------------------------------------
(* The data of the charts.                                                 *)

LEMMA OneFetch == Nodes = {fetch} /\ Fetchers = {fetch} /\ Direct = {} /\ fetch \in Nodes
BY MonitoredFetchAssumption, SkillsAssumption DEF Nodes

LEMMA StatesAndEvents ==
  /\ FetchStates \subseteq ChartStates
  /\ Commands \cup UNION {AnswerEvents(s) : s \in FetchStates} \subseteq ChartEvents
  /\ \A s \in FetchStates : AnswerEvents(s) \cap Commands = {}
BY DEF ChartStates, ChartEvents, ConditionTransitions, FetchTransitions, FetchStates, Commands, AnswerEvents

LEMMA ScriptsAre ==
  \A s \in FetchStates :
    /\ OnEntry(s) \in {<<>>, <<"preGrasp">>, <<"extractHand">>, <<"openHand">>,
                       <<"closeHand", "hasGrasped">>, <<"retractHand">>}
    /\ OnEntry(s) # <<>> => s \in {"pregrasp", "extract", "open", "grasp", "retract"}
BY DEF OnEntry, FetchStates

\* The call at the head of a script, and what is left.
LEMMA ScriptHead ==
  ASSUME ChartFollows, calls[fetch] # <<>>
  PROVE  /\ Head(calls[fetch]) \in ArmMethods \ {"home"}
         /\ Head(calls[fetch]) = "openHand" => state[fetch] = "open"
         /\ Head(calls[fetch]) = "extractHand" => state[fetch] = "extract"
         /\ Head(calls[fetch]) = "retractHand" <=> state[fetch] = "retract"
         /\ Head(calls[fetch]) = "hasGrasped" => state[fetch] = "grasp"
         /\ \/ Tail(calls[fetch]) = <<>> /\ Len(calls[fetch]) = 1
                /\ (state[fetch] = "grasp" => Head(calls[fetch]) = "hasGrasped")
            \/ /\ Tail(calls[fetch]) = <<"hasGrasped">> /\ Len(calls[fetch]) = 2
               /\ state[fetch] = "grasp"
<1>1. /\ state[fetch] \in FetchStates
      /\ calls[fetch] = OnEntry(state[fetch]) \/ (state[fetch] = "grasp" /\ calls[fetch] = <<"hasGrasped">>)
  BY DEF ChartFollows
<1>2. \/ state[fetch] = "pregrasp" /\ calls[fetch] = <<"preGrasp">>
      \/ state[fetch] = "extract" /\ calls[fetch] = <<"extractHand">>
      \/ state[fetch] = "open" /\ calls[fetch] = <<"openHand">>
      \/ state[fetch] = "grasp" /\ calls[fetch] = <<"closeHand", "hasGrasped">>
      \/ state[fetch] = "grasp" /\ calls[fetch] = <<"hasGrasped">>
      \/ state[fetch] = "retract" /\ calls[fetch] = <<"retractHand">>
  BY <1>1 DEF OnEntry, FetchStates
<1>3. \A n : Head(<<n>>) = n /\ Tail(<<n>>) = <<>> /\ Len(<<n>>) = 1
  OBVIOUS
<1>4. Head(<<"closeHand", "hasGrasped">>) = "closeHand" /\ Len(<<"closeHand", "hasGrasped">>) = 2
      /\ Tail(<<"closeHand", "hasGrasped">>) = <<"hasGrasped">>
  OBVIOUS
<1> QED BY <1>2, <1>3, <1>4 DEF ArmMethods

-----------------------------------------------------------------------------
(* The chart goes on.                                                      *)

LEMMA ReactStep ==
  ASSUME ChartFollows, React(fetch)
  PROVE  /\ ChartFollows' /\ calls[fetch] = <<>>
         /\ queue'[fetch] = <<>> /\ late'[fetch] = NoEvent
         /\ \/ state'[fetch] = state[fetch]
            \/ \E e : queue[fetch] = <<e>> /\ <<state[fetch], e, state'[fetch]>> \in FetchTransitions
<1>1. /\ calls[fetch] = <<>> /\ queue[fetch] # <<>> /\ late' = late
      /\ queue' = [queue EXCEPT ![fetch] = Tail(@)]
      /\ late[fetch] = NoEvent
  BY DEF React, ChartFollows
<1>2. /\ state \in [Nodes -> ChartStates] /\ queue \in [Nodes -> Seq(ChartEvents)]
      /\ calls \in [Nodes -> {<<>>, <<"hasGrasped">>} \cup {OnEntry(s) : s \in ChartStates}]
      /\ late \in [Nodes -> ChartEvents \cup {NoEvent}]
      /\ state[fetch] \in FetchStates
  BY DEF ChartFollows, ChartTypeOK
<1>3. PICK e : queue[fetch] = <<e>>
  BY <1>1 DEF ChartFollows
<1>4. /\ queue' \in [Nodes -> Seq(ChartEvents)] /\ queue'[fetch] = <<>>
      /\ Head(queue[fetch]) = e
  <2>1. Tail(<<e>>) = <<>> /\ Head(<<e>>) = e /\ <<>> \in Seq(ChartEvents)
    OBVIOUS
  <2> QED BY <1>1, <1>2, <1>3, <2>1, OneFetch
<1>5. CASE state' = state /\ calls' = calls
  BY <1>1, <1>2, <1>4, <1>5 DEF ChartFollows, ChartTypeOK
<1>6. ASSUME NEW t \in FetchTransitions, t[1] = state[fetch], t[2] = e,
             state' = [state EXCEPT ![fetch] = t[3]], calls' = [calls EXCEPT ![fetch] = OnEntry(t[3])]
      PROVE  ChartFollows' /\ <<state[fetch], e, state'[fetch]>> \in FetchTransitions
  <2>1. t[3] \in FetchStates /\ t = <<t[1], t[2], t[3]>>
    BY DEF FetchTransitions, FetchStates
  <2>2. t[3] \in ChartStates
    BY <2>1, StatesAndEvents
  <2>3. state'[fetch] = t[3] /\ calls'[fetch] = OnEntry(t[3])
    BY <1>2, <1>6, OneFetch
  <2>4. ChartTypeOK'
    BY <1>1, <1>2, <1>4, <1>6, <2>2 DEF ChartTypeOK
  <2> QED BY <1>1, <1>4, <1>6, <2>1, <2>3, <2>4 DEF ChartFollows
<1>7. \/ state' = state /\ calls' = calls
      \/ \E t \in FetchTransitions :
           /\ t[1] = state[fetch] /\ t[2] = e
           /\ state' = [state EXCEPT ![fetch] = t[3]] /\ calls' = [calls EXCEPT ![fetch] = OnEntry(t[3])]
  <2>1. Transitions(fetch) = FetchTransitions
    BY OneFetch DEF Transitions
  <2> QED BY <1>4, <2>1 DEF React
<1> QED BY <1>1, <1>3, <1>4, <1>5, <1>6, <1>7

\* An event is submitted to a chart that has none.
LEMMA Submitted ==
  ASSUME queue \in [Nodes -> Seq(ChartEvents)], queue[fetch] = <<>>,
         NEW e \in ChartEvents, Submit(fetch, e)
  PROVE  queue' \in [Nodes -> Seq(ChartEvents)] /\ queue'[fetch] = <<e>>
<1>1. Append(<<>>, e) = <<e>> /\ <<e>> \in Seq(ChartEvents)
  OBVIOUS
<1> QED BY <1>1, OneFetch DEF Submit

LEMMA FireStep ==
  ASSUME ChartFollows, Fire(fetch)
  PROVE  /\ ChartFollows' /\ calls[fetch] = <<>> /\ state' = state
         /\ \A e \in ChartEvents : Raised(e)' => Raised(e)
<1>1. /\ calls[fetch] = <<>> /\ late[fetch] # NoEvent /\ queue[fetch] = <<>>
      /\ late[fetch] \in AnswerEvents(state[fetch]) /\ state[fetch] \in FetchStates
      /\ late' = [late EXCEPT ![fetch] = NoEvent] /\ UNCHANGED <<state, calls>>
      /\ Submit(fetch, late[fetch])
      /\ ChartTypeOK
  BY DEF Fire, ChartFollows
<1>2. late[fetch] \in ChartEvents
  BY <1>1, StatesAndEvents
<1>3. queue' \in [Nodes -> Seq(ChartEvents)] /\ queue'[fetch] = <<late[fetch]>>
  BY <1>1, <1>2, Submitted DEF ChartTypeOK
<1>4. ChartTypeOK' /\ late'[fetch] = NoEvent
  BY <1>1, <1>3, OneFetch DEF ChartTypeOK
<1>5. ChartFollows'
  BY <1>1, <1>3, <1>4 DEF ChartFollows
<1>6. \A e \in ChartEvents : Raised(e)' => Raised(e)
  <2>1. \A e \in ChartEvents : e # NoEvent
    BY NoEventAssumption
  <2>2. \A e : <<late[fetch]>> = <<e>> => late[fetch] = e
    OBVIOUS
  <2> QED BY <1>3, <1>4, <2>1, <2>2 DEF Raised
<1> QED BY <1>1, <1>5, <1>6

LEMMA DriveStep ==
  ASSUME ChartFollows, Quiet, NEW e \in Commands, Submit(fetch, e), UNCHANGED <<state, late, calls>>
  PROVE  /\ ChartFollows' /\ calls[fetch] = <<>>
         /\ \A a \in ChartEvents \ Commands : ~Raised(a)'
<1>1. ChartTypeOK /\ calls[fetch] = <<>> /\ queue[fetch] = <<>> /\ late[fetch] = NoEvent
  BY DEF ChartFollows, Quiet
<1>2. e \in ChartEvents
  BY StatesAndEvents
<1>3. queue' \in [Nodes -> Seq(ChartEvents)] /\ queue'[fetch] = <<e>>
  BY <1>1, <1>2, Submitted DEF ChartTypeOK
<1>4. ChartTypeOK'
  BY <1>1, <1>3 DEF ChartTypeOK
<1>5. ChartFollows'
  BY <1>1, <1>3, <1>4 DEF ChartFollows
<1>6. \A a \in ChartEvents \ Commands : ~Raised(a)'
  <2>1. \A a \in ChartEvents : a # NoEvent
    BY NoEventAssumption
  <2>2. \A a : <<e>> = <<a>> => a = e
    OBVIOUS
  <2> QED BY <1>1, <1>3, <2>1, <2>2 DEF Raised
<1> QED BY <1>1, <1>5, <1>6

\* The script goes on with an answer: to its next call, or to its event.
LEMMA AnswerStep ==
  ASSUME ChartFollows, NEW b \in BOOLEAN, Answered(fetch, b)
  PROVE  /\ ChartFollows' /\ state' = state /\ queue'[fetch] = <<>>
         /\ \/ late'[fetch] = NoEvent
            \/ /\ late'[fetch] = Outcome(state[fetch], b)
               /\ Len(calls[fetch]) = 1
<1>1. /\ ChartTypeOK /\ calls[fetch] # <<>> /\ queue[fetch] = <<>> /\ late[fetch] = NoEvent
      /\ state[fetch] \in FetchStates
      /\ calls' = [calls EXCEPT ![fetch] = Tail(@)] /\ state' = state
  BY DEF ChartFollows, Answered
<1>2. queue' = queue /\ \/ Len(calls[fetch]) > 1 /\ late' = late
                        \/ Len(calls[fetch]) = 1 /\ late' = [late EXCEPT ![fetch] = Outcome(state[fetch], b)]
  BY OneFetch DEF Answered
<1>3. \/ Tail(calls[fetch]) = <<>> /\ Len(calls[fetch]) = 1
      \/ Tail(calls[fetch]) = <<"hasGrasped">> /\ Len(calls[fetch]) = 2 /\ state[fetch] = "grasp"
  BY <1>1, ScriptHead
<1>4. state[fetch] \in {"pregrasp", "extract", "open", "grasp", "retract"}
  BY <1>1, ScriptsAre DEF ChartFollows
<1>5. Outcome(state[fetch], b) \in AnswerEvents(state[fetch])
  BY <1>4 DEF Outcome, AnswerEvents
<1>6. Outcome(state[fetch], b) \in ChartEvents
  BY <1>1, <1>5, StatesAndEvents
<1>7. calls'[fetch] = Tail(calls[fetch])
      /\ calls' \in [Nodes -> {<<>>, <<"hasGrasped">>} \cup {OnEntry(s) : s \in ChartStates}]
  BY <1>1, <1>3, OneFetch DEF ChartTypeOK
<1>8. CASE Len(calls[fetch]) = 1 /\ late' = [late EXCEPT ![fetch] = Outcome(state[fetch], b)]
  <2>1. late'[fetch] = Outcome(state[fetch], b) /\ late' \in [Nodes -> ChartEvents \cup {NoEvent}]
    BY <1>1, <1>6, <1>8, OneFetch DEF ChartTypeOK
  <2>2. calls'[fetch] = <<>> /\ queue' = queue
    BY <1>2, <1>3, <1>7, <1>8
  <2> QED BY <1>1, <1>5, <1>7, <1>8, <2>1, <2>2 DEF ChartFollows, ChartTypeOK
<1>9. CASE Len(calls[fetch]) > 1 /\ late' = late
  <2>1. Tail(calls[fetch]) = <<"hasGrasped">> /\ state[fetch] = "grasp"
    <3>1. ~(1 > 1)
      OBVIOUS
    <3>2. Len(calls[fetch]) # 1
      BY <1>9, <3>1, Zenon
    <3> QED BY <1>3, <3>2
  <2> QED BY <1>1, <1>2, <1>7, <1>9, <2>1 DEF ChartFollows, ChartTypeOK
<1> QED BY <1>2, <1>8, <1>9

-----------------------------------------------------------------------------
(* What the arm does, and what becomes of a call.                          *)

LEMMA CloseActs ==
  ASSUME ArmTypeOK, closeHand
  PROVE  /\ failures' \in 0..FakeArmFailures
         /\ grasped' \in BOOLEAN /\ (grasped => grasped')
         /\ opened' = FALSE /\ extracted' = extracted
<1>1. /\ extracted \in BOOLEAN /\ opened \in BOOLEAN /\ grasped \in BOOLEAN
      /\ failures \in 0..FakeArmFailures /\ FakeArmFailures \in Nat
  BY FakeArmAssumption DEF ArmTypeOK
<1>2. failures' = failures \/ (failures < FakeArmFailures /\ failures' = failures + 1)
  BY DEF closeHand
<1>3. grasped' = (grasped \/ (Closes /\ failures >= FakeArmFailures))
  BY DEF closeHand
<1> QED BY <1>1, <1>2, <1>3 DEF closeHand

LEMMA ArmActs ==
  ASSUME ArmTypeOK, NEW c \in ArmMethods \ {"home"}, NEW b \in BOOLEAN, ArmHandles(c, b)
  PROVE  /\ ArmTypeOK' /\ homing' = homing
         /\ b = (c = "hasGrasped" => grasped)
         /\ c # "openHand" /\ grasped => grasped'
         /\ extracted' = IF c = "extractHand" THEN TRUE
                         ELSE IF c = "retractHand" THEN FALSE ELSE extracted
         /\ opened' = IF c = "openHand" THEN TRUE
                      ELSE IF c = "closeHand" THEN FALSE ELSE opened
<1>1. /\ extracted \in BOOLEAN /\ opened \in BOOLEAN /\ grasped \in BOOLEAN
      /\ failures \in 0..FakeArmFailures /\ homing \in {"no", "retracted", "closed"}
  BY DEF ArmTypeOK
<1>2. FakeArmFailures \in Nat
  BY FakeArmAssumption
<1>3. homing' = homing /\ b = (c = "hasGrasped" => grasped)
  BY DEF ArmHandles
<1>4. CASE c \in {"preGrasp", "hasGrasped"}
  BY <1>1, <1>3, <1>4 DEF ArmHandles, preGrasp, hasGrasped, ArmTypeOK
<1>5. CASE c \in {"extractHand", "retractHand"}
  BY <1>1, <1>3, <1>5 DEF ArmHandles, extractHand, retractHand, ArmTypeOK
<1>6. CASE c = "openHand"
  <2>1. openHand
    BY <1>6 DEF ArmHandles
  <2>2. failures' \in 0..FakeArmFailures
    BY <1>1, <1>2, <2>1 DEF openHand
  <2> QED BY <1>1, <1>3, <1>6, <2>1, <2>2 DEF openHand, ArmTypeOK
<1>7. CASE c = "closeHand"
  <2>1. closeHand
    BY <1>7 DEF ArmHandles
  <2> QED BY <1>1, <1>3, <1>7, <2>1, CloseActs DEF ArmTypeOK
<1> QED BY <1>4, <1>5, <1>6, <1>7 DEF ArmMethods

\* Home draws the arm back and closes the hand, which never lets go.
LEMMA HomeActs ==
  ASSUME ArmTypeOK, Home \/ HomeCloses \/ HomeEnds
  PROVE  ArmTypeOK' /\ (grasped => grasped') /\ (extracted' => extracted)
<1>1. /\ extracted \in BOOLEAN /\ opened \in BOOLEAN /\ grasped \in BOOLEAN
      /\ failures \in 0..FakeArmFailures /\ FakeArmFailures \in Nat
  BY FakeArmAssumption DEF ArmTypeOK
<1>2. CASE Home
  BY <1>1, <1>2 DEF Home, retractHand, ArmTypeOK
<1>3. CASE HomeCloses
  BY <1>1, <1>3, CloseActs DEF HomeCloses, ArmTypeOK
<1>4. CASE HomeEnds
  BY <1>1, <1>4 DEF HomeEnds, ArmTypeOK
<1> QED BY <1>2, <1>3, <1>4

LEMMA OneAsks ==
  /\ \A c, d : ArmHelper(c) = ArmHelper(d) => c = d
  /\ \A c \in ArmMethods : ArmHelper(c) \in P!ArmServiceCalls /\ ArmHelper(c) # NotCalling
<1>1. \A c, d : <<c>> = <<d>> => c = d
  OBVIOUS
<1> QED BY <1>1, Methods DEF ArmHelper

LEMMA SendsWhat ==
  ASSUME ChartFollows, CallFollows, Sends
  PROVE  LET c == Head(calls[fetch])
         IN  /\ c \in ArmMethods \ {"home"}
             /\ asked = NotCalling /\ calls[fetch] # <<>>
             /\ asked' = ArmHelper(c) /\ request' = {P!Write(ArmHelper(c), P!EmptyWord)}
             /\ reply = {} /\ reply' = {} /\ done' = NotDone /\ answer' = 0
             /\ Hear(ArmUpdate(armPort, [method |-> c, dest |-> "", ret |-> FALSE]))
             /\ UNCHANGED <<chartVars, armVars, breaks, lostVars, openFor>>
<1> DEFINE c == Head(calls[fetch])
<1>1. c \in ArmMethods \ {"home"}
  BY ScriptHead DEF Sends
<1>2. PICK helper \in P!ArmServiceCalls :
        helper.name = <<c>> /\ asked' = helper /\ request' = {P!Write(helper, P!EmptyWord)}
  BY DEF Sends
<1>3. helper = ArmHelper(c)
  <2>1. PICK n \in ArmMethods : helper = ArmHelper(n)
    BY Methods
  <2>2. \A d, e : <<d>> = <<e>> => d = e
    OBVIOUS
  <2> QED BY <1>2, <2>1, <2>2 DEF ArmHelper
<1> QED BY <1>1, <1>2, <1>3 DEF Sends, CallFollows, Call

LEMMA ServesWhat ==
  ASSUME ChartFollows, CallFollows, Serves
  PROVE  LET c == Head(calls[fetch])
         IN  /\ c \in ArmMethods \ {"home"} /\ Asks(c) /\ asked # NotCalling
             /\ reply = {} /\ done = NotDone /\ request' = {}
             /\ calls[fetch] # <<>>
             /\ \E b \in BOOLEAN : ArmHandles(c, b) /\ Has(Number(b))'
             /\ openFor' = IF c = "openHand" /\ openFor = -1 THEN 0
                           ELSE IF c = "retractHand" THEN -1 ELSE openFor
             /\ UNCHANGED <<chartVars, monitorVars, asked, answer, breaks, lostVars>>
<1> DEFINE c == Head(calls[fetch])
<1>1. PICK words \in request : \E m \in Understood[words] :
        /\ \E b \in BOOLEAN :
             /\ ArmHandles(m.method.name[1], b)
             /\ done' = [call |-> m.method, value |-> Number(b)]
             /\ reply' = {P!Reply(m.method.returns, Number(b))}
        /\ request' = {}
        /\ openFor' = CASE m.method = P!ArmService_openHand_helper /\ openFor = -1 -> 0
                        [] m.method = P!ArmService_retractHand_helper -> -1
                        [] OTHER -> openFor
        /\ UNCHANGED <<chartVars, monitorVars, asked, answer, breaks, lostVars>>
  BY DEF Serves
<1>2. /\ calls[fetch] # <<>> /\ Asks(c) /\ asked # NotCalling
      /\ reply = {} /\ done = NotDone /\ words = P!Write(asked, P!EmptyWord)
  BY <1>1 DEF CallFollows
<1>3. c \in ArmMethods \ {"home"}
  BY <1>2, ScriptHead
<1>4. Understood[words] = {[method |-> asked, dest |-> P!EmptyWord]}
  BY <1>2, <1>3, RequestIsUnderstood DEF Asks
<1>5. /\ \E b \in BOOLEAN :
           /\ ArmHandles(asked.name[1], b)
           /\ done' = [call |-> asked, value |-> Number(b)]
           /\ reply' = {P!Reply(asked.returns, Number(b))}
      /\ request' = {}
      /\ openFor' = CASE asked = P!ArmService_openHand_helper /\ openFor = -1 -> 0
                      [] asked = P!ArmService_retractHand_helper -> -1
                      [] OTHER -> openFor
      /\ UNCHANGED <<chartVars, monitorVars, asked, answer, breaks, lostVars>>
  BY <1>1, <1>4
<1>6. asked = ArmHelper(c) /\ asked.name[1] = c /\ asked.returns = "bool"
  BY <1>2 DEF Asks, ArmHelper
<1>7. /\ asked = P!ArmService_openHand_helper <=> c = "openHand"
      /\ asked = P!ArmService_retractHand_helper <=> c = "retractHand"
  BY <1>6, OneAsks, Methods
<1>8. openFor' = IF c = "openHand" /\ openFor = -1 THEN 0
                 ELSE IF c = "retractHand" THEN -1 ELSE openFor
  BY <1>5, <1>7
<1>9. \E b \in BOOLEAN : ArmHandles(c, b) /\ Has(Number(b))'
  BY <1>5, <1>6 DEF Has
<1> QED BY <1>2, <1>3, <1>5, <1>8, <1>9

LEMMA ReturnsWhat ==
  ASSUME ChartFollows, CallFollows, Returns
  PROVE  LET c == Head(calls[fetch])
         IN  /\ c \in ArmMethods \ {"home"} /\ Asks(c) /\ asked # NotCalling
             /\ calls[fetch] # <<>> /\ request = {} /\ reply # {}
             /\ \E v \in {0, 1} :
                  /\ Has(v) /\ StubReturns(v)
                  /\ Hear(ArmUpdateReply(armPort, [method |-> c, dest |-> "", ret |-> v = 1]))
             /\ UNCHANGED <<armVars, request, done, breaks, lostVars, openFor>>
<1>1. PICK r \in reply :
        /\ Hear(ArmUpdateReply(armPort, Call(P!Read("bool", r) = 1)))
        /\ StubReturns(P!Read("bool", r))
        /\ UNCHANGED <<armVars, request, done, breaks, lostVars, openFor>>
  BY DEF Returns
<1>2. /\ calls[fetch] # <<>> /\ Asks(Head(calls[fetch])) /\ asked # NotCalling
      /\ request = {} /\ \E v \in {0, 1} : Has(v)
  BY <1>1 DEF CallFollows
<1>3. PICK v \in {0, 1} : Has(v)
  BY <1>2
<1>4. P!Read("bool", r) = v
  BY <1>1, <1>3, ReplyIsRead DEF Has
<1> QED BY <1>1, <1>2, <1>3, <1>4, ScriptHead DEF Call

-----------------------------------------------------------------------------
(* Every step keeps the invariant.                                         *)

LEMMA NotAsking ==
  ASSUME CallFollows, asked = NotCalling \/ calls[fetch] = <<>>
  PROVE  /\ asked = NotCalling /\ request = {} /\ reply = {}
         /\ ~Asks("hasGrasped") /\ ~Asks("retractHand")
BY OneAsks DEF CallFollows, Asks, ArmMethods

LEMMA Outcomes ==
  /\ {"GRASP_OK", "RETRACT_OK"} \subseteq ChartEvents \ Commands
  /\ NoEvent \notin {"GRASP_OK", "RETRACT_OK"}
BY NoEventAssumption DEF ChartEvents, ConditionTransitions, FetchTransitions, Commands

LEMMA ChartStep ==
  ASSUME FInv, React(fetch) \/ Fire(fetch), UNCHANGED <<armVars, callVars, lostVars>>
  PROVE  FInv'
<1>1. /\ ChartFollows /\ CallFollows /\ HandFollows /\ Bounds
      /\ ArmTypeOK /\ ArmTypeOK'
      /\ UNCHANGED <<extracted, grasped, unasked, asked, request, reply, done, answer, breaks>>
  BY DEF FInv, HandFollows, armVars, callVars, lostVars, ArmTypeOK
<1>2. calls[fetch] = <<>> /\ ChartFollows'
  BY <1>1, ReactStep, FireStep
<1>3. /\ asked' = NotCalling /\ request' = {} /\ reply' = {}
      /\ ~Asks("hasGrasped")' /\ ~Asks("retractHand")'
  BY <1>1, <1>2, NotAsking DEF Asks
<1>4. CallFollows' /\ Bounds'
  BY <1>1, <1>3 DEF CallFollows, Bounds
<1>5. CASE Fire(fetch)
  <2>1. /\ state' = state
        /\ Raised("GRASP_OK")' => Raised("GRASP_OK")
        /\ Raised("RETRACT_OK")' => Raised("RETRACT_OK")
    BY <1>1, <1>5, FireStep, Outcomes
  <2> QED BY <1>1, <1>2, <1>3, <1>4, <2>1 DEF FInv, HandFollows, Held, Drawn
<1>6. CASE React(fetch)
  <2>1. /\ queue'[fetch] = <<>> /\ late'[fetch] = NoEvent
        /\ \/ state'[fetch] = state[fetch]
           \/ \E e : queue[fetch] = <<e>> /\ <<state[fetch], e, state'[fetch]>> \in FetchTransitions
    BY <1>1, <1>6, ReactStep
  <2>2. ~Raised("GRASP_OK")' /\ ~Raised("RETRACT_OK")'
    <3>1. <<>> # <<"GRASP_OK">> /\ <<>> # <<"RETRACT_OK">>
      OBVIOUS
    <3> QED BY <2>1, <3>1, Outcomes DEF Raised
  <2>3. state'[fetch] = "retract" => Held
    <3>1. CASE state'[fetch] = state[fetch]
      BY <1>1, <3>1 DEF HandFollows
    <3>2. ASSUME NEW e, queue[fetch] = <<e>>, <<state[fetch], e, state'[fetch]>> \in FetchTransitions,
                 state'[fetch] = "retract"
          PROVE  Held
      <4>1. e = "GRASP_OK"
        BY <3>2 DEF FetchTransitions
      <4> QED BY <1>1, <3>2, <4>1 DEF HandFollows, Raised
    <3> QED BY <2>1, <3>1, <3>2
  <2>4. state'[fetch] = "success" => Held /\ Drawn
    <3>1. CASE state'[fetch] = state[fetch]
      BY <1>1, <3>1 DEF HandFollows, Held, Drawn
    <3>2. ASSUME NEW e, queue[fetch] = <<e>>, <<state[fetch], e, state'[fetch]>> \in FetchTransitions,
                 state'[fetch] = "success"
          PROVE  Held /\ Drawn
      <4>1. e = "RETRACT_OK" /\ state[fetch] = "retract"
        BY <3>2 DEF FetchTransitions
      <4> QED BY <1>1, <3>2, <4>1 DEF HandFollows, Raised
    <3> QED BY <2>1, <3>1, <3>2
  <2> QED BY <1>1, <1>2, <1>3, <1>4, <2>2, <2>3, <2>4 DEF FInv, HandFollows, Held, Drawn
<1> QED BY <1>5, <1>6

LEMMA TreeStep ==
  ASSUME FInv, TreeDrives
  PROVE  FInv'
<1>1. /\ ChartFollows /\ CallFollows /\ HandFollows /\ Bounds
      /\ ArmTypeOK /\ ArmTypeOK' /\ state' = state
      /\ UNCHANGED <<extracted, grasped, asked, request, reply, done, answer, breaks>>
  BY DEF FInv, HandFollows, TreeDrives, armVars, callVars, ArmTypeOK
<1>2. PICK e \in Commands : Submit(fetch, e) /\ Quiet /\ UNCHANGED <<state, late, calls>>
  BY DEF TreeDrives, Commands
<1>3. ChartFollows' /\ calls[fetch] = <<>> /\ ~Raised("GRASP_OK")' /\ ~Raised("RETRACT_OK")'
  BY <1>1, <1>2, DriveStep, Outcomes
<1>4. /\ asked' = NotCalling /\ request' = {} /\ reply' = {}
      /\ ~Asks("hasGrasped")' /\ ~Asks("retractHand")'
  BY <1>1, <1>3, NotAsking DEF Asks
<1>5. CallFollows' /\ Bounds'
  BY <1>1, <1>4 DEF CallFollows, Bounds
<1>6. state[fetch] = "idle" \/ (state[fetch] # "retract" /\ unasked' = unasked)
  BY DEF TreeDrives
<1>7. HandFollows'
  BY <1>1, <1>3, <1>4, <1>6 DEF HandFollows, Held, Drawn
<1> QED BY <1>3, <1>5, <1>7 DEF FInv

LEMMA SendsStep ==
  ASSUME FInv, Sends
  PROVE  FInv'
<1> DEFINE c == Head(calls[fetch])
<1>1. /\ ChartFollows /\ CallFollows /\ HandFollows /\ Bounds /\ ArmTypeOK
  BY DEF FInv, HandFollows
<1>2. /\ c \in ArmMethods \ {"home"} /\ calls[fetch] # <<>>
      /\ asked' = ArmHelper(c) /\ request' = {P!Write(ArmHelper(c), P!EmptyWord)}
      /\ reply' = {} /\ done' = NotDone /\ answer' = 0
      /\ UNCHANGED <<chartVars, armVars, breaks, lostVars>>
  BY <1>1, SendsWhat
<1>3. UNCHANGED <<state, queue, late, calls, extracted, opened, grasped, failures, homing, unasked>>
  BY <1>2 DEF chartVars, armVars, lostVars
<1>4. ChartFollows' /\ ArmTypeOK' /\ Bounds'
  BY <1>1, <1>2, <1>3 DEF ChartFollows, ChartTypeOK, ArmTypeOK, Bounds
<1>5. CallFollows'
  BY <1>2, <1>3, OneAsks DEF CallFollows, Asks
<1>6. ~Has(1)'
  BY <1>2 DEF Has
<1> QED BY <1>1, <1>2, <1>3, <1>4, <1>5, <1>6 DEF FInv, HandFollows, Raised, Held, Drawn

LEMMA ServesStep ==
  ASSUME FInv, Serves
  PROVE  FInv'
<1> DEFINE c == Head(calls[fetch])
<1>1. /\ ChartFollows /\ CallFollows /\ HandFollows /\ Bounds /\ ArmTypeOK
  BY DEF FInv, HandFollows
<1>2. /\ c \in ArmMethods \ {"home"} /\ Asks(c) /\ asked # NotCalling
      /\ request' = {} /\ calls[fetch] # <<>>
      /\ UNCHANGED <<chartVars, asked, answer, breaks, unasked>>
  BY <1>1, ServesWhat DEF lostVars
<1>3. PICK b \in BOOLEAN : ArmHandles(c, b) /\ Has(Number(b))'
  BY <1>1, ServesWhat
<1>4. /\ ArmTypeOK' /\ b = (c = "hasGrasped" => grasped)
      /\ c # "openHand" /\ grasped => grasped'
      /\ extracted' = IF c = "extractHand" THEN TRUE
                      ELSE IF c = "retractHand" THEN FALSE ELSE extracted
  BY <1>1, <1>2, <1>3, ArmActs
<1>5. UNCHANGED <<state, queue, late, calls>>
  BY <1>2 DEF chartVars
<1>6. ChartFollows' /\ Bounds'
  BY <1>1, <1>2, <1>5 DEF ChartFollows, ChartTypeOK, Bounds
<1>7. CallFollows'
  <2>1. Number(b) \in {0, 1}
    BY DEF Number
  <2> QED BY <1>2, <1>3, <1>5, <2>1 DEF CallFollows, Asks
<1>8. ~Raised("GRASP_OK") /\ ~Raised("RETRACT_OK")
  <2>1. queue[fetch] = <<>> /\ late[fetch] = NoEvent
    BY <1>1, <1>2 DEF ChartFollows
  <2>2. <<>> # <<"GRASP_OK">> /\ <<>> # <<"RETRACT_OK">>
    OBVIOUS
  <2> QED BY <2>1, <2>2, Outcomes DEF Raised
<1>9. /\ c = "openHand" => state[fetch] = "open"
      /\ c = "extractHand" => state[fetch] = "extract"
      /\ c = "retractHand" <=> state[fetch] = "retract"
  BY <1>1, <1>2, ScriptHead
<1>10. state[fetch] \in {"retract", "success"} => c # "openHand" /\ c # "extractHand"
  BY <1>9
<1>11. state[fetch] \in {"retract", "success"} => Held' /\ (Drawn => Drawn')
  BY <1>1, <1>2, <1>4, <1>10 DEF HandFollows, Held, Drawn
<1>12. Asks("hasGrasped")' /\ Has(1)' => Held'
  <2>1. Asks("hasGrasped")' => c = "hasGrasped"
    BY <1>2, OneAsks DEF Asks
  <2>2. Has(1)' => b
    <3>1. Has(1)' => Number(b) = 1
      BY <1>3 DEF Has
    <3> QED BY <3>1 DEF Number
  <2> QED BY <1>4, <2>1, <2>2 DEF Held
<1>13. Asks("retractHand")' => Drawn'
  <2>1. Asks("retractHand")' => c = "retractHand"
    BY <1>2, OneAsks DEF Asks
  <2> QED BY <1>4, <2>1 DEF Drawn
<1>14. state'[fetch] = "success" => Held' /\ Drawn'
  BY <1>1, <1>5, <1>11 DEF HandFollows
<1>15. state'[fetch] = "retract" => Held'
  BY <1>5, <1>11
<1>16. ~Raised("GRASP_OK")' /\ ~Raised("RETRACT_OK")'
  BY <1>5, <1>8 DEF Raised
<1> QED BY <1>4, <1>6, <1>7, <1>12, <1>13, <1>14, <1>15, <1>16 DEF FInv, HandFollows

\* A call ends: with the value that the arm has computed, or with none.
LEMMA StubStep ==
  ASSUME FInv, NEW v \in {0, 1}, StubReturns(v), calls[fetch] # <<>>,
         v = 1 => Has(v) /\ Asks(Head(calls[fetch])),
         request' = {}, UNCHANGED <<armVars, unasked>>, breaks' \in 0..MaxBreaks
  PROVE  FInv'
<1>1. /\ ChartFollows /\ CallFollows /\ HandFollows /\ Bounds /\ ArmTypeOK
      /\ Answered(fetch, v = 1) /\ asked' = NotCalling /\ reply' = {} /\ answer' = v
  BY DEF FInv, HandFollows, CallFollows, StubReturns
<1>2. /\ ChartFollows' /\ state' = state /\ queue'[fetch] = <<>>
      /\ \/ late'[fetch] = NoEvent
         \/ late'[fetch] = Outcome(state[fetch], v = 1) /\ Len(calls[fetch]) = 1
  BY <1>1, AnswerStep
<1>3. /\ ArmTypeOK' /\ UNCHANGED <<grasped, extracted, unasked>>
  BY <1>1 DEF armVars, ArmTypeOK
<1>4. CallFollows' /\ Bounds'
  BY <1>1 DEF CallFollows, Bounds
<1>5. ~Asks("hasGrasped")' /\ ~Asks("retractHand")'
  BY <1>1, OneAsks DEF Asks, ArmMethods
<1>6. state[fetch] \in {"pregrasp", "extract", "open", "grasp", "retract"}
  BY <1>1, ScriptsAre DEF ChartFollows
<1>7. \A e : Raised(e)' => e = late'[fetch]
  <2>1. \A e : <<>> # <<e>>
    OBVIOUS
  <2> QED BY <1>2, <2>1 DEF Raised
<1>8. Raised("GRASP_OK")' => Held
  <2>1. SUFFICES ASSUME Raised("GRASP_OK")' PROVE Held
    OBVIOUS
  <2>2. Outcome(state[fetch], v = 1) = "GRASP_OK" /\ Len(calls[fetch]) = 1
    BY <1>2, <1>7, <2>1, Outcomes
  <2>3. state[fetch] = "grasp" /\ v = 1
    BY <1>6, <2>2 DEF Outcome
  <2>4. Head(calls[fetch]) = "hasGrasped"
    <3>1. 1 # 2
      OBVIOUS
    <3> QED BY <1>1, <2>2, <2>3, <3>1, ScriptHead
  <2> QED BY <1>1, <2>3, <2>4 DEF HandFollows
<1>9. Raised("RETRACT_OK")' => Drawn
  <2>1. SUFFICES ASSUME Raised("RETRACT_OK")' PROVE Drawn
    OBVIOUS
  <2>2. Outcome(state[fetch], v = 1) = "RETRACT_OK"
    BY <1>2, <1>7, <2>1, Outcomes
  <2>3. state[fetch] = "retract" /\ v = 1
    BY <1>6, <2>2 DEF Outcome
  <2>4. Head(calls[fetch]) = "retractHand"
    BY <1>1, <2>3, ScriptHead
  <2>5. reply # {}
    BY <2>3 DEF Has
  <2> QED BY <1>1, <2>3, <2>4, <2>5 DEF HandFollows
<1> QED BY <1>1, <1>2, <1>3, <1>4, <1>5, <1>8, <1>9 DEF FInv, HandFollows, Held, Drawn

LEMMA ReturnsStep ==
  ASSUME FInv, Returns
  PROVE  FInv'
<1>1. ChartFollows /\ CallFollows /\ Bounds
  BY DEF FInv
<1>2. /\ calls[fetch] # <<>> /\ Asks(Head(calls[fetch])) /\ request = {}
      /\ UNCHANGED <<armVars, unasked, request, breaks>>
  BY <1>1, ReturnsWhat DEF lostVars
<1>3. PICK v \in {0, 1} : Has(v) /\ StubReturns(v)
  BY <1>1, ReturnsWhat
<1> QED BY <1>1, <1>2, <1>3, StubStep DEF Bounds

LEMMA LostStep ==
  ASSUME FInv, Refused \/ Break
  PROVE  FInv'
<1>1. breaks' \in 0..MaxBreaks
  <2>1. breaks \in 0..MaxBreaks /\ MaxBreaks \in Nat /\ breaks < MaxBreaks /\ breaks' = breaks + 1
    BY MonitoredFetchAssumption DEF FInv, Bounds, Refused, Break
  <2> QED BY <2>1
<1>2. StubReturns(0) /\ 0 # 1 /\ UNCHANGED <<armVars, unasked>>
  BY DEF Refused, Break, lostVars, P!Default
<1>3. calls[fetch] # <<>> /\ request' = {}
  BY DEF FInv, CallFollows, Refused, Break
<1> QED BY <1>1, <1>2, <1>3, StubStep

\* The arm does what nobody waits for.
LEMMA NobodyStep ==
  ASSUME FInv, ServesNobody
  PROVE  FInv'
<1>1. PICK c \in P!ArmServiceCalls :
        /\ \E b \in BOOLEAN : ArmHandles(c.name[1], b)
        /\ unasked' = unasked \cup {c.name[1]}
        /\ UNCHANGED <<chartVars, callVars>>
  BY DEF ServesNobody
<1>2. PICK n \in ArmMethods : c = ArmHelper(n)
  BY Methods
<1>3. c.name[1] = n
  BY <1>2 DEF ArmHelper
<1>4. PICK b \in BOOLEAN : ArmHandles(n, b)
  BY <1>1, <1>3
<1>5. n # "home"
  BY <1>4 DEF ArmHandles
<1>6. /\ ChartFollows /\ CallFollows /\ HandFollows /\ Bounds /\ ArmTypeOK
  BY DEF FInv, HandFollows
<1>7. /\ ArmTypeOK' /\ (n # "openHand" /\ grasped => grasped')
      /\ extracted' = IF n = "extractHand" THEN TRUE
                      ELSE IF n = "retractHand" THEN FALSE ELSE extracted
  BY <1>4, <1>5, <1>6, ArmActs
<1>8. UNCHANGED <<state, queue, late, calls, asked, request, reply, done, answer, breaks>>
  BY <1>1 DEF chartVars, callVars
<1>9. ChartFollows' /\ CallFollows' /\ Bounds'
  BY <1>6, <1>8 DEF ChartFollows, ChartTypeOK, CallFollows, Asks, Has, Bounds
<1>10. unasked' = unasked \cup {n}
  BY <1>1, <1>3
<1>11. (Held => Held') /\ (Drawn => Drawn')
  BY <1>7, <1>10 DEF Held, Drawn
<1>12. HandFollows'
  BY <1>6, <1>7, <1>8, <1>11 DEF HandFollows, Raised, Asks, Has
<1> QED BY <1>9, <1>12 DEF FInv

LEMMA HomeStep ==
  ASSUME FInv, HomeBegins \/ HomeEnding
  PROVE  FInv'
<1>1. /\ ChartFollows /\ CallFollows /\ HandFollows /\ Bounds /\ ArmTypeOK
      /\ Home \/ HomeCloses \/ HomeEnds
      /\ UNCHANGED <<chartVars, callVars, lostVars>>
  BY DEF FInv, HandFollows, HomeBegins, HomeEnding
<1>2. UNCHANGED <<state, queue, late, calls, asked, request, reply, done, answer, breaks, unasked>>
  BY <1>1 DEF chartVars, callVars, lostVars
<1>3. ChartFollows' /\ CallFollows' /\ Bounds'
  BY <1>1, <1>2 DEF ChartFollows, ChartTypeOK, CallFollows, Asks, Has, Bounds
<1>4. ArmTypeOK' /\ (grasped => grasped') /\ (extracted' => extracted)
  BY <1>1, HomeActs
<1>5. HandFollows'
  BY <1>1, <1>2, <1>4 DEF HandFollows, Raised, Asks, Has, Held, Drawn
<1> QED BY <1>3, <1>5 DEF FInv

LEMMA StayStep ==
  ASSUME FInv, UNCHANGED <<chartVars, armVars, callVars, lostVars>>
  PROVE  FInv'
<1>1. /\ UNCHANGED <<state, queue, late, calls, asked, request, reply, done, answer, breaks>>
      /\ UNCHANGED <<extracted, opened, grasped, failures, homing, unasked>>
  BY DEF chartVars, armVars, callVars, lostVars
<1>2. ChartFollows' /\ CallFollows' /\ Bounds'
  BY <1>1 DEF FInv, ChartFollows, ChartTypeOK, CallFollows, Asks, Has, Bounds
<1>3. HandFollows'
  BY <1>1 DEF FInv, HandFollows, ArmTypeOK, Raised, Asks, Has, Held, Drawn
<1> QED BY <1>2, <1>3 DEF FInv

LEMMA NextInv ==
  ASSUME FInv, [Next]_vars
  PROVE  FInv'
<1>1. CASE UNCHANGED vars \/ TreeTick
  BY <1>1, StayStep DEF vars, TreeTick
<1>2. CASE Chart
  BY <1>2, ChartStep DEF Chart
<1>3. CASE HomeBegins \/ HomeEnding
  BY <1>3, HomeStep
<1> QED BY <1>1, <1>2, <1>3, TreeStep, SendsStep, ServesStep, ReturnsStep, LostStep, NobodyStep DEF Next

LEMMA InitInv ==
  ASSUME Init
  PROVE  FInv
<1>1. /\ state = [n \in Nodes |-> "idle"] /\ queue = [n \in Nodes |-> <<>>]
      /\ late = [n \in Nodes |-> NoEvent] /\ calls = [n \in Nodes |-> <<>>]
      /\ ArmInit /\ asked = NotCalling /\ request = {} /\ reply = {}
      /\ done = NotDone /\ answer = 0 /\ breaks = 0
  BY DEF Init, ChartInit
<1>2. state[fetch] = "idle" /\ queue[fetch] = <<>> /\ late[fetch] = NoEvent /\ calls[fetch] = <<>>
  BY <1>1, OneFetch
<1>3. ChartTypeOK
  <2>1. "idle" \in ChartStates /\ <<>> \in Seq(ChartEvents)
    BY StatesAndEvents DEF FetchStates
  <2> QED BY <1>1, <2>1 DEF ChartTypeOK
<1>4. ChartFollows
  BY <1>2, <1>3 DEF ChartFollows, FetchStates
<1>5. CallFollows
  BY <1>1 DEF CallFollows
<1>6. Bounds
  BY <1>1, MonitoredFetchAssumption DEF Bounds
<1>7. HandFollows
  <2>1. ArmTypeOK
    <3>1. 0 \in 0..FakeArmFailures
      BY FakeArmAssumption
    <3> QED BY <1>1, <3>1 DEF ArmInit, ArmTypeOK
  <2>2. ~Raised("GRASP_OK") /\ ~Raised("RETRACT_OK")
    <3>1. <<>> # <<"GRASP_OK">> /\ <<>> # <<"RETRACT_OK">>
      OBVIOUS
    <3> QED BY <1>2, <3>1, Outcomes DEF Raised
  <2>3. ~Asks("hasGrasped") /\ ~Asks("retractHand")
    BY <1>1, OneAsks DEF Asks, ArmMethods
  <2> QED BY <1>2, <2>1, <2>2, <2>3 DEF HandFollows
<1> QED BY <1>4, <1>5, <1>6, <1>7 DEF FInv

LEMMA Invariance == Spec => []FInv
BY InitInv, NextInv, PTL DEF Spec

\* A Fetch that says it has succeeded holds the object in a hand drawn back,
\* whatever calls are lost and wherever home comes in between (the conds of the
\* Fetch skill, the defaults of the stubs), unless the arm has executed for nobody,
\* since the skill was started, the call that undoes it.
THEOREM GraspedOnSuccessHolds == Spec => []GraspedOnSuccess
<1>1. FInv => GraspedOnSuccess
  BY DEF FInv, HandFollows, Held, Drawn, GraspedOnSuccess
<1> QED BY <1>1, Invariance, PTL

-----------------------------------------------------------------------------
(* The refinement of RemoteCall.                                           *)

LEMMA StepMaps ==
  ASSUME FInv, [Next]_vars
  PROVE  [Remote!Next]_<<asked, done, answer, abandoned>>
<1>1. ChartFollows /\ CallFollows
  BY DEF FInv
<1>3. CASE UNCHANGED vars \/ TreeTick \/ TreeDrives \/ Chart \/ HomeBegins \/ HomeEnding
  BY <1>3 DEF vars, callVars, lostVars, TreeTick, TreeDrives, Chart, HomeBegins, HomeEnding
<1>4. CASE Sends
  <2>1. Remote!Ask
    BY <1>1, <1>4, SendsWhat, OneAsks DEF Remote!Ask, lostVars
  <2> QED BY <2>1 DEF Remote!Next
<1>5. CASE Serves
  <2>1. PICK b \in BOOLEAN : Has(Number(b))'
    BY <1>1, <1>5, ServesWhat
  <2>2. /\ asked # NotCalling /\ done = NotDone /\ UNCHANGED <<asked, answer, abandoned>>
        /\ asked = ArmHelper(Head(calls[fetch]))
    BY <1>1, <1>5, ServesWhat DEF Asks, lostVars
  <2>3. P!Values(asked.returns) = {0, 1}
    BY <2>2 DEF ArmHelper, P!Values
  <2>4. done' = [call |-> asked, value |-> Number(b)] /\ Number(b) \in {0, 1}
    BY <2>1, <2>2 DEF Has, Number
  <2>5. Remote!Execute
    BY <2>2, <2>3, <2>4 DEF Remote!Execute
  <2> QED BY <2>5 DEF Remote!Next
<1>6. CASE Returns
  <2>1. PICK v \in {0, 1} : Has(v) /\ StubReturns(v)
    BY <1>1, <1>6, ReturnsWhat
  <2>2. asked # NotCalling /\ done' = done /\ abandoned' = abandoned
    BY <1>1, <1>6, ReturnsWhat DEF lostVars
  <2>3. done # NotDone /\ done.value = v
    <3>1. done = [call |-> asked, value |-> v]
      BY <2>1 DEF Has
    <3>2. NotDone.value \notin {0, 1}
      BY DEF NotDone
    <3> QED BY <3>1, <3>2
  <2>4. Remote!Return
    BY <2>1, <2>2, <2>3 DEF StubReturns, Remote!Return
  <2> QED BY <2>4 DEF Remote!Next
<1>7. CASE Refused
  <2>1. Remote!Refuse
    BY <1>7 DEF Refused, StubReturns, P!Default, lostVars, Remote!Refuse
  <2> QED BY <2>1 DEF Remote!Next
<1>8. CASE Break
  <2>1. asked # NotCalling /\ asked' = NotCalling /\ answer' = 0 /\ done' = done
    BY <1>8 DEF Break, StubReturns, P!Default
  <2>2. CASE abandoned' = abandoned
    BY <2>1, <2>2 DEF Remote!Next, Remote!Return
  <2>3. ASSUME NEW words \in request, NEW m \in Understood[words],
               abandoned' = [abandoned EXCEPT ![m.method] = @ + 1]
        PROVE  Remote!GiveUp
    <3>1. Asks(Head(calls[fetch])) /\ words = P!Write(asked, P!EmptyWord) /\ done = NotDone
      BY <1>1, <2>1, <2>3 DEF CallFollows
    <3>2. Head(calls[fetch]) \in ArmMethods
      BY <1>1, <2>1, ScriptHead DEF CallFollows
    <3>3. m.method = asked
      BY <2>3, <3>1, <3>2, RequestIsUnderstood DEF Asks
    <3> QED BY <2>1, <2>3, <3>1, <3>3 DEF Remote!GiveUp
  <2> QED BY <1>8, <2>2, <2>3 DEF Break, Remote!Next
<1>9. CASE ServesNobody
  <2>1. Remote!ExecuteForNobody
    BY <1>9 DEF ServesNobody, callVars, Remote!ExecuteForNobody
  <2> QED BY <2>1 DEF Remote!Next
<1> QED BY <1>3, <1>4, <1>5, <1>6, <1>7, <1>8, <1>9 DEF Next

\* The stub, the arm's reader and the connection do what RemoteCall promises,
\* whatever is lost: the method that is asked is the one that is executed, once at
\* most, while the skill waits or later when it has been given the default, and the
\* value that comes back is its value or the default (the helpers, write and read
\* of ArmService.cpp).
THEOREM KeepsPromiseHolds == Spec => KeepsPromise
<1>1. Init => Remote!Init
  BY DEF Init, Remote!Init
<1>2. Spec => [][Remote!Next]_<<asked, done, answer, abandoned>>
  BY StepMaps, Invariance, PTL DEF Spec
<1> QED BY <1>1, <1>2, PTL DEF Spec, KeepsPromise, Remote!Spec

-----------------------------------------------------------------------------
(* GraspMonitor after the signals of a message, of which there are at most *)
(* two here.                                                               *)

\* after, the function that Delegated defines, is the one that has these values.
After(c, signals, n, f) ==
  f = [i \in 0..n |-> IF i = 0 THEN c ELSE Delegate(f[i - 1], signals[i])]

LEMMA DelegatedIsAfter ==
  ASSUME NEW c, NEW signals, Len(signals) \in Nat, NEW g, After(c, signals, Len(signals), g)
  PROVE  \E f : After(c, signals, Len(signals), f) /\ Delegated(c, signals) = f[Len(signals)]
<1> DEFINE f == CHOOSE h : After(c, signals, Len(signals), h)
<1>1. After(c, signals, Len(signals), f)
  OBVIOUS
<1>2. Delegated(c, signals) = f[Len(signals)]
  BY DEF Delegated, After
<1> HIDE DEF f
<1> QED BY <1>1, <1>2

LEMMA DelegatedOne ==
  ASSUME NEW c, NEW s
  PROVE  Delegated(c, <<s>>) = Delegate(c, s)
<1>1. Len(<<s>>) = 1 /\ <<s>>[1] = s
  OBVIOUS
<1> DEFINE g == [i \in 0..1 |-> IF i = 0 THEN c ELSE Delegate(c, s)]
<1>2. After(c, <<s>>, 1, g)
  <2>1. \A i \in 0..1 : g[i] = IF i = 0 THEN c ELSE Delegate(g[i - 1], <<s>>[i])
    BY <1>1
  <2>2. g = [i \in 0..1 |-> g[i]]
    OBVIOUS
  <2> HIDE DEF g
  <2> QED BY <2>1, <2>2 DEF After
<1>3. PICK f : After(c, <<s>>, 1, f) /\ Delegated(c, <<s>>) = f[1]
  BY <1>1, <1>2, DelegatedIsAfter
<1>4. f[0] = c /\ f[1] = Delegate(f[0], <<s>>[1])
  BY <1>3 DEF After
<1> QED BY <1>1, <1>3, <1>4

LEMMA DelegatedTwo ==
  ASSUME NEW c, NEW s, NEW t
  PROVE  Delegated(c, <<s, t>>) = Delegate(Delegate(c, s), t)
<1>1. Len(<<s, t>>) = 2 /\ <<s, t>>[1] = s /\ <<s, t>>[2] = t
  OBVIOUS
<1> DEFINE d == Delegate(c, s)
           g == [i \in 0..2 |-> IF i = 0 THEN c ELSE IF i = 1 THEN d ELSE Delegate(d, t)]
<1>2. After(c, <<s, t>>, 2, g)
  <2>1. \A i \in 0..2 : g[i] = IF i = 0 THEN c ELSE Delegate(g[i - 1], <<s, t>>[i])
    <3>1. g[0] = c /\ g[1] = Delegate(g[0], <<s, t>>[1]) /\ g[2] = Delegate(g[1], <<s, t>>[2])
      BY <1>1
    <3>2. \A i \in 0..2 : i \in {0, 1, 2} /\ 1 - 1 = 0 /\ 2 - 1 = 1
      OBVIOUS
    <3> HIDE DEF g
    <3> QED BY <3>1, <3>2
  <2>2. g = [i \in 0..2 |-> g[i]]
    OBVIOUS
  <2> HIDE DEF g
  <2> QED BY <2>1, <2>2 DEF After
<1>3. PICK f : After(c, <<s, t>>, 2, f) /\ Delegated(c, <<s, t>>) = f[2]
  BY <1>1, <1>2, DelegatedIsAfter
<1>4. f[0] = c /\ f[1] = Delegate(f[0], <<s, t>>[1]) /\ f[2] = Delegate(f[1], <<s, t>>[2])
  <2>1. /\ f[0] = IF 0 = 0 THEN c ELSE Delegate(f[0 - 1], <<s, t>>[0])
        /\ f[1] = IF 1 = 0 THEN c ELSE Delegate(f[1 - 1], <<s, t>>[1])
        /\ f[2] = IF 2 = 0 THEN c ELSE Delegate(f[2 - 1], <<s, t>>[2])
    BY <1>3 DEF After
  <2>2. 1 - 1 = 0 /\ 2 - 1 = 1
    OBVIOUS
  <2> QED BY <2>1, <2>2
<1> QED BY <1>1, <1>3, <1>4

Plain(s) == s[1] \notin {"destinationChanged", "destinationReached"}

LEMMA HearsOne ==
  ASSUME NEW m, Hear(m), NEW s, Plain(s), read(reader, m).signals = <<s>>
  PROVE  reader' = read(reader, m).reader /\ grasp' = GraspMonitor(grasp, s)
<1>1. Delegated(charts, read(reader, m).signals) = Delegate(charts, s)
  BY DelegatedOne
<1>2. Delegate(charts, s) = SubmitToAll(charts, s)
  BY DEF Delegate, Plain
<1> QED BY <1>1, <1>2 DEF Hear, charts, SubmitToAll

LEMMA HearsTwo ==
  ASSUME NEW m, Hear(m), NEW s, NEW t, Plain(s), Plain(t), read(reader, m).signals = <<s, t>>
  PROVE  reader' = read(reader, m).reader /\ grasp' = GraspMonitor(GraspMonitor(grasp, s), t)
<1>1. Delegated(charts, read(reader, m).signals) = Delegate(Delegate(charts, s), t)
  BY DelegatedTwo
<1>2. Delegate(charts, s) = SubmitToAll(charts, s)
  BY DEF Delegate, Plain
<1>3. \A c : Delegate(c, t) = SubmitToAll(c, t)
  BY DEF Delegate, Plain
<1>4. SubmitToAll(charts, s).grasp = GraspMonitor(grasp, s)
  BY DEF charts, SubmitToAll
<1>5. \A c : SubmitToAll(c, t).grasp = GraspMonitor(c.grasp, t)
  BY DEF SubmitToAll
<1> QED BY <1>1, <1>2, <1>3, <1>4, <1>5 DEF Hear

LEMMA TickHeard ==
  ASSUME Hear(TickMessage)
  PROVE  reader' = reader /\ grasp' = GraspMonitor(grasp, <<"tick", 0>>)
<1>1. /\ read(reader, TickMessage).reader = reader
      /\ read(reader, TickMessage).signals = <<<<"tick", 0>>>>
  BY DEF read, ReadTick, TickMessage, Emits, Signal
<1>2. Plain(<<"tick", 0>>)
  BY DEF Plain
<1> QED BY <1>1, <1>2, HearsOne

LEMMA SignalsAre ==
  /\ CommandSent["preGrasp"] = "preGraspCommandSent" /\ CommandSent["extractHand"] = "extractHandCommandSent"
  /\ CommandSent["retractHand"] = "retractHandCommandSent" /\ CommandSent["closeHand"] = "closeHandCommandSent"
  /\ CommandSent["openHand"] = "openHandCommandSent" /\ CommandSent["hasGrasped"] = "hasGraspedCommandSent"
  /\ CommandSent["home"] = "homeCommandSent"
  /\ ReplyReceived["preGrasp"] = "preGraspReplyReceived" /\ ReplyReceived["extractHand"] = "extractHandReplyReceived"
  /\ ReplyReceived["retractHand"] = "retractHandReplyReceived" /\ ReplyReceived["closeHand"] = "closeHandReplyReceived"
  /\ ReplyReceived["openHand"] = "openHandReplyReceived" /\ ReplyReceived["hasGrasped"] = "hasGraspedReplyReceived"
  /\ ReplyReceived["home"] = "homeReplyReceived"
BY DEF CommandSent, ReplyReceived

LEMMA PortIs == armPort = [source |-> "/ArmServiceFetchClient", destination |-> "/ArmComponent"]
BY DEF armPort, Create

\* The call is shown before it is written.
LEMMA CommandHeard ==
  ASSUME NEW c \in ArmMethods, Hear(ArmUpdate(armPort, [method |-> c, dest |-> "", ret |-> FALSE]))
  PROVE  reader' = reader /\ grasp' = GraspMonitor(grasp, <<CommandSent[c], 0>>)
<1> DEFINE m == ArmUpdate(armPort, [method |-> c, dest |-> "", ret |-> FALSE])
<1>1. m.type = "command" /\ m.destination = "/ArmComponent" /\ m.command = c
      /\ m.source = "/ArmServiceFetchClient"
  BY PortIs DEF ArmUpdate, Message
<1>2. Hear(m)
  OBVIOUS
<1> HIDE DEF m
<1>3. read(reader, m) = ReadArmCommand(reader, m)
  <2>1. <<m.source, m.destination>> \notin StartedSkills
    BY <1>1 DEF StartedSkills
  <2> QED BY <1>1, <2>1 DEF read
<1> DEFINE s == Signal(CommandSent[c], 0)
<1>4. read(reader, m).reader = reader /\ read(reader, m).signals = <<s>>
  <2>1. ReadArmCommand(reader, m) = Emits(reader, <<s>>)
    BY <1>1 DEF ReadArmCommand
  <2> HIDE DEF s
  <2>2. Emits(reader, <<s>>).reader = reader /\ Emits(reader, <<s>>).signals = <<s>>
    BY DEF Emits
  <2> QED BY <1>3, <2>1, <2>2
<1>5. s = <<CommandSent[c], 0>>
  BY DEF Signal
<1>6. Plain(s)
  <2>1. CommandSent[c] \notin {"destinationChanged", "destinationReached"}
    BY SignalsAre DEF ArmMethods
  <2>2. <<CommandSent[c], 0>>[1] = CommandSent[c]
    OBVIOUS
  <2> HIDE DEF s
  <2> QED BY <1>5, <2>1, <2>2 DEF Plain
<1> HIDE DEF s
<1> QED BY <1>2, <1>4, <1>5, <1>6, HearsOne

Readers == [batteryLevel : {100}, destination : {NO_LOCATION},
            isArmExtracted : BOOLEAN, isHandOpen : BOOLEAN, isGrasping : BOOLEAN]

\* What the reader keeps of a reply.
Learns(new, c, ret) ==
  /\ new \in Readers
  /\ new.isArmExtracted = IF ret /\ c = "extractHand" THEN TRUE
                          ELSE IF ret /\ c = "retractHand" THEN FALSE ELSE reader.isArmExtracted
  /\ new.isHandOpen = IF ret /\ c = "openHand" THEN TRUE
                      ELSE IF ret /\ c = "closeHand" THEN FALSE ELSE reader.isHandOpen

LEMMA OneThenMaybe ==
  ASSUME NEW s, NEW old, NEW new, NEW name
  PROVE  <<s>> \o Changed(old, new, name) \in {<<s>>, <<s, Signal(name, new)>>}
<1>1. <<s>> \o <<>> = <<s>>
  <2>1. <<s>> \in Seq({s})
    OBVIOUS
  <2> QED BY <2>1, ConcatEmptySeq
<1>2. ASSUME NEW t PROVE <<s>> \o <<t>> = <<s, t>>
  <2>1. <<s>> \in Seq({s, t}) /\ <<t>> \in Seq({s, t}) /\ <<s, t>> \in Seq({s, t})
        /\ Len(<<s>>) = 1 /\ Len(<<t>>) = 1 /\ Len(<<s, t>>) = 2
        /\ <<s>>[1] = s /\ <<t>>[1] = t /\ <<s, t>>[1] = s /\ <<s, t>>[2] = t
    OBVIOUS
  <2> DEFINE u == <<s>> \o <<t>>
  <2>2. /\ u \in Seq({s, t}) /\ Len(u) = 1 + 1
        /\ \A i \in 1..1 + 1 : u[i] = IF i <= 1 THEN <<s>>[i] ELSE <<t>>[i - 1]
    BY <2>1, ConcatProperties
  <2> HIDE DEF u
  <2>3. Len(u) = 2 /\ u[1] = s /\ u[2] = t
    <3>1. u[1] = <<s>>[1] /\ u[2] = <<t>>[2 - 1] /\ 2 - 1 = 1
      BY <2>2
    <3> QED BY <2>1, <2>2, <3>1
  <2>4. \A i \in 1..Len(u) : u[i] = <<s, t>>[i]
    <3>1. \A i \in 1..2 : i = 1 \/ i = 2
      OBVIOUS
    <3> QED BY <2>1, <2>3, <3>1
  <2>5. u = <<s, t>>
    BY <2>1, <2>2, <2>3, <2>4, SeqEqual
  <2> QED BY <2>5 DEF u
<1> QED BY <1>1, <1>2 DEF Changed

LEMMA ReadsReply ==
  ASSUME NEW c \in ArmMethods \ {"home"}, NEW ret \in BOOLEAN, reader \in Readers
  PROVE  LET heard == read(reader, ArmUpdateReply(armPort, [method |-> c, dest |-> "", ret |-> ret]))
             told == Signal(ReplyReceived[c], ret)
         IN  /\ Learns(heard.reader, c, ret)
             /\ \/ heard.signals = <<told>>
                \/ \E name \in {"isArmExtractedChanged", "isHandOpenChanged", "isGraspingChanged"} : \E new :
                     heard.signals = <<told, Signal(name, new)>>
<1> DEFINE m == ArmUpdateReply(armPort, [method |-> c, dest |-> "", ret |-> ret])
           told == Signal(ReplyReceived[c], ret)
<1>1. /\ m.type = "reply" /\ m.destination = "/ArmComponent" /\ m.command = c
      /\ m.source = "/ArmServiceFetchClient" /\ m.reply = <<Vocab(ret)>>
  BY PortIs DEF ArmUpdateReply, Message
<1> HIDE DEF m
<1>2. read(reader, m) = ReadArmReply(reader, m)
  BY <1>1 DEF read
<1>3. (First(m.reply) = VOCAB_OK) = ret
  <2>1. First(m.reply) = Vocab(ret)
    BY <1>1 DEF First
  <2> QED BY <2>1 DEF Vocab, VOCAB_OK, VOCAB_FAIL
<1>4. /\ reader.isArmExtracted \in BOOLEAN /\ reader.isHandOpen \in BOOLEAN /\ reader.isGrasping \in BOOLEAN
      /\ DOMAIN reader = {"batteryLevel", "destination", "isArmExtracted", "isHandOpen", "isGrasping"}
  BY DEF Readers
<1> DEFINE says(name, old, new) == <<told>> \o Changed(old, new, name)
           names == {"isArmExtractedChanged", "isHandOpenChanged", "isGraspingChanged"}
           Fine(signals) == signals = <<told>> \/ \E name \in names : \E new : signals = <<told, Signal(name, new)>>
<1>5. \A name \in names : \A old, new : Fine(says(name, old, new))
  BY OneThenMaybe
<1>6. Fine(<<told>>)
  OBVIOUS
<1>7. \/ /\ c = "preGrasp" \/ (c # "hasGrasped" /\ ~ret)
         /\ ReadArmReply(reader, m) = Emits(reader, <<told>>)
      \/ /\ c \in {"extractHand", "retractHand"} /\ ret
         /\ ReadArmReply(reader, m) =
              Emits([reader EXCEPT !.isArmExtracted = (c = "extractHand")],
                    says("isArmExtractedChanged", reader.isArmExtracted, c = "extractHand"))
      \/ /\ c \in {"openHand", "closeHand"} /\ ret
         /\ ReadArmReply(reader, m) =
              Emits([reader EXCEPT !.isHandOpen = (c = "openHand")],
                    says("isHandOpenChanged", reader.isHandOpen, c = "openHand"))
      \/ /\ c = "hasGrasped"
         /\ ReadArmReply(reader, m) =
              Emits([reader EXCEPT !.isGrasping = ret],
                    says("isGraspingChanged", reader.isGrasping, ret))
  <2>1. CASE c = "preGrasp"
    BY <1>1, <1>3, <2>1 DEF ReadArmReply
  <2>2. CASE c = "extractHand"
    BY <1>1, <1>3, <2>2 DEF ReadArmReply
  <2>3. CASE c = "retractHand"
    BY <1>1, <1>3, <2>3 DEF ReadArmReply
  <2>4. CASE c = "openHand"
    BY <1>1, <1>3, <2>4 DEF ReadArmReply
  <2>5. CASE c = "closeHand"
    BY <1>1, <1>3, <2>5 DEF ReadArmReply
  <2>6. CASE c = "hasGrasped"
    BY <1>1, <1>3, <2>6 DEF ReadArmReply
  <2> QED BY <2>1, <2>2, <2>3, <2>4, <2>5, <2>6 DEF ArmMethods
<1> HIDE DEF told, says, names
<1>8. ASSUME NEW new, NEW signals, Learns(new, c, ret), Fine(signals),
             ReadArmReply(reader, m) = Emits(new, signals)
      PROVE  Learns(read(reader, m).reader, c, ret) /\ Fine(read(reader, m).signals)
  <2> HIDE DEF Fine
  <2>1. Emits(new, signals).reader = new /\ Emits(new, signals).signals = signals
    BY DEF Emits
  <2>2. read(reader, m).reader = new /\ read(reader, m).signals = signals
    BY <1>2, <1>8, <2>1
  <2> QED BY <1>8, <2>2
<1>9. ASSUME c = "preGrasp" \/ (c # "hasGrasped" /\ ~ret)
      PROVE  Learns(reader, c, ret)
  BY <1>9 DEF Learns
<1>10. ASSUME c \in {"extractHand", "retractHand"}, ret
       PROVE  Learns([reader EXCEPT !.isArmExtracted = (c = "extractHand")], c, ret)
  BY <1>10 DEF Learns, Readers
<1>11. ASSUME c \in {"openHand", "closeHand"}, ret
       PROVE  Learns([reader EXCEPT !.isHandOpen = (c = "openHand")], c, ret)
  BY <1>11 DEF Learns, Readers
<1>12. ASSUME c = "hasGrasped"
       PROVE  Learns([reader EXCEPT !.isGrasping = ret], c, ret)
  BY <1>12 DEF Learns, Readers
<1>13. /\ Fine(says("isArmExtractedChanged", reader.isArmExtracted, c = "extractHand"))
       /\ Fine(says("isHandOpenChanged", reader.isHandOpen, c = "openHand"))
       /\ Fine(says("isGraspingChanged", reader.isGrasping, ret))
  <2>1. {"isArmExtractedChanged", "isHandOpenChanged", "isGraspingChanged"} \subseteq names
    BY DEF names
  <2> HIDE DEF Fine
  <2> QED BY <1>5, <2>1
<1>14. Learns(read(reader, m).reader, c, ret) /\ Fine(read(reader, m).signals)
  <2> HIDE DEF Fine
  <2>1. CASE (c = "preGrasp" \/ (c # "hasGrasped" /\ ~ret)) /\ ReadArmReply(reader, m) = Emits(reader, <<told>>)
    <3>1. Learns(reader, c, ret)
      BY <2>1, <1>9
    <3> QED BY <1>6, <1>8, <2>1, <3>1
  <2>2. CASE /\ c \in {"extractHand", "retractHand"} /\ ret
             /\ ReadArmReply(reader, m) =
                  Emits([reader EXCEPT !.isArmExtracted = (c = "extractHand")],
                        says("isArmExtractedChanged", reader.isArmExtracted, c = "extractHand"))
    <3>1. Learns([reader EXCEPT !.isArmExtracted = (c = "extractHand")], c, ret)
      BY <2>2, <1>10
    <3> QED BY <1>8, <1>13, <2>2, <3>1
  <2>3. CASE /\ c \in {"openHand", "closeHand"} /\ ret
             /\ ReadArmReply(reader, m) =
                  Emits([reader EXCEPT !.isHandOpen = (c = "openHand")],
                        says("isHandOpenChanged", reader.isHandOpen, c = "openHand"))
    <3>1. Learns([reader EXCEPT !.isHandOpen = (c = "openHand")], c, ret)
      BY <2>3, <1>11
    <3> QED BY <1>8, <1>13, <2>3, <3>1
  <2>4. CASE /\ c = "hasGrasped"
             /\ ReadArmReply(reader, m) =
                  Emits([reader EXCEPT !.isGrasping = ret],
                        says("isGraspingChanged", reader.isGrasping, ret))
    <3>1. Learns([reader EXCEPT !.isGrasping = ret], c, ret)
      BY <2>4, <1>12
    <3> QED BY <1>8, <1>13, <2>4, <3>1
  <2> QED BY <1>7, <2>1, <2>2, <2>3, <2>4
<1> QED BY <1>14 DEF m, told, names

\* The reply is shown before the script goes on.
LEMMA ReplyHeard ==
  ASSUME NEW c \in ArmMethods \ {"home"}, NEW ret \in BOOLEAN, reader \in Readers,
         Hear(ArmUpdateReply(armPort, [method |-> c, dest |-> "", ret |-> ret]))
  PROVE  /\ Learns(reader', c, ret)
         /\ grasp' = GraspMonitor(grasp, <<ReplyReceived[c], ret>>)
<1> DEFINE m == ArmUpdateReply(armPort, [method |-> c, dest |-> "", ret |-> ret])
           told == Signal(ReplyReceived[c], ret)
           names == {"isArmExtractedChanged", "isHandOpenChanged", "isGraspingChanged"}
<1>1. /\ Hear(m) /\ Learns(read(reader, m).reader, c, ret)
      /\ \/ read(reader, m).signals = <<told>>
         \/ \E name \in names : \E new : read(reader, m).signals = <<told, Signal(name, new)>>
  BY ReadsReply
<1> HIDE DEF m
<1>2. told = <<ReplyReceived[c], ret>> /\ Plain(told)
  <2>1. ReplyReceived[c] \notin {"destinationChanged", "destinationReached"}
    BY SignalsAre DEF ArmMethods
  <2> QED BY <2>1 DEF Signal, Plain
<1>3. \A name \in names : \A new :
        Plain(Signal(name, new)) /\ \A g : GraspMonitor(g, Signal(name, new)) = g
  BY DEF Plain, Signal, GraspMonitor
<1> HIDE DEF told, names
<1>4. CASE read(reader, m).signals = <<told>>
  BY <1>1, <1>2, <1>4, HearsOne
<1>5. ASSUME NEW name \in names, NEW new, read(reader, m).signals = <<told, Signal(name, new)>>
      PROVE  reader' = read(reader, m).reader /\ grasp' = GraspMonitor(grasp, told)
  <2> DEFINE more == Signal(name, new)
  <2>1. Plain(more) /\ \A g : GraspMonitor(g, more) = g
    BY <1>3, <1>5
  <2> HIDE DEF more
  <2>2. read(reader, m).signals = <<told, more>>
    BY <1>5 DEF more
  <2>3. Hear(m) /\ Plain(told) /\ Plain(more)
    BY <1>1, <1>2, <2>1
  <2>4. reader' = read(reader, m).reader /\ grasp' = GraspMonitor(GraspMonitor(grasp, told), more)
    BY <2>2, <2>3, HearsTwo, Zenon
  <2> QED BY <2>1, <2>4
<1>6. reader' = read(reader, m).reader /\ grasp' = GraspMonitor(grasp, told)
  BY <1>1, <1>2, <1>4, <1>5, HearsOne
<1> QED BY <1>1, <1>2, <1>6

-----------------------------------------------------------------------------
(* GraspMonitor counts no faster than the ticks come: while it counts, the *)
(* hand has been out for as many ticks as it has counted, and the skill is *)
(* not drawing it back.                                                    *)

Counters == [at : {"idle", "graspingState", "failure"}, tickCounter : 0..GraspTheta]

MonitorFollows ==
  /\ reader \in Readers
  /\ grasp \in Counters
  /\ openFor \in -1..TooLong
  /\ grasp.at = "graspingState" => openFor >= GraspTheta - grasp.tickCounter /\ ~Asks("retractHand")
  /\ Asks("openHand") /\ reply # {} => openFor >= 0

\* Every call that the arm still executes for nobody was lost.
LostFollows ==
  /\ abandoned \in [P!ArmServiceCalls -> Nat]
  /\ \A c \in P!ArmServiceCalls : abandoned[c] <= breaks
  /\ unasked \subseteq ArmCalls

MInv == FInv /\ MonitorFollows /\ LostFollows

LEMMA Thetas == GraspTheta \in Nat /\ TooLong = GraspTheta + 1 /\ TooLong \in Nat
BY MonitorsAssumption DEF TooLong

\* What the chart does with the events that it hears from the arm.
LEMMA CounterSteps ==
  ASSUME NEW g \in Counters
  PROVE  /\ \/ GraspMonitor(g, <<"tick", 0>>) = g /\ g.at # "graspingState"
            \/ /\ g.at = "graspingState" /\ g.tickCounter > 0
               /\ GraspMonitor(g, <<"tick", 0>>) = [g EXCEPT !.tickCounter = @ - 1]
            \/ /\ g.at = "graspingState" /\ g.tickCounter = 0
               /\ GraspMonitor(g, <<"tick", 0>>) = [g EXCEPT !.at = "failure"]
         /\ \A c \in ArmMethods : GraspMonitor(g, <<CommandSent[c], 0>>) =
              IF g.at = "graspingState" /\ c = "retractHand" THEN [g EXCEPT !.at = "idle"] ELSE g
         /\ \A c \in ArmMethods : \A ret \in BOOLEAN :
              GraspMonitor(g, <<ReplyReceived[c], ret>>) =
                IF g.at = "idle" /\ c = "openHand" /\ ret
                THEN [at |-> "graspingState", tickCounter |-> GraspTheta] ELSE g
<1>1. g.tickCounter \in 0..GraspTheta /\ GraspTheta \in Nat
  BY Thetas DEF Counters
<1>2. \/ GraspMonitor(g, <<"tick", 0>>) = g /\ g.at # "graspingState"
      \/ /\ g.at = "graspingState" /\ g.tickCounter > 0
         /\ GraspMonitor(g, <<"tick", 0>>) = [g EXCEPT !.tickCounter = @ - 1]
      \/ /\ g.at = "graspingState" /\ g.tickCounter = 0
         /\ GraspMonitor(g, <<"tick", 0>>) = [g EXCEPT !.at = "failure"]
  BY <1>1 DEF GraspMonitor
<1>3. ASSUME NEW c \in ArmMethods
      PROVE  GraspMonitor(g, <<CommandSent[c], 0>>) =
               IF g.at = "graspingState" /\ c = "retractHand" THEN [g EXCEPT !.at = "idle"] ELSE g
  <2>1. /\ CommandSent[c] \notin {"tick", "openHandReplyReceived"}
        /\ CommandSent[c] = "retractHandCommandSent" <=> c = "retractHand"
    BY SignalsAre DEF ArmMethods
  <2> DEFINE e == <<CommandSent[c], 0>>
  <2>2. e[1] = CommandSent[c]
    OBVIOUS
  <2> HIDE DEF e
  <2>3. GraspMonitor(g, e) = IF g.at = "graspingState" /\ c = "retractHand" THEN [g EXCEPT !.at = "idle"] ELSE g
    BY <2>1, <2>2 DEF GraspMonitor
  <2> QED BY <2>3 DEF e
<1>4. ASSUME NEW c \in ArmMethods, NEW ret \in BOOLEAN
      PROVE  GraspMonitor(g, <<ReplyReceived[c], ret>>) =
               IF g.at = "idle" /\ c = "openHand" /\ ret
               THEN [at |-> "graspingState", tickCounter |-> GraspTheta] ELSE g
  <2>1. /\ ReplyReceived[c] \notin {"tick", "retractHandCommandSent"}
        /\ ReplyReceived[c] = "openHandReplyReceived" <=> c = "openHand"
    BY SignalsAre DEF ArmMethods
  <2> DEFINE e == <<ReplyReceived[c], ret>>
  <2>2. e[1] = ReplyReceived[c] /\ e[2] = ret
    OBVIOUS
  <2> HIDE DEF e
  <2>3. GraspMonitor(g, e) = IF g.at = "idle" /\ c = "openHand" /\ ret
                             THEN [at |-> "graspingState", tickCounter |-> GraspTheta] ELSE g
    BY <2>1, <2>2 DEF GraspMonitor
  <2> QED BY <2>3 DEF e
<1> QED BY <1>2, <1>3, <1>4

\* The ticks: the hand is out one tick longer, and the chart has counted one
\* tick more; the alarm is raised when it has counted them all.
LEMMA TickFollows ==
  ASSUME MInv, TreeTick
  PROVE  /\ MonitorFollows'
         /\ grasp.at # "failure" /\ grasp'.at = "failure" => openFor >= GraspTheta
<1>1. /\ reader \in Readers /\ grasp \in Counters /\ openFor \in -1..TooLong
      /\ GraspTheta \in Nat /\ TooLong = GraspTheta + 1
      /\ grasp.tickCounter \in 0..GraspTheta
  BY Thetas DEF MInv, MonitorFollows, Counters
<1>2. /\ reader' = reader /\ grasp' = GraspMonitor(grasp, <<"tick", 0>>)
      /\ openFor' = IF openFor \in 0..GraspTheta THEN openFor + 1 ELSE openFor
      /\ asked' = asked /\ reply' = reply
  BY TickHeard DEF TreeTick, callVars
<1>3. /\ openFor' \in -1..TooLong /\ openFor' >= openFor
      /\ openFor >= 0 => openFor' >= 0
      /\ \A n \in 0..GraspTheta : openFor >= n => openFor' >= n + 1
  BY <1>1, <1>2
<1>4. Asks("openHand")' /\ reply' # {} => openFor' >= 0
  BY <1>2, <1>3 DEF MInv, MonitorFollows, Asks
<1>5. CASE grasp' = grasp /\ grasp.at # "graspingState"
  BY <1>1, <1>2, <1>3, <1>4, <1>5 DEF MonitorFollows, Asks
<1>6. CASE /\ grasp.at = "graspingState" /\ grasp.tickCounter > 0
           /\ grasp' = [grasp EXCEPT !.tickCounter = @ - 1]
  <2>1. openFor >= GraspTheta - grasp.tickCounter /\ ~Asks("retractHand")
    BY <1>6 DEF MInv, MonitorFollows
  <2>2. grasp' \in Counters /\ grasp'.at = "graspingState" /\ grasp'.tickCounter = grasp.tickCounter - 1
    BY <1>1, <1>6 DEF Counters
  <2>3. openFor' >= GraspTheta - (grasp.tickCounter - 1)
    <3>1. GraspTheta - grasp.tickCounter \in 0..GraspTheta
      BY <1>1
    <3> QED BY <1>1, <1>3, <2>1, <3>1
  <2> QED BY <1>1, <1>2, <1>3, <1>4, <2>1, <2>2, <2>3 DEF MonitorFollows, Asks
<1>7. CASE /\ grasp.at = "graspingState" /\ grasp.tickCounter = 0
           /\ grasp' = [grasp EXCEPT !.at = "failure"]
  <2>1. openFor >= GraspTheta
    BY <1>1, <1>7 DEF MInv, MonitorFollows
  <2>2. grasp' \in Counters /\ grasp'.at = "failure"
    BY <1>1, <1>7 DEF Counters
  <2> QED BY <1>1, <1>2, <1>3, <1>4, <2>1, <2>2 DEF MonitorFollows
<1> QED BY <1>1, <1>2, <1>5, <1>6, <1>7, CounterSteps

\* The call of retractHand is heard before the arm is asked for it.
LEMMA SendsFollows ==
  ASSUME MInv, Sends
  PROVE  MonitorFollows' /\ (grasp'.at = "failure" => grasp.at = "failure")
<1> DEFINE c == Head(calls[fetch])
<1>1. /\ reader \in Readers /\ grasp \in Counters /\ openFor \in -1..TooLong
      /\ ChartFollows /\ CallFollows
  BY DEF MInv, FInv, MonitorFollows
<1>2. /\ c \in ArmMethods /\ asked = NotCalling /\ asked' = ArmHelper(c)
      /\ reply' = {} /\ openFor' = openFor
      /\ Hear(ArmUpdate(armPort, [method |-> c, dest |-> "", ret |-> FALSE]))
  BY <1>1, SendsWhat
<1> HIDE DEF c
<1>3. reader' = reader /\ grasp' = GraspMonitor(grasp, <<CommandSent[c], 0>>)
  BY <1>2, CommandHeard
<1>4. grasp' = IF grasp.at = "graspingState" /\ c = "retractHand" THEN [grasp EXCEPT !.at = "idle"] ELSE grasp
  BY <1>1, <1>2, <1>3, CounterSteps
<1>5. Asks("retractHand")' => c = "retractHand"
  BY <1>2, OneAsks DEF Asks
<1>6. grasp' \in Counters /\ (grasp'.at = "graspingState" => grasp' = grasp /\ c # "retractHand")
  BY <1>1, <1>4 DEF Counters
<1>7. grasp'.at = "failure" => grasp.at = "failure"
  BY <1>1, <1>4 DEF Counters
<1>8. grasp'.at = "graspingState" => openFor' >= GraspTheta - grasp'.tickCounter /\ ~Asks("retractHand")'
  BY <1>2, <1>5, <1>6 DEF MInv, MonitorFollows
<1> QED BY <1>1, <1>2, <1>3, <1>6, <1>7, <1>8 DEF MonitorFollows

LEMMA ServesFollows ==
  ASSUME MInv, Serves
  PROVE  MonitorFollows' /\ grasp' = grasp
<1> DEFINE c == Head(calls[fetch])
<1>1. /\ reader \in Readers /\ grasp \in Counters /\ openFor \in -1..TooLong
      /\ ChartFollows /\ CallFollows
  BY DEF MInv, FInv, MonitorFollows
<1>2. /\ Asks(c) /\ asked' = asked
      /\ openFor' = IF c = "openHand" /\ openFor = -1 THEN 0
                    ELSE IF c = "retractHand" THEN -1 ELSE openFor
      /\ reader' = reader /\ grasp' = grasp
  BY <1>1, ServesWhat DEF monitorVars
<1> HIDE DEF c
<1>3. openFor' \in -1..TooLong /\ (c = "openHand" => openFor' >= 0)
  BY <1>1, <1>2, Thetas
<1>4. /\ Asks("openHand")' => c = "openHand"
      /\ Asks("retractHand")' <=> Asks("retractHand")
      /\ c = "retractHand" => Asks("retractHand")
  BY <1>2, OneAsks DEF Asks
<1>5. grasp.at = "graspingState" => openFor' >= GraspTheta - grasp.tickCounter
  <2>1. SUFFICES ASSUME grasp.at = "graspingState" PROVE openFor' >= GraspTheta - grasp.tickCounter
    OBVIOUS
  <2>2. openFor >= GraspTheta - grasp.tickCounter /\ c # "retractHand"
    BY <1>4, <2>1 DEF MInv, MonitorFollows
  <2>3. grasp.tickCounter \in 0..GraspTheta
    BY <1>1 DEF Counters
  <2> QED BY <1>1, <1>2, <2>2, <2>3, Thetas
<1> QED BY <1>1, <1>2, <1>3, <1>4, <1>5 DEF MInv, MonitorFollows

\* The count starts when the reply says that the hand is open; it has been so
\* since the arm has served the call.
LEMMA ReturnsFollows ==
  ASSUME MInv, Returns
  PROVE  MonitorFollows' /\ (grasp'.at = "failure" => grasp.at = "failure")
<1> DEFINE c == Head(calls[fetch])
<1>1. /\ reader \in Readers /\ grasp \in Counters /\ openFor \in -1..TooLong
      /\ ChartFollows /\ CallFollows
  BY DEF MInv, FInv, MonitorFollows
<1>2. c \in ArmMethods \ {"home"} /\ Asks(c) /\ reply # {} /\ openFor' = openFor
  BY <1>1, ReturnsWhat
<1>3. PICK v \in {0, 1} :
        /\ StubReturns(v)
        /\ Hear(ArmUpdateReply(armPort, [method |-> c, dest |-> "", ret |-> v = 1]))
  BY <1>1, ReturnsWhat
<1> HIDE DEF c
<1>4. asked' = NotCalling /\ reply' = {} /\ ~Asks("retractHand")'
  BY <1>3, OneAsks DEF StubReturns, Asks, ArmMethods
<1>5. Learns(reader', c, v = 1) /\ grasp' = GraspMonitor(grasp, <<ReplyReceived[c], v = 1>>)
  <2>1. (v = 1) \in BOOLEAN
    OBVIOUS
  <2> QED BY <1>1, <1>2, <1>3, <2>1, ReplyHeard
<1>6. reader' \in Readers
  BY <1>5 DEF Learns
<1>7. grasp' = IF grasp.at = "idle" /\ c = "openHand" /\ v = 1
               THEN [at |-> "graspingState", tickCounter |-> GraspTheta] ELSE grasp
  <2>1. (v = 1) \in BOOLEAN
    OBVIOUS
  <2> QED BY <1>1, <1>2, <1>5, <2>1, CounterSteps
<1>8. CASE grasp' = grasp
  BY <1>1, <1>2, <1>4, <1>6, <1>8 DEF MInv, MonitorFollows
<1>9. CASE grasp' = [at |-> "graspingState", tickCounter |-> GraspTheta] /\ c = "openHand"
  <2>1. openFor >= 0
    BY <1>2, <1>9 DEF MInv, MonitorFollows
  <2>2. grasp' \in Counters /\ grasp'.at = "graspingState" /\ grasp'.tickCounter = GraspTheta
    BY <1>9, Thetas DEF Counters
  <2>3. openFor' >= GraspTheta - grasp'.tickCounter
    BY <1>1, <1>2, <2>1, <2>2, Thetas
  <2> QED BY <1>1, <1>2, <1>4, <1>6, <2>2, <2>3 DEF MonitorFollows
<1> QED BY <1>7, <1>8, <1>9

LEMMA OtherFollows ==
  ASSUME MInv, \/ TreeDrives \/ Chart \/ Refused \/ Break \/ ServesNobody \/ HomeBegins \/ HomeEnding \/ UNCHANGED vars
  PROVE  MonitorFollows' /\ grasp' = grasp
<1>1. UNCHANGED <<reader, grasp, openFor>>
  BY DEF TreeDrives, Chart, Refused, Break, ServesNobody, HomeBegins, HomeEnding, vars, monitorVars
<1>2. \/ asked' = asked /\ reply' = reply
      \/ asked' = NotCalling /\ reply' = {}
  BY DEF TreeDrives, Chart, Refused, Break, ServesNobody, HomeBegins, HomeEnding, vars, callVars, StubReturns
<1>3. Asks("retractHand")' => Asks("retractHand")
  BY <1>2, OneAsks DEF Asks, ArmMethods
<1>4. Asks("openHand")' /\ reply' # {} => Asks("openHand") /\ reply # {}
  BY <1>2 DEF Asks
<1> QED BY <1>1, <1>3, <1>4 DEF MInv, MonitorFollows

LEMMA LostKept ==
  ASSUME MInv, [Next]_vars
  PROVE  LostFollows'
<1>1. /\ abandoned \in [P!ArmServiceCalls -> Nat] /\ unasked \subseteq ArmCalls
      /\ breaks \in Nat /\ \A c \in P!ArmServiceCalls : abandoned[c] <= breaks
      /\ ChartFollows /\ CallFollows
  BY MonitoredFetchAssumption DEF MInv, FInv, Bounds, LostFollows
<1>2. CASE UNCHANGED <<lostVars, breaks>>
  BY <1>1, <1>2 DEF LostFollows, lostVars
<1>3. CASE TreeDrives
  <2>1. breaks' = breaks /\ abandoned' = abandoned /\ unasked' \in {{}, unasked}
    BY <1>3 DEF TreeDrives, callVars
  <2> QED BY <1>1, <2>1 DEF LostFollows
<1>4. CASE Refused \/ Break
  <2>1. breaks' = breaks + 1 /\ unasked' = unasked
    BY <1>4 DEF Refused, Break, lostVars
  <2>2. abandoned' = abandoned \/ \E c : abandoned' = [abandoned EXCEPT ![c] = @ + 1]
    BY <1>4 DEF Refused, Break, lostVars
  <2> QED BY <1>1, <2>1, <2>2 DEF LostFollows
<1>5. CASE ServesNobody
  <2>1. PICK c \in P!ArmServiceCalls :
          /\ abandoned[c] > 0 /\ abandoned' = [abandoned EXCEPT ![c] = @ - 1]
          /\ \E b \in BOOLEAN : ArmHandles(c.name[1], b)
          /\ unasked' = unasked \cup {c.name[1]} /\ breaks' = breaks
    BY <1>5 DEF ServesNobody, callVars
  <2>2. c.name[1] \in ArmCalls
    BY <2>1 DEF ArmHandles, ArmCalls
  <2>3. abandoned' \in [P!ArmServiceCalls -> Nat] /\ \A d \in P!ArmServiceCalls : abandoned'[d] <= breaks
    BY <1>1, <2>1
  <2> QED BY <1>1, <2>1, <2>2, <2>3 DEF LostFollows
<1>6. CASE Sends \/ Serves \/ Returns
  <2>1. UNCHANGED <<lostVars, breaks>>
    BY <1>6 DEF Sends, Serves, Returns
  <2> QED BY <1>2, <2>1
<1>7. CASE TreeTick \/ Chart \/ HomeBegins \/ HomeEnding \/ UNCHANGED vars
  <2>1. UNCHANGED <<lostVars, breaks>>
    BY <1>7 DEF TreeTick, Chart, HomeBegins, HomeEnding, vars, callVars
  <2> QED BY <1>2, <2>1
<1> QED BY <1>3, <1>4, <1>5, <1>6, <1>7 DEF Next

LEMMA MonitorStep ==
  ASSUME MInv, [Next]_vars
  PROVE  MInv' /\ (grasp.at # "failure" /\ grasp'.at = "failure" => openFor >= GraspTheta)
<1>1. FInv'
  BY NextInv DEF MInv
<1>2. MonitorFollows' /\ (grasp.at # "failure" /\ grasp'.at = "failure" => openFor >= GraspTheta)
  <2>1. CASE TreeTick
    BY <2>1, TickFollows
  <2>2. CASE Sends
    BY <2>2, SendsFollows
  <2>3. CASE Serves
    BY <2>3, ServesFollows
  <2>4. CASE Returns
    BY <2>4, ReturnsFollows
  <2>5. CASE TreeDrives \/ Chart \/ Refused \/ Break \/ ServesNobody \/ HomeBegins \/ HomeEnding \/ UNCHANGED vars
    BY <2>5, OtherFollows
  <2> QED BY <2>1, <2>2, <2>3, <2>4, <2>5 DEF Next
<1> QED BY <1>1, <1>2, LostKept DEF MInv

LEMMA MonitorInit ==
  ASSUME Init
  PROVE  MInv
<1>1. FInv
  BY InitInv
<1>2. /\ reader = InitialReader /\ grasp = [at |-> "idle", tickCounter |-> 0] /\ openFor = -1
      /\ asked = NotCalling /\ reply = {}
  BY DEF Init, MonitorsInit, InitialGrasp
<1>3. reader \in Readers
  BY <1>2 DEF InitialReader, Readers
<1>4. openFor \in -1..TooLong
  BY <1>2, Thetas
<1>5. grasp \in Counters /\ grasp.at = "idle"
  BY <1>2, Thetas DEF Counters
<1>6. LostFollows
  BY DEF Init, LostFollows
<1> QED BY <1>1, <1>2, <1>3, <1>4, <1>5, <1>6 DEF MInv, MonitorFollows

LEMMA MonitorInvariance == Spec => []MInv
BY MonitorInit, MonitorStep, PTL DEF Spec

\* Whatever is lost and whatever home does, GraspMonitor raises no alarm before
\* the hand has been out for as many ticks as its threshold says
\* (tickCounterTheta of GraspMonitor.scxml).
THEOREM GraspAlarmJustifiedHolds == Spec => GraspAlarmJustified
<1>1. ASSUME MInv, [Next]_vars
      PROVE  [grasp.at # "failure" /\ grasp'.at = "failure" => openFor >= GraspTheta]_vars
  BY <1>1, MonitorStep
<1> QED BY <1>1, MonitorInvariance, PTL DEF Spec, GraspAlarmJustified

\* What every variable of the composition may hold; above all, a request and a
\* reply are never under way together, and neither without a call that waits.
THEOREM TypeCorrect == Spec => []TypeOK
<1>1. ASSUME MInv
      PROVE  TypeOK
  <2>1. ChartFollows /\ CallFollows /\ HandFollows /\ Bounds /\ MonitorFollows
    BY <1>1 DEF MInv, FInv
  <2>2. ChartTypeOK /\ ArmTypeOK
    BY <2>1 DEF ChartFollows, HandFollows
  <2>3. asked \in P!ArmServiceCalls \cup {NotCalling}
    <3>1. CASE asked = NotCalling
      BY <3>1
    <3>2. CASE asked # NotCalling
      <4>1. calls[fetch] # <<>> /\ Asks(Head(calls[fetch]))
        BY <2>1, <3>2 DEF CallFollows
      <4>2. Head(calls[fetch]) \in ArmMethods
        BY <2>1, <4>1, ScriptHead
      <4> QED BY <4>1, <4>2, OneAsks DEF Asks
    <3> QED BY <3>1, <3>2
  <2>4. /\ request = {} \/ (asked # NotCalling /\ reply = {} /\ done = NotDone)
        /\ reply = {} \/ (asked # NotCalling /\ done # NotDone)
    <3>1. CASE asked = NotCalling
      BY <2>1, <3>1 DEF CallFollows
    <3>2. CASE asked # NotCalling
      <4>1. \/ request = {P!Write(asked, P!EmptyWord)} /\ reply = {} /\ done = NotDone
            \/ request = {} /\ \E v \in {0, 1} : Has(v)
        BY <2>1, <3>2 DEF CallFollows
      <4>2. ASSUME NEW v \in {0, 1}, Has(v)
            PROVE  done # NotDone
        <5>1. done.value = v
          BY <4>2 DEF Has
        <5>2. NotDone.value \notin {0, 1}
          BY DEF NotDone
        <5> QED BY <5>1, <5>2
      <4> QED BY <3>2, <4>1, <4>2
    <3> QED BY <3>1, <3>2
  <2>5. grasp.tickCounter \in 0..GraspTheta
    BY <2>1 DEF MonitorFollows, Counters
  <2>6. abandoned \in [P!ArmServiceCalls -> 0..MaxBreaks] /\ unasked \subseteq ArmCalls
    <3>1. LostFollows /\ MaxBreaks \in Nat /\ breaks \in 0..MaxBreaks
      BY <1>1, <2>1, MonitoredFetchAssumption DEF MInv, Bounds
    <3>2. \A c \in P!ArmServiceCalls : abandoned[c] \in 0..MaxBreaks
      BY <3>1 DEF LostFollows
    <3> QED BY <3>1, <3>2 DEF LostFollows
  <2> QED BY <2>1, <2>2, <2>3, <2>4, <2>5, <2>6 DEF TypeOK, Bounds, MonitorFollows
<1> QED BY <1>1, MonitorInvariance, PTL

-----------------------------------------------------------------------------
(* What the Monitor shows.  As long as nothing is lost and nobody sends    *)
(* the arm home, it is the arm before the call whose reply is on its way.  *)

\* The arm and the hand, from what the Monitor shows and a reply.
Shows(c, ret) ==
  /\ extracted = IF ret /\ c = "extractHand" THEN TRUE
                 ELSE IF ret /\ c = "retractHand" THEN FALSE ELSE reader.isArmExtracted
  /\ opened = IF ret /\ c = "openHand" THEN TRUE
              ELSE IF ret /\ c = "closeHand" THEN FALSE ELSE reader.isHandOpen

Shown == reader.isArmExtracted = extracted /\ reader.isHandOpen = opened

ShownFollows ==
  /\ reply = {} => Shown
  /\ \A v \in {0, 1} : Has(v) => Shows(Head(calls[fetch]), v = 1)

Undisturbed == homing = "no" /\ breaks = 0

LEMMA ShownServes ==
  ASSUME MInv, ShownFollows, Serves
  PROVE  ShownFollows'
<1> DEFINE c == Head(calls[fetch])
<1>1. ChartFollows /\ CallFollows /\ ArmTypeOK /\ reader \in Readers
  BY DEF MInv, FInv, HandFollows, MonitorFollows
<1>2. /\ c \in ArmMethods \ {"home"} /\ reply = {} /\ c' = c /\ reader' = reader
  BY <1>1, ServesWhat DEF chartVars, monitorVars
<1>3. PICK b \in BOOLEAN : ArmHandles(c, b) /\ Has(Number(b))'
  BY <1>1, ServesWhat
<1> HIDE DEF c
<1>4. /\ b = (c = "hasGrasped" => grasped)
      /\ extracted' = IF c = "extractHand" THEN TRUE
                      ELSE IF c = "retractHand" THEN FALSE ELSE extracted
      /\ opened' = IF c = "openHand" THEN TRUE
                   ELSE IF c = "closeHand" THEN FALSE ELSE opened
  BY <1>1, <1>2, <1>3, ArmActs
<1>5. Shown
  BY <1>2 DEF ShownFollows
<1>6. c # "hasGrasped" => b
  BY <1>4
<1>7. ASSUME NEW v \in {0, 1}, Has(v)'
      PROVE  Shows(c, v = 1)'
  <2>1. v = Number(b)
    BY <1>3, <1>7 DEF Has
  <2>2. v = 1 <=> b
    BY <2>1 DEF Number
  <2>3. extracted' = IF v = 1 /\ c = "extractHand" THEN TRUE
                     ELSE IF v = 1 /\ c = "retractHand" THEN FALSE ELSE reader.isArmExtracted
    BY <1>4, <1>5, <1>6, <2>2 DEF Shown
  <2>4. opened' = IF v = 1 /\ c = "openHand" THEN TRUE
                  ELSE IF v = 1 /\ c = "closeHand" THEN FALSE ELSE reader.isHandOpen
    BY <1>4, <1>5, <1>6, <2>2 DEF Shown
  <2> QED BY <1>2, <2>3, <2>4 DEF Shows
<1>8. reply' # {}
  BY <1>3 DEF Has
<1> QED BY <1>7, <1>8 DEF ShownFollows, c

LEMMA ShownReturns ==
  ASSUME MInv, ShownFollows, Returns
  PROVE  ShownFollows'
<1> DEFINE c == Head(calls[fetch])
<1>1. ChartFollows /\ CallFollows /\ reader \in Readers
  BY DEF MInv, FInv, MonitorFollows
<1>2. c \in ArmMethods \ {"home"} /\ UNCHANGED <<extracted, opened>>
  BY <1>1, ReturnsWhat DEF armVars
<1>3. PICK v \in {0, 1} :
        /\ Has(v) /\ StubReturns(v)
        /\ Hear(ArmUpdateReply(armPort, [method |-> c, dest |-> "", ret |-> v = 1]))
  BY <1>1, ReturnsWhat
<1>4. Shows(c, v = 1)
  BY <1>3 DEF ShownFollows
<1> HIDE DEF c
<1>5. Learns(reader', c, v = 1)
  <2>1. (v = 1) \in BOOLEAN
    OBVIOUS
  <2> QED BY <1>1, <1>2, <1>3, <2>1, ReplyHeard
<1>6. Shown'
  BY <1>2, <1>4, <1>5 DEF Learns, Shows, Shown
<1>7. reply' = {}
  BY <1>3 DEF StubReturns
<1> QED BY <1>6, <1>7 DEF ShownFollows, Has

LEMMA ShownStep ==
  ASSUME MInv, ShownFollows, [Next]_vars, Undisturbed, Undisturbed'
  PROVE  ShownFollows'
<1>1. ChartFollows /\ CallFollows /\ reader \in Readers
  BY DEF MInv, FInv, MonitorFollows
<1>2. CASE UNCHANGED vars \/ TreeTick \/ TreeDrives
  <2>1. UNCHANGED <<reply, done, asked, extracted, opened, calls>>
    BY <1>2 DEF vars, TreeTick, TreeDrives, callVars, armVars, chartVars
  <2>2. reader' = reader
    BY <1>2, TickHeard DEF vars, TreeTick, TreeDrives, monitorVars
  <2> QED BY <2>1, <2>2 DEF ShownFollows, Shown, Shows, Has
<1>3. CASE Chart
  <2>1. UNCHANGED <<reply, reader, extracted, opened>> /\ calls[fetch] = <<>>
    BY <1>3 DEF Chart, callVars, armVars, monitorVars, React, Fire
  <2>2. reply = {}
    BY <1>1, <2>1, NotAsking
  <2> QED BY <2>1, <2>2 DEF ShownFollows, Shown, Has
<1>4. CASE Sends
  <2>1. /\ Head(calls[fetch]) \in ArmMethods /\ reply = {} /\ reply' = {}
        /\ UNCHANGED <<extracted, opened>>
        /\ Hear(ArmUpdate(armPort, [method |-> Head(calls[fetch]), dest |-> "", ret |-> FALSE]))
    BY <1>1, <1>4, SendsWhat DEF armVars
  <2>2. reader' = reader
    BY <2>1, CommandHeard
  <2> QED BY <2>1, <2>2 DEF ShownFollows, Shown, Has
<1>5. ~Refused /\ ~Break
  <2>1. SUFFICES ASSUME Refused \/ Break PROVE FALSE
    OBVIOUS
  <2>2. breaks = 0 /\ breaks' = breaks + 1 /\ breaks' = 0
    BY <2>1 DEF Refused, Break, Undisturbed
  <2> QED BY <2>2
<1>6. ~HomeBegins /\ ~HomeEnding
  BY DEF HomeBegins, HomeEnding, Home, HomeCloses, HomeEnds, Undisturbed
<1>7. ~ServesNobody
  <2>1. \A c \in P!ArmServiceCalls : abandoned[c] \in Nat /\ abandoned[c] <= 0
    BY DEF MInv, LostFollows, Undisturbed
  <2> QED BY <2>1 DEF ServesNobody
<1> QED BY <1>2, <1>3, <1>4, <1>5, <1>6, <1>7, ShownServes, ShownReturns DEF Next

\* Until a call is lost or the operator sends the arm home, what the Monitor
\* shows of the arm and the hand is the truth whenever no reply is on its way
\* (the replies of the arm in MonitorReader::read).
THEOREM ShownArmIsTrueHolds == Spec => ShownArmIsTrue
<1> DEFINE True == reply = {} => reader.isArmExtracted = extracted /\ reader.isHandOpen = opened
           Disturbed == homing # "no" \/ breaks # 0
<1>1. Init => ShownFollows
  <2>1. SUFFICES ASSUME Init PROVE ShownFollows
    OBVIOUS
  <2>2. /\ reader = InitialReader /\ extracted = FALSE /\ opened = FALSE /\ reply = {}
    BY <2>1 DEF Init, MonitorsInit, ArmInit
  <2> QED BY <2>2 DEF ShownFollows, Shown, Has, InitialReader
<1>2. MInv /\ ShownFollows /\ [Next]_vars /\ Undisturbed /\ Undisturbed' => ShownFollows'
  BY ShownStep
<1>3. ShownFollows => True
  BY DEF ShownFollows, Shown
<1>4. Undisturbed \/ Disturbed
  BY DEF Undisturbed
<1> HIDE DEF True, Disturbed
<1>5. Spec => []True \/ <>Disturbed
  BY <1>1, <1>2, <1>3, <1>4, MonitorInvariance, PTL DEF Spec
<1> QED BY <1>5 DEF ShownArmIsTrue, True, Disturbed
=============================================================================
