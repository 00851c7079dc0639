-------------------------- MODULE PortMonitorProofs --------------------------
(***************************************************************************)
(* The monitors of a port, for any number of connections, any scripts and  *)
(* rules, and any bounds on the messages.                                  *)
(***************************************************************************)
EXTENDS PortMonitor, SequenceTheorems, FiniteSetTheorems, WellFoundedInduction, TLAPS

-----------------------------------------------------------------------------
(* The binding of a script: what its operations do to the stack.           *)

\* What a stack may hold.
Values == {"library", "PortMonitor", "string", "function", "nil", "userdata", "yes", "no"}

LEMMA PopConcat ==
  ASSUME NEW s \in Seq(Values), NEW t \in Seq(Values)
  PROVE  Lua!Pop(s \o t, Len(t)) = s
<1>1. /\ Len(s) \in Nat /\ Len(t) \in Nat
      /\ s \o t \in Seq(Values)
      /\ Len(s \o t) = Len(s) + Len(t)
      /\ \A i \in 1..Len(s) : (s \o t)[i] = s[i] /\ s[i] \in Values
  BY ConcatProperties, LenProperties, ElementOfSeq
<1>2. Lua!Pop(s \o t, Len(t)) = SubSeq(s \o t, 1, Len(s))
  BY <1>1 DEF Lua!Pop
<1> DEFINE u == SubSeq(s \o t, 1, Len(s))
<1>3. u \in Seq(Values) /\ Len(u) = Len(s) /\ \A i \in 1..Len(s) : u[i] = s[i]
  BY <1>1, SubSeqProperties
<1> HIDE DEF u
<1>4. u = s
  BY <1>3, SeqEqual
<1> QED BY <1>2, <1>4 DEF u

LEMMA PopAppend ==
  ASSUME NEW s \in Seq(Values), NEW x \in Values
  PROVE  Lua!Pop(Append(s, x), 1) = s /\ Append(s, x) \in Seq(Values)
<1>1. Append(s, x) = s \o <<x>> /\ Append(s, x) \in Seq(Values)
  BY AppendIsConcat, AppendProperties
<1>2. <<x>> \in Seq(Values) /\ Len(<<x>>) = 1
  OBVIOUS
<1> QED BY <1>1, <1>2, PopConcat

\* As many times the same value.
LEMMA Copies ==
  ASSUME NEW n \in Nat, NEW x \in Values
  PROVE  [i \in 1..n |-> x] \in Seq(Values) /\ Len([i \in 1..n |-> x]) = n
OBVIOUS

\* A callback leaves the stack as it has found it, whatever it returns.
LEMMA CallbackRestores ==
  ASSUME NEW s \in Seq(Values), NEW script, NEW name, NEW args \in Nat, NEW results \in Nat,
         NEW default, NEW r \in Lua!Callback(s, script, name, args, results, default)
  PROVE  r.stack = s
<1> DEFINE found == Lua!getLocalFunction(s, script, name)
           passed == [i \in 1..args |-> "userdata"]
           called == Lua!pcall(found \o passed, args, results)
<1>1. PICK x \in Values : found = Append(s, x)
  BY DEF Lua!getLocalFunction, Values
<1>2. /\ found \in Seq(Values) /\ Lua!Pop(found, 1) = s
      /\ found = s \o <<x>> /\ <<x>> \in Seq(Values) /\ Len(<<x>>) = 1
  BY <1>1, PopAppend, AppendIsConcat
<1>3. passed \in Seq(Values) /\ Len(passed) = args
  BY Copies DEF Values
<1> HIDE DEF found, passed
<1>4. Lua!Pop(found \o passed, args + 1) = s
  <2>1. found \o passed = s \o (<<x>> \o passed)
    BY <1>2, <1>3, ConcatAssociative
  <2>2. <<x>> \o passed \in Seq(Values) /\ Len(<<x>> \o passed) = args + 1
    BY <1>2, <1>3, ConcatProperties
  <2> QED BY <2>1, <2>2, PopConcat
<1>5. ASSUME NEW c \in called
      PROVE  Lua!Pop(c.stack, IF c.value = Lua!Failed THEN 1 ELSE results) = s
  <2>1. CASE \E v \in {"yes", "no"} : c = Lua!Outcome(s \o [i \in 1..results |-> v], v, TRUE)
    <3>1. PICK v \in {"yes", "no"} : c = Lua!Outcome(s \o [i \in 1..results |-> v], v, TRUE)
      BY <2>1
    <3>2. c.stack = s \o [i \in 1..results |-> v] /\ c.value # Lua!Failed
      BY <3>1 DEF Lua!Outcome, Lua!Failed
    <3>3. Lua!Pop(s \o [i \in 1..results |-> v], results) = s
      BY Copies, PopConcat DEF Values
    <3> QED BY <3>2, <3>3
  <2>2. CASE c = Lua!Outcome(Append(s, "string"), Lua!Failed, TRUE)
    <3>1. c.stack = Append(s, "string") /\ c.value = Lua!Failed
      BY <2>2 DEF Lua!Outcome
    <3> QED BY <3>1, PopAppend DEF Values
  <2> QED BY <1>4, <2>1, <2>2 DEF Lua!pcall
<1> HIDE DEF called
<1>6. \/ r = Lua!Outcome(s, default, FALSE)
      \/ r = Lua!Outcome(s, Lua!Failed, FALSE)
      \/ \E c \in called :
           r = Lua!Outcome(Lua!Pop(c.stack, IF c.value = Lua!Failed THEN 1 ELSE results), c.value, TRUE)
  BY <1>2 DEF Lua!Callback, found, passed, called
<1> QED BY <1>5, <1>6 DEF Lua!Outcome

\* So do all operations that call the script by name.
LEMMA OperationRestores ==
  ASSUME NEW s \in Seq(Values), NEW script
  PROVE  /\ \A r \in Lua!acceptData(s, script) : r.stack = s
         /\ \A r \in Lua!updateData(s, script) : r.stack = s
         /\ \A r \in Lua!setParams(s, script) : r.stack = s
         /\ \A r \in Lua!getParams(s, script) : r.stack = s
         /\ \A r \in Lua!peerTrigged(s, script) : r.stack = s
BY CallbackRestores
DEF Lua!acceptData, Lua!updateData, Lua!setParams, Lua!getParams, Lua!peerTrigged

\* load leaves the table PortMonitor above the functions, or closes the state.
LEMMA LoadLeaves ==
  ASSUME NEW script, NEW l \in Lua!load(Lua!New, script)
  PROVE  /\ l.stack \in {Lua!Closed, Lua!Base} /\ l.ready \in BOOLEAN
         /\ l.ready => l.stack = Lua!Base
         /\ l.flags \subseteq script
<1> DEFINE base == Append(Lua!New, "PortMonitor")
<1>1. base = Lua!Base /\ base \in Seq(Values)
  BY PopAppend DEF Lua!Base, Lua!New, Values
<1> HIDE DEF base
<1>2. CASE l = [stack |-> Lua!Closed, ready |-> FALSE, flags |-> {}]
  BY <1>2
<1>3. ASSUME NEW made \in Lua!Callback(base, script, "create", 1, 1, "yes"),
             l = [stack |-> IF made.value = Lua!Failed /\ made.ran THEN Lua!Closed ELSE made.stack,
                  ready |-> made.value = "yes",
                  flags |-> IF made.value # "yes" THEN {}
                            ELSE {n \in {"accept", "update", "update_reply"} :
                                    Lua!isFunction(Lua!getLocalFunction(made.stack, script, n))}]
      PROVE  /\ l.stack \in {Lua!Closed, Lua!Base} /\ l.ready \in BOOLEAN
             /\ l.ready => l.stack = Lua!Base
             /\ l.flags \subseteq script
  <2>1. made.stack = base
    BY <1>1, CallbackRestores
  <2>2. "yes" # Lua!Failed
    BY DEF Lua!Failed
  <2>3. \A n : Lua!isFunction(Lua!getLocalFunction(base, script, n)) => n \in script
    <3> SUFFICES ASSUME NEW n, n \notin script
                 PROVE  ~Lua!isFunction(Lua!getLocalFunction(base, script, n))
      OBVIOUS
    <3>1. Lua!getLocalFunction(base, script, n) = Append(base, "nil")
      BY DEF Lua!getLocalFunction
    <3>2. Append(base, "nil")[Len(Append(base, "nil"))] = "nil"
      BY <1>1, AppendProperties
    <3> QED BY <3>1, <3>2 DEF Lua!isFunction, Lua!Last, Last
  <2> QED BY <1>1, <1>3, <2>1, <2>2, <2>3
<1> QED BY <1>2, <1>3 DEF Lua!load, base

-----------------------------------------------------------------------------
(* Least elements.                                                         *)

LEMMA Least ==
  ASSUME NEW T, T \subseteq Nat, T # {}
  PROVE  \E x \in T : \A y \in T : x <= y
<1> DEFINE R == OpToRel(<, Nat)
<1>1. \E x \in T : \A y \in T : ~(<<y, x>> \in R)
  <2>1. IsWellFoundedOn(R, Nat)
    BY NatLessThanWellFounded
  <2> HIDE DEF R
  <2> QED BY <2>1, WFMin
<1>2. \A x, y \in Nat : y < x => <<y, x>> \in R
  BY DEF OpToRel
<1> HIDE DEF R
<1>3. PICK x \in T : \A y \in T : ~(<<y, x>> \in R)
  BY <1>1
<1>4. ASSUME NEW y \in T PROVE x <= y
  <2>1. x \in Nat /\ y \in Nat
    OBVIOUS
  <2>2. ~(y < x)
    BY <1>2, <1>3, <2>1
  <2> QED BY <2>1, <2>2
<1> QED BY <1>4

\* The first of some indices.
LEMMA FirstOf ==
  ASSUME NEW n \in Nat, NEW T, T \subseteq 1..n, NEW F, F = {i \in T : \A j \in T : ~(j < i)}
  PROVE  /\ F = {} <=> T = {}
         /\ T # {} => /\ Min(F) \in T /\ F = {Min(F)}
                      /\ \A j \in T : Min(F) <= j
<1>1. CASE T = {}
  BY <1>1
<1>2. CASE T # {}
  <2>1. T \subseteq Nat
    OBVIOUS
  <2>2. PICK x \in T : \A y \in T : x <= y
    BY <1>2, <2>1, Least
  <2>3. F = {x}
    <3>1. x \in F
      <4>1. \A j \in T : ~(j < x)
        BY <2>1, <2>2
      <4> QED BY <4>1
    <3>2. ASSUME NEW y \in F PROVE y = x
      <4>1. y \in T /\ ~(x < y) /\ x <= y /\ x \in Nat /\ y \in Nat
        BY <2>1, <2>2
      <4> QED BY <4>1
    <3> QED BY <3>1, <3>2
  <2>4. Min(F) = x
    BY <2>1, <2>3 DEF Min
  <2> QED BY <1>2, <2>2, <2>3, <2>4
<1> QED BY <1>1, <1>2

-----------------------------------------------------------------------------
(* The events of the record.                                               *)

Scripted == Connections \ SharedLibs
Names == UNION {Raises[c] : c \in Scripted}
Events == [name : Names, owner : Scripted, left : Nat \cup {Forever}]

\* An event of a script is recorded once, however often it is set.
Recorded(rec) ==
  /\ rec \in Seq(Events)
  /\ \A i \in 1..Len(rec) : rec[i].name \in Raises[rec[i].owner]
  /\ \A i, j \in 1..Len(rec) : rec[i].owner = rec[j].owner /\ rec[i].name = rec[j].name => i = j

AliveIn(rec, name) == \E i \in DOMAIN rec : rec[i].name = name /\ Lives(rec[i])

\* The events of different scripts have different names.
NamesApart == \A c, d \in Scripted : c # d => Raises[c] \cap Raises[d] = {}

LEMMA Removed ==
  ASSUME NEW rec \in Seq(Events), NEW i \in 1..Len(rec)
  PROVE  /\ RemoveAt(rec, i) \in Seq(Events)
         /\ Len(RemoveAt(rec, i)) = Len(rec) - 1
         /\ \A k \in 1..(Len(rec) - 1) : RemoveAt(rec, i)[k] = IF k < i THEN rec[k] ELSE rec[k + 1]
<1>1. Len(rec) \in Nat /\ DOMAIN rec = 1..Len(rec) /\ \A k \in 1..Len(rec) : rec[k] \in Events
  BY LenProperties, ElementOfSeq
<1> DEFINE n == Len(rec)
           a == SubSeq(rec, 1, i - 1)
           b == SubSeq(rec, i + 1, n)
<1>2. /\ a \in Seq(Events) /\ Len(a) = i - 1
      /\ \A k \in 1..(i - 1) : a[k] = rec[k]
  <2>1. \A k \in 1..(i - 1) : rec[k] \in Events
    BY <1>1
  <2>2. 1 \in Int /\ i - 1 \in Int
    BY <1>1
  <2>3. /\ a \in Seq(Events) /\ Len(a) = IF 1 <= i - 1 THEN (i - 1) - 1 + 1 ELSE 0
        /\ \A k \in 1..((i - 1) - 1 + 1) : a[k] = rec[1 + k - 1]
    BY <2>1, <2>2, SubSeqProperties
  <2>4. \A k \in 1..(i - 1) : 1 + k - 1 = k
    OBVIOUS
  <2> QED BY <1>1, <2>3, <2>4
<1>3. /\ b \in Seq(Events) /\ Len(b) = n - i
      /\ \A k \in 1..(n - i) : b[k] = rec[i + k]
  <2>1. \A k \in (i + 1)..n : rec[k] \in Events
    BY <1>1
  <2>2. i + 1 \in Int /\ n \in Int
    BY <1>1
  <2>3. /\ b \in Seq(Events) /\ Len(b) = IF i + 1 <= n THEN n - (i + 1) + 1 ELSE 0
        /\ \A k \in 1..(n - (i + 1) + 1) : b[k] = rec[(i + 1) + k - 1]
    BY <2>1, <2>2, SubSeqProperties
  <2>4. \A k \in 1..(n - i) : (i + 1) + k - 1 = i + k
    BY <1>1
  <2>5. n - (i + 1) + 1 = n - i /\ (i + 1 <= n \/ n - i = 0)
    <3>1. n \in Int /\ i \in Int /\ i <= n
      BY <1>1
    <3> HIDE DEF n
    <3> QED BY <3>1
  <2> HIDE DEF b, n
  <2>6. \A k \in 1..(n - i) : b[k] = rec[i + k]
    BY <2>3, <2>4, <2>5
  <2> QED BY <2>3, <2>5, <2>6
<1> HIDE DEF a, b, n
<1>4. /\ a \o b \in Seq(Events) /\ Len(a \o b) = Len(a) + Len(b)
      /\ \A k \in 1..(Len(a) + Len(b)) : (a \o b)[k] = IF k <= Len(a) THEN a[k] ELSE b[k - Len(a)]
  BY <1>2, <1>3, ConcatProperties
<1>5. n \in Nat /\ i \in 1..n
  BY <1>1 DEF n
<1>6. Len(a \o b) = n - 1
  BY <1>2, <1>3, <1>4, <1>5
<1>7. ASSUME NEW k \in 1..(n - 1) PROVE (a \o b)[k] = IF k < i THEN rec[k] ELSE rec[k + 1]
  <2>1. (a \o b)[k] = IF k <= i - 1 THEN a[k] ELSE b[k - (i - 1)]
    BY <1>2, <1>3, <1>4, <1>5
  <2>2. CASE k < i
    <3>1. k <= i - 1 /\ k \in 1..(i - 1)
      BY <2>2, <1>5
    <3> QED BY <1>2, <2>1, <2>2, <3>1
  <2>3. CASE ~(k < i)
    <3>1. ~(k <= i - 1) /\ k - (i - 1) \in 1..(n - i) /\ i + (k - (i - 1)) = k + 1
      BY <2>3, <1>5
    <3> QED BY <1>3, <2>1, <2>3, <3>1
  <2> QED BY <2>2, <2>3
<1>8. RemoveAt(rec, i) = a \o b
  BY DEF RemoveAt, a, b, n
<1> QED BY <1>4, <1>6, <1>7, <1>8 DEF n

\* What is removed from a record leaves a record.
LEMMA RemovedRecorded ==
  ASSUME NEW rec, Recorded(rec), NEW i \in 1..Len(rec)
  PROVE  /\ Recorded(RemoveAt(rec, i))
         /\ ~Lives(rec[i]) => \A name : AliveIn(RemoveAt(rec, i), name) <=> AliveIn(rec, name)
<1> DEFINE s == RemoveAt(rec, i)
           n == Len(rec)
<1>1. /\ s \in Seq(Events) /\ Len(s) = n - 1 /\ rec \in Seq(Events)
      /\ \A k \in 1..(n - 1) : s[k] = IF k < i THEN rec[k] ELSE rec[k + 1]
  BY Removed DEF Recorded
<1>2. n \in Nat /\ DOMAIN rec = 1..n /\ DOMAIN s = 1..(n - 1)
  <2> HIDE DEF s
  <2> QED BY <1>1, LenProperties
<1> HIDE DEF s, n
<1>3. Recorded(s)
  <2> DEFINE at(k) == IF k < i THEN k ELSE k + 1
  <2>1. /\ \A k \in 1..(n - 1) : at(k) \in 1..n /\ s[k] = rec[at(k)]
        /\ \A k, m \in 1..(n - 1) : at(k) = at(m) => k = m
    BY <1>1, <1>2
  <2> HIDE DEF at
  <2>2. /\ \A k \in 1..n : rec[k].name \in Raises[rec[k].owner]
        /\ \A k, m \in 1..n : rec[k].owner = rec[m].owner /\ rec[k].name = rec[m].name => k = m
    BY DEF Recorded, n
  <2>3. ASSUME NEW k \in 1..(n - 1), NEW m \in 1..(n - 1), s[k].owner = s[m].owner, s[k].name = s[m].name
        PROVE  k = m
    BY <2>1, <2>2, <2>3
  <2>4. ASSUME NEW k \in 1..(n - 1) PROVE s[k].name \in Raises[s[k].owner]
    BY <2>1, <2>2
  <2> QED BY <1>1, <2>3, <2>4 DEF Recorded
<1>4. ASSUME ~Lives(rec[i]), NEW name PROVE AliveIn(s, name) <=> AliveIn(rec, name)
  <2>1. ASSUME NEW k \in 1..(n - 1), s[k].name = name, Lives(s[k]) PROVE AliveIn(rec, name)
    <3>1. \E m \in 1..n : s[k] = rec[m]
      BY <1>1, <1>2
    <3> QED BY <1>2, <2>1, <3>1 DEF AliveIn
  <2>2. ASSUME NEW k \in 1..n, rec[k].name = name, Lives(rec[k]) PROVE AliveIn(s, name)
    <3>1. k # i
      BY <1>4, <2>2
    <3>2. \E m \in 1..(n - 1) : s[m] = rec[k]
      <4>1. CASE k < i
        <5>1. k \in 1..(n - 1)
          BY <1>2, <4>1 DEF n
        <5> QED BY <1>1, <4>1, <5>1
      <4>2. CASE k > i
        <5>1. k - 1 \in 1..(n - 1) /\ ~(k - 1 < i) /\ (k - 1) + 1 = k
          BY <1>2, <4>2
        <5> QED BY <1>1, <5>1
      <4> QED BY <1>2, <3>1, <4>1, <4>2
    <3> QED BY <1>2, <2>2, <3>2 DEF AliveIn
  <2> QED BY <1>2, <2>1, <2>2 DEF AliveIn
<1> QED BY <1>3, <1>4 DEF s


\* The first event with a name, which hasEvent looks at.
LEMMA FirstNamed ==
  ASSUME NEW rec \in Seq(Events), NEW name
  PROVE  LET first == First(rec, LAMBDA e : e.name = name)
             named == {i \in 1..Len(rec) : rec[i].name = name}
         IN  /\ first = {} <=> named = {}
             /\ named # {} => Min(first) \in named /\ first = {Min(first)}
<1>1. Len(rec) \in Nat /\ DOMAIN rec = 1..Len(rec)
  BY LenProperties
<1> DEFINE first == First(rec, LAMBDA e : e.name = name)
           named == {i \in 1..Len(rec) : rec[i].name = name}
<1>2. first = {i \in named : \A j \in named : ~(j < i)}
  <2>1. first = {i \in 1..Len(rec) : rec[i].name = name /\ \A j \in 1..(i - 1) : ~(rec[j].name = name)}
    BY <1>1 DEF First
  <2>2. \A i \in 1..Len(rec) : \A j : j \in 1..(i - 1) <=> j \in 1..Len(rec) /\ j < i
    BY <1>1
  <2> QED BY <2>1, <2>2
<1>3. named \subseteq 1..Len(rec)
  OBVIOUS
<1> HIDE DEF first, named
<1>4. (first = {} <=> named = {}) /\ (named # {} => Min(first) \in named /\ first = {Min(first)})
  BY <1>1, <1>2, <1>3, FirstOf
<1> QED BY <1>4 DEF first, named

\* Looking an event up keeps the events that are alive, and finds it when its
\* name is no other script's.
LEMMA HasEvent ==
  ASSUME NEW rec, Recorded(rec), NEW name
  PROVE  LET looks == hasEvent(rec, name)
         IN  /\ Recorded(looks.record)
             /\ \A other : AliveIn(looks.record, other) <=> AliveIn(rec, other)
             /\ looks.has => AliveIn(rec, name)
             /\ NamesApart /\ AliveIn(rec, name) => looks.has
<1> DEFINE first == First(rec, LAMBDA e : e.name = name)
           named == {i \in 1..Len(rec) : rec[i].name = name}
           looks == hasEvent(rec, name)
<1>1. rec \in Seq(Events) /\ Len(rec) \in Nat /\ DOMAIN rec = 1..Len(rec)
  BY LenProperties DEF Recorded
<1>2. /\ first = {} <=> named = {}
      /\ named # {} => Min(first) \in named /\ first = {Min(first)}
  BY <1>1, FirstNamed
<1>3. looks = IF first = {} THEN [has |-> FALSE, record |-> rec]
              ELSE IF Lives(rec[Min(first)]) THEN [has |-> TRUE, record |-> rec]
              ELSE [has |-> FALSE, record |-> RemoveAt(rec, Min(first))]
  BY DEF hasEvent
<1>4. \A i \in 1..Len(rec) : i \in named <=> rec[i].name = name
  OBVIOUS
<1>5. named \subseteq 1..Len(rec)
  OBVIOUS
<1> HIDE DEF first, named, looks
<1>6. CASE first = {}
  <2>1. looks = [has |-> FALSE, record |-> rec]
    BY <1>3, <1>6
  <2>2. ~AliveIn(rec, name)
    BY <1>1, <1>2, <1>4, <1>6 DEF AliveIn
  <2>3. looks.record = rec /\ looks.has = FALSE
    BY <2>1
  <2> QED BY <2>2, <2>3 DEF looks
<1>7. CASE first # {}
  <2> DEFINE i == Min(first)
  <2>1. i \in 1..Len(rec) /\ rec[i].name = name
    BY <1>2, <1>4, <1>5, <1>7
  <2> HIDE DEF i
  <2>2. CASE Lives(rec[i])
    <3>1. looks = [has |-> TRUE, record |-> rec]
      BY <1>3, <1>7, <2>2 DEF i
    <3> QED BY <1>1, <2>1, <2>2, <3>1 DEF AliveIn, looks
  <2>3. CASE ~Lives(rec[i])
    <3>1. looks = [has |-> FALSE, record |-> RemoveAt(rec, i)]
      BY <1>3, <1>7, <2>3 DEF i
    <3>2. /\ Recorded(RemoveAt(rec, i))
          /\ \A other : AliveIn(RemoveAt(rec, i), other) <=> AliveIn(rec, other)
      BY <2>1, <2>3, RemovedRecorded
    <3>3. ASSUME NamesApart, AliveIn(rec, name) PROVE FALSE
      <4>1. PICK k \in 1..Len(rec) : rec[k].name = name /\ Lives(rec[k])
        BY <1>1, <3>3 DEF AliveIn
      <4>2. rec[k].owner \in Scripted /\ rec[i].owner \in Scripted
        <5>1. rec[k] \in Events /\ rec[i] \in Events
          BY <1>1, <2>1, ElementOfSeq
        <5> QED BY <5>1 DEF Events
      <4>3. rec[k].owner = rec[i].owner
        BY <2>1, <3>3, <4>1, <4>2 DEF NamesApart, Recorded
      <4>4. k = i
        BY <2>1, <4>1, <4>3 DEF Recorded
      <4> QED BY <2>3, <4>1, <4>4
    <3> QED BY <3>1, <3>2, <3>3 DEF looks
  <2> QED BY <2>2, <2>3
<1> QED BY <1>6, <1>7

\* When no name of a rule is a part of one that follows it, a rule that lets a
\* message pass has found none of its names where it first looked for it.
Unmixed(rule) == \A i, j \in 1..Len(rule) : j < i /\ rule[j] # rule[i] => <<rule[j], rule[i]>> \notin Within

LEMMA CanAccept ==
  ASSUME NEW rule, Len(rule) \in Nat, DOMAIN rule = 1..Len(rule), Unmixed(rule),
         NEW looks, canAccept(rule, looks), NEW i \in 1..Len(rule)
  PROVE  \E j \in 1..Len(rule) : rule[j] = rule[i] /\ ~looks[j]
<1> DEFINE T == {j \in 1..Len(rule) : rule[j] = rule[i]}
<1>1. T \subseteq Nat /\ i \in T
  OBVIOUS
<1> HIDE DEF T
<1>2. PICK j \in T : \A k \in T : j <= k
  BY <1>1, Least
<1>3. j \in 1..Len(rule) /\ rule[j] = rule[i]
  BY DEF T
<1>4. \A k \in 1..(j - 1) : k \in 1..Len(rule) /\ k < j /\ rule[k] # rule[j]
  <2>1. \A k \in 1..(j - 1) : k \in 1..Len(rule) /\ k < j /\ ~(j <= k)
    BY <1>3
  <2> QED BY <1>2, <1>3, <2>1 DEF T
<1>5. ~looks[j]
  BY <1>3, <1>4 DEF canAccept, Unmixed
<1> QED BY <1>3, <1>5

\* Scripts set and unset the events of their connections only.
LEMMA OwnEvent ==
  ASSUME NEW rec, Recorded(rec), NEW c, NEW e
  PROVE  LET found == findEvent(rec, e, c)
         IN  /\ found = {} => \A i \in 1..Len(rec) : ~(rec[i].name = e /\ rec[i].owner = c)
             /\ found # {} => /\ Min(found) \in 1..Len(rec) /\ found = {Min(found)}
                              /\ rec[Min(found)].name = e /\ rec[Min(found)].owner = c
<1>1. rec \in Seq(Events) /\ Len(rec) \in Nat /\ DOMAIN rec = 1..Len(rec)
  BY LenProperties DEF Recorded
<1> DEFINE found == findEvent(rec, e, c)
           owned == {i \in 1..Len(rec) : rec[i].name = e /\ rec[i].owner = c}
<1>2. found = {i \in owned : \A j \in owned : ~(j < i)}
  <2>1. found = {i \in 1..Len(rec) : /\ rec[i].name = e /\ rec[i].owner = c
                                     /\ \A j \in 1..(i - 1) : ~(rec[j].name = e /\ rec[j].owner = c)}
    BY <1>1 DEF findEvent, First
  <2>2. \A i \in 1..Len(rec) : \A j : j \in 1..(i - 1) <=> j \in 1..Len(rec) /\ j < i
    BY <1>1
  <2> QED BY <2>1, <2>2
<1>3. /\ owned \subseteq 1..Len(rec) /\ \A i \in owned : rec[i].name = e /\ rec[i].owner = c
      /\ owned = {} => \A i \in 1..Len(rec) : ~(rec[i].name = e /\ rec[i].owner = c)
  OBVIOUS
<1> HIDE DEF found, owned
<1>5. (found = {} <=> owned = {}) /\ (owned # {} => Min(found) \in owned /\ found = {Min(found)})
  BY <1>1, <1>2, <1>3, FirstOf
<1> QED BY <1>3, <1>5 DEF found

LEMMA SetRecorded ==
  ASSUME NEW rec, Recorded(rec), NEW c \in Scripted, NEW e \in Raises[c]
  PROVE  Recorded(setEvent(rec, e, c, Lifetime))
<1>1. rec \in Seq(Events) /\ Len(rec) \in Nat /\ DOMAIN rec = 1..Len(rec)
  BY LenProperties DEF Recorded
<1> DEFINE found == findEvent(rec, e, c)
           event == Event(e, c, Lifetime)
<1>2. event \in Events /\ event.name = e /\ event.owner = c
  BY PortMonitorAssumption DEF Event, Events, Names
<1>3. /\ found = {} => \A i \in 1..Len(rec) : ~(rec[i].name = e /\ rec[i].owner = c)
      /\ found # {} => /\ Min(found) \in 1..Len(rec) /\ found = {Min(found)}
                       /\ rec[Min(found)].name = e /\ rec[Min(found)].owner = c
  BY OwnEvent
<1>4. setEvent(rec, e, c, Lifetime) =
        IF found = {} THEN Append(rec, event) ELSE [i \in DOMAIN rec |-> IF i \in found THEN event ELSE rec[i]]
  BY DEF setEvent
<1> HIDE DEF found, event
<1>5. CASE found = {}
  <2> DEFINE s == Append(rec, event)
  <2>1. /\ s \in Seq(Events) /\ Len(s) = Len(rec) + 1
        /\ \A i \in 1..Len(rec) : s[i] = rec[i]
        /\ s[Len(rec) + 1] = event
    BY <1>1, <1>2, AppendProperties
  <2>2. \A i \in 1..(Len(rec) + 1) : i \in 1..Len(rec) \/ i = Len(rec) + 1
    BY <1>1
  <2> HIDE DEF s
  <2>3. \A i \in 1..Len(s) : s[i].name \in Raises[s[i].owner]
    BY <1>2, <2>1, <2>2 DEF Recorded
  <2>4. \A i, j \in 1..Len(s) : s[i].owner = s[j].owner /\ s[i].name = s[j].name => i = j
    BY <1>2, <1>3, <1>5, <2>1, <2>2 DEF Recorded
  <2>5. Recorded(s)
    BY <2>1, <2>3, <2>4 DEF Recorded
  <2> QED BY <1>4, <1>5, <2>5 DEF s
<1>6. CASE found # {}
  <2> DEFINE s == [i \in DOMAIN rec |-> IF i \in found THEN event ELSE rec[i]]
  <2>1. /\ s \in Seq(Events) /\ Len(s) = Len(rec)
        /\ \A i \in 1..Len(rec) : s[i] = event \/ s[i] = rec[i]
    BY <1>1, <1>2, ElementOfSeq
  <2>2. \A i \in 1..Len(rec) : s[i].owner = rec[i].owner /\ s[i].name = rec[i].name
    BY <1>1, <1>2, <1>3, <1>6
  <2> HIDE DEF s
  <2>3. \A i \in 1..Len(s) : s[i].name \in Raises[s[i].owner]
    BY <1>2, <2>1, <2>2 DEF Recorded
  <2>4. \A i, j \in 1..Len(s) : s[i].owner = s[j].owner /\ s[i].name = s[j].name => i = j
    BY <2>1, <2>2 DEF Recorded
  <2>5. Recorded(s)
    BY <2>1, <2>3, <2>4 DEF Recorded
  <2> QED BY <1>4, <1>6, <2>5 DEF s
<1> QED BY <1>5, <1>6

LEMMA UnsetRecorded ==
  ASSUME NEW rec, Recorded(rec), NEW c, NEW e
  PROVE  Recorded(unsetEvent(rec, e, c))
<1> DEFINE found == findEvent(rec, e, c)
<1>1. found # {} => Min(found) \in 1..Len(rec)
  BY OwnEvent
<1>2. unsetEvent(rec, e, c) = IF found = {} THEN rec ELSE RemoveAt(rec, Min(found))
  BY DEF unsetEvent
<1> HIDE DEF found
<1> QED BY <1>1, <1>2, RemovedRecorded

LEMMA AgedRecorded ==
  ASSUME NEW rec, Recorded(rec)
  PROVE  Recorded(Aged(rec))
<1>1. rec \in Seq(Events) /\ Len(rec) \in Nat /\ DOMAIN rec = 1..Len(rec)
      /\ \A i \in 1..Len(rec) : rec[i] \in Events
  BY LenProperties, ElementOfSeq DEF Recorded
<1>2. \A e \in Events : e.left > 0 => /\ [e EXCEPT !.left = @ - 1] \in Events
                                      /\ [e EXCEPT !.left = @ - 1].name = e.name
                                      /\ [e EXCEPT !.left = @ - 1].owner = e.owner
  BY DEF Events, Forever
<1> DEFINE s == Aged(rec)
<1>3. /\ s \in Seq(Events) /\ Len(s) = Len(rec)
      /\ \A i \in 1..Len(rec) : s[i].name = rec[i].name /\ s[i].owner = rec[i].owner
  BY <1>1, <1>2 DEF Aged
<1> HIDE DEF s
<1>4. Recorded(s)
  BY <1>3 DEF Recorded
<1> QED BY <1>4 DEF s

\* Every event of every script is recorded at most once.
Pairs == {p \in (UNION Range(Raises)) \X Connections : p[1] \in Raises[p[2]]}

LEMMA PairsFinite == IsFiniteSet(Pairs) /\ Cardinality(Pairs) \in Nat
<1>1. IsFiniteSet(Range(Raises)) /\ \A S \in Range(Raises) : IsFiniteSet(S)
  <2>1. Range(Raises) = {Raises[c] : c \in Connections}
    BY PortMonitorAssumption DEF Range
  <2> DEFINE f == [c \in Connections |-> Raises[c]]
  <2>2. f \in Surjection(Connections, {Raises[c] : c \in Connections})
    BY DEF Surjection
  <2> HIDE DEF f
  <2>3. IsFiniteSet({Raises[c] : c \in Connections})
    BY <2>2, PortMonitorAssumption, FS_Surjection
  <2> QED BY <2>1, <2>3, PortMonitorAssumption
<1>2. IsFiniteSet((UNION Range(Raises)) \X Connections)
  BY <1>1, PortMonitorAssumption, FS_UNION, FS_Product
<1>3. Pairs \subseteq (UNION Range(Raises)) \X Connections
  BY DEF Pairs
<1> QED BY <1>2, <1>3, FS_Subset, FS_CardinalityType

LEMMA RecordedFits ==
  ASSUME NEW rec, Recorded(rec)
  PROVE  Len(rec) <= Cardinality(Pairs)
<1>1. rec \in Seq(Events) /\ Len(rec) \in Nat
  BY LenProperties DEF Recorded
<1>2. IsFiniteSet(Pairs) /\ Cardinality(Pairs) \in Nat
  BY PairsFinite
<1>3. IsFiniteSet(1..Len(rec)) /\ Cardinality(1..Len(rec)) = Len(rec)
  <2>1. 1 \in Int /\ Len(rec) \in Int
    BY <1>1
  <2>2. /\ IsFiniteSet(1..Len(rec))
        /\ Cardinality(1..Len(rec)) = IF 1 > Len(rec) THEN 0 ELSE Len(rec) - 1 + 1
    BY <2>1, FS_Interval
  <2> QED BY <1>1, <2>2
<1> DEFINE f == [i \in 1..Len(rec) |-> <<rec[i].name, rec[i].owner>>]
<1>4. f \in [1..Len(rec) -> Pairs]
  <2> SUFFICES ASSUME NEW i \in 1..Len(rec) PROVE <<rec[i].name, rec[i].owner>> \in Pairs
    OBVIOUS
  <2>1. rec[i].owner \in Connections
    <3>1. rec[i] \in Events
      BY <1>1, ElementOfSeq
    <3> QED BY <3>1 DEF Events, Scripted
  <2>2. rec[i].name \in Raises[rec[i].owner]
    BY DEF Recorded
  <2>3. Raises[rec[i].owner] \in Range(Raises)
    BY <2>1, PortMonitorAssumption DEF Range
  <2> QED BY <2>1, <2>2, <2>3 DEF Pairs
<1>5. \A i, j \in 1..Len(rec) : f[i] = f[j] => i = j
  BY DEF Recorded
<1> HIDE DEF f
<1> QED BY <1>1, <1>2, <1>3, <1>4, <1>5, FS_PigeonHole

-----------------------------------------------------------------------------
(* The invariant, without the events.                                      *)

Callbacks == {"create", "accept", "update", "trig", "setparam", "getparam"}

Typed ==
  /\ pc \in [Connections -> Places]
  /\ bReady \in [Connections -> BOOLEAN]
  /\ flags \in [Connections -> SUBSET Callbacks]
  /\ \A c \in Connections : flags[c] \subseteq Script[c]
  /\ stack \in [Connections -> Seq(Values)]
  /\ \A c \in Connections : ToSet(stack[c]) \subseteq {"library", "PortMonitor", "string"}
  /\ failed \in [Connections -> 0..MaxFailures]
  /\ mutex \in [Connections -> Connections \cup {Nobody}]
  /\ peers \subseteq Connections
  /\ peersLock \in Connections \cup {Nobody}
  /\ left \in [Connections -> SUBSET Connections]
  /\ peer \in [Connections -> Connections \cup {Nobody}]
  /\ received \in [Connections -> Nat]
  /\ \A c \in Connections : received[c] \in 0..MaxMessages[c]

\* A message that has been received is at hand until it is delivered, or lost
\* with the copy that has failed.
Received == {"electing", "triggering", "inTrig", "updating", "inUpdate"}

Whole ==
  /\ reader \in [Connections -> Seq(Nat)]
  /\ con \in [Connections -> [writer : Seq(Nat), reader : Seq(Nat)]]
  /\ localReader \in [Connections -> {"reader", "con"}]
  /\ unwritten \in [Connections -> BOOLEAN]
  /\ delivered \in [Connections -> Seq(Nat)]
  /\ \A c \in Connections : pc[c] \in {"accepting", "inAccept"} =>
       localReader[c] = "reader" /\ reader[c] = <<received[c]>>
  /\ \A c \in Connections : pc[c] \in Received =>
       AtHand(c) = <<received[c]>> \/ (unwritten[c] /\ AtHand(c) = <<>>)

\* The names of a rule are looked up once all peers have been triggered.
Looking ==
  /\ looked \in [Connections -> Seq(BOOLEAN)]
  /\ \A c \in Connections : Len(looked[c]) <= Len(Constraint(c))
  /\ \A c \in Connections : ~Deciding(c) => looked[c] = <<>>

\* Who holds which lock, and where it is known from the place of a thread.
Electing(c) == pc[c] \in {"triggering", "inTrig"}

Locking ==
  /\ \A c \in Connections : Electing(c) <=> peersLock = c
  /\ \A c \in Connections : Electing(c) => left[c] \subseteq peers
  /\ \A c \in Connections : pc[c] = "inTrig" => peer[c] \in peers /\ mutex[peer[c]] = c
  /\ \A c \in Connections : pc[c] \in {"inAccept", "inUpdate"} => mutex[c] = c

\* The stack of a script that is ready, and of one that is still to be loaded.
Failures(n) == [i \in 1..n |-> "string"]

Stacked ==
  \A c \in Connections :
    /\ pc[c] \in {"out", "loading"} => stack[c] = Lua!New /\ failed[c] = 0
    /\ c \notin SharedLibs /\ pc[c] \notin {"out", "loading", "leaving"} => stack[c] # Lua!Closed
    /\ Loaded(c) => stack[c] = Lua!Base \o Failures(failed[c])

LEMMA ConstraintTyped ==
  ASSUME NEW c \in Connections
  PROVE  /\ Constraint(c) \in Seq(STRING) /\ Len(Constraint(c)) \in Nat
         /\ DOMAIN Constraint(c) = 1..Len(Constraint(c))
<1>1. Rule[c] \in Seq(STRING) /\ <<>> \in Seq(STRING)
  BY PortMonitorAssumption
<1>2. Constraint(c) \in Seq(STRING)
  BY <1>1 DEF Constraint
<1> QED BY <1>2, LenProperties

-----------------------------------------------------------------------------
(* Steps.                                                                  *)

\* The operations that call a script by name leave all stacks as they are.
LEMMA OperationsKeepStacks ==
  ASSUME Typed, Locking, NEW c \in Connections,
         acceptData(c) \/ peerTrigged(c) \/ updateData(c) \/ MonitorTrigger(c) \/ CarrierParams(c)
  PROVE  stack' = stack
<1>1. /\ stack \in [Connections -> Seq(Values)]
      /\ \A p \in Connections : [stack EXCEPT ![p] = stack[p]] = stack
  BY DEF Typed
<1>2. \A p \in Connections :
        /\ \A r \in Lua!acceptData(stack[p], Script[p]) : r.stack = stack[p]
        /\ \A r \in Lua!updateData(stack[p], Script[p]) : r.stack = stack[p]
        /\ \A r \in Lua!setParams(stack[p], Script[p]) : r.stack = stack[p]
        /\ \A r \in Lua!getParams(stack[p], Script[p]) : r.stack = stack[p]
        /\ \A r \in Lua!peerTrigged(stack[p], Script[p]) : r.stack = stack[p]
  BY <1>1, OperationRestores
<1>3. ASSUME NEW p \in Connections, trig(p) PROVE stack' = stack
  BY <1>1, <1>2, <1>3 DEF trig
<1>4. CASE acceptData(c)
  <2>1. PICK r \in Accepts(c) : stack' = [stack EXCEPT ![c] = r.stack]
    BY <1>4 DEF acceptData
  <2>2. r.stack = stack[c]
    BY <1>2, <2>1 DEF Accepts, Lua!Outcome
  <2> QED BY <1>1, <2>1, <2>2
<1>5. CASE peerTrigged(c)
  <2>1. peer[c] \in Connections
    BY <1>5 DEF peerTrigged, Goes, Locking, Typed
  <2> QED BY <1>3, <1>5, <2>1 DEF peerTrigged
<1>6. CASE updateData(c)
  <2>1. stack' = stack \/ \E r \in Updates(c) : stack' = [stack EXCEPT ![c] = r.stack]
    BY <1>6 DEF updateData
  <2>2. \A r \in Updates(c) : r.stack = stack[c]
    BY <1>2 DEF Updates, Lua!Outcome
  <2> QED BY <1>1, <2>1, <2>2
<1>7. CASE MonitorTrigger(c)
  BY <1>3, <1>7 DEF MonitorTrigger
<1>8. CASE CarrierParams(c)
  BY <1>1, <1>2, <1>8 DEF CarrierParams
<1> QED BY <1>4, <1>5, <1>6, <1>7, <1>8

LEMMA CopiedHolds ==
  ASSUME Whole, NEW c \in Connections, NEW data \in Seq(Nat)
  PROVE  /\ \A written \in BOOLEAN : Copied(c, data, written) \in [writer : Seq(Nat), reader : Seq(Nat)]
         /\ Copied(c, data, TRUE).reader = data
         /\ Copied(c, data, FALSE).reader = con[c].reader
<1>1. con[c] \in [writer : Seq(Nat), reader : Seq(Nat)]
  BY DEF Whole
<1>2. <<>> \o data = data
  BY ConcatEmptySeq
<1> QED BY <1>1, <1>2 DEF Copied, Dummy!reset, Dummy!write, Dummy!getReader

\* A thread that does not touch the data goes on with the message it has.
LEMMA WholeKept ==
  ASSUME Whole, UNCHANGED dataVars,
         \A c \in Connections :
           /\ pc'[c] \in {"accepting", "inAccept"} => pc[c] \in {"accepting", "inAccept"}
           /\ pc'[c] \in Received => pc[c] \in Received
  PROVE  Whole'
BY DEF Whole, dataVars, AtHand

LEMMA WholeStep ==
  ASSUME Typed, Whole, Next
  PROVE  Whole'
<1>1. pc \in [Connections -> Places] /\ received \in [Connections -> Nat]
  BY DEF Typed
<1>2. CASE TimePasses
  BY <1>2, WholeKept DEF TimePasses
<1> SUFFICES ASSUME NEW c \in Connections,
                    Acts(c)
             PROVE  Whole'
  BY <1>2 DEF Next
<1>3. CASE configure(c) \/ load(c) \/ MonitorTrigger(c) \/ CarrierParams(c) \/ LockAccept(c) \/ Elect(c)
           \/ (\E p \in Connections : LockPeer(c, p)) \/ peerTrigged(c) \/ Look(c) \/ Decide(c) \/ LockUpdate(c)
  <2>1. UNCHANGED dataVars
    BY <1>3 DEF configure, load, MonitorTrigger, CarrierParams, LockAccept, Elect, LockPeer, peerTrigged,
                Look, Decide, LockUpdate
  <2>2. \/ pc' = pc
        \/ \E to \in {"loading", "idle", "leaving"} : pc' = [pc EXCEPT ![c] = to]
        \/ pc[c] = "accepting" /\ pc' = [pc EXCEPT ![c] = "inAccept"]
        \/ /\ pc[c] \in Received
           /\ \E to \in {"triggering", "inTrig", "inUpdate", "updating"} : pc' = [pc EXCEPT ![c] = to]
    BY <1>3 DEF configure, load, MonitorTrigger, CarrierParams, LockAccept, Elect, LockPeer, peerTrigged,
                Look, Decide, LockUpdate, Goes, Received
  <2>3. \A d \in Connections :
          /\ pc'[d] \in {"accepting", "inAccept"} => pc[d] \in {"accepting", "inAccept"}
          /\ pc'[d] \in Received => pc[d] \in Received
    BY <1>1, <2>2 DEF Received
  <2> QED BY <2>1, <2>3, WholeKept
\* The steps that touch the data of c leave that of the others.
<1> DEFINE Others ==
             \A d \in Connections : d # c =>
               /\ reader'[d] = reader[d] /\ con'[d] = con[d] /\ localReader'[d] = localReader[d]
               /\ unwritten'[d] = unwritten[d] /\ received'[d] = received[d] /\ pc'[d] = pc[d]
           InType ==
             /\ reader' \in [Connections -> Seq(Nat)]
             /\ con' \in [Connections -> [writer : Seq(Nat), reader : Seq(Nat)]]
             /\ localReader' \in [Connections -> {"reader", "con"}]
             /\ unwritten' \in [Connections -> BOOLEAN]
             /\ delivered' \in [Connections -> Seq(Nat)]
           Here ==
             /\ pc'[c] \in {"accepting", "inAccept"} => localReader'[c] = "reader" /\ reader'[c] = <<received'[c]>>
             /\ pc'[c] \in Received => (AtHand(c)' = <<received'[c]>> \/ (unwritten'[c] /\ AtHand(c)' = <<>>))
<1>4. ASSUME InType, Others, Here
      PROVE  Whole'
  <2>1. ASSUME NEW d \in Connections, d # c
        PROVE  /\ pc'[d] \in {"accepting", "inAccept"} =>
                    localReader'[d] = "reader" /\ reader'[d] = <<received'[d]>>
               /\ pc'[d] \in Received => AtHand(d)' = <<received'[d]>> \/ (unwritten'[d] /\ AtHand(d)' = <<>>)
    <3>1. /\ reader'[d] = reader[d] /\ localReader'[d] = localReader[d]
          /\ unwritten'[d] = unwritten[d] /\ received'[d] = received[d] /\ pc'[d] = pc[d]
          /\ AtHand(d)' = AtHand(d)
      BY <1>4, <2>1 DEF AtHand
    <3>2. /\ pc[d] \in {"accepting", "inAccept"} => localReader[d] = "reader" /\ reader[d] = <<received[d]>>
          /\ pc[d] \in Received => AtHand(d) = <<received[d]>> \/ (unwritten[d] /\ AtHand(d) = <<>>)
      BY DEF Whole
    <3> QED BY <3>1, <3>2
  <2>2. \A d \in Connections : pc'[d] \in {"accepting", "inAccept"} =>
          localReader'[d] = "reader" /\ reader'[d] = <<received'[d]>>
    BY <1>4, <2>1
  <2>3. \A d \in Connections : pc'[d] \in Received =>
          AtHand(d)' = <<received'[d]>> \/ (unwritten'[d] /\ AtHand(d)' = <<>>)
    BY <1>4, <2>1
  <2> QED BY <1>4, <2>2, <2>3 DEF Whole
<1>5. /\ reader[c] \in Seq(Nat) /\ con[c] \in [writer : Seq(Nat), reader : Seq(Nat)]
      /\ localReader[c] \in {"reader", "con"} /\ unwritten[c] \in BOOLEAN /\ delivered[c] \in Seq(Nat)
      /\ received[c] \in Nat /\ <<>> \in Seq(Nat)
      /\ AtHand(c) \in Seq(Nat)
  BY <1>1 DEF Whole, AtHand
<1>6. /\ reader \in [Connections -> Seq(Nat)] /\ con \in [Connections -> [writer : Seq(Nat), reader : Seq(Nat)]]
      /\ localReader \in [Connections -> {"reader", "con"}] /\ unwritten \in [Connections -> BOOLEAN]
      /\ delivered \in [Connections -> Seq(Nat)]
  BY DEF Whole
<1>7. CASE disconnect(c)
  <2>1. Dummy!DummyConnector2 \in [writer : Seq(Nat), reader : Seq(Nat)]
    BY <1>5 DEF Dummy!DummyConnector2
  <2>2. /\ reader' = [reader EXCEPT ![c] = <<>>] /\ con' = [con EXCEPT ![c] = Dummy!DummyConnector2]
        /\ localReader' = [localReader EXCEPT ![c] = "reader"] /\ unwritten' = [unwritten EXCEPT ![c] = FALSE]
        /\ delivered' = [delivered EXCEPT ![c] = <<>>]
        /\ pc' = [pc EXCEPT ![c] = "out"] /\ received' = received
    BY <1>7 DEF disconnect, Unloads
  <2> HIDE DEF Dummy!DummyConnector2
  <2>3. InType
    BY <1>5, <1>6, <2>1, <2>2
  <2>4. Others
    BY <1>1, <1>6, <2>2
  <2>5. Here
    BY <1>1, <2>2 DEF Received
  <2> QED BY <1>4, <2>3, <2>4, <2>5
<1>8. CASE Receive(c)
  <2> DEFINE n == received[c] + 1
  <2>1. n \in Nat /\ <<n>> \in Seq(Nat)
    BY <1>5
  <2>2. PICK to \in {"accepting", "electing"} :
          /\ pc' = [pc EXCEPT ![c] = to] /\ received' = [received EXCEPT ![c] = n]
          /\ reader' = [reader EXCEPT ![c] = <<n>>] /\ con' = con
          /\ localReader' = [localReader EXCEPT ![c] = "reader"] /\ unwritten' = [unwritten EXCEPT ![c] = FALSE]
          /\ delivered' = [delivered EXCEPT ![c] = <<>>]
    BY <1>1, <1>8 DEF Receive, Goes
  <2> HIDE DEF n
  <2>3. InType
    BY <1>5, <1>6, <2>1, <2>2
  <2>4. Others
    BY <1>1, <1>6, <2>2
  <2>5. Here
    <3>1. reader'[c] = <<n>> /\ localReader'[c] = "reader" /\ received'[c] = n
      BY <1>1, <1>6, <2>2
    <3> QED BY <3>1 DEF AtHand
  <2> QED BY <1>4, <2>3, <2>4, <2>5
<1>9. CASE acceptData(c)
  <2>1. pc[c] = "inAccept" /\ localReader[c] = "reader" /\ reader[c] = <<received[c]>>
    BY <1>9 DEF acceptData, Whole
  <2>2. PICK r \in Accepts(c), reads \in BOOLEAN, written \in BOOLEAN :
          /\ pc' = [pc EXCEPT ![c] = IF r.value = "yes" THEN "electing" ELSE "idle"]
          /\ reader' = [reader EXCEPT ![c] = IF r.value = "yes" /\ ~reads THEN @ ELSE <<>>]
          /\ IF r.value = "yes" /\ reads
             THEN /\ con' = [con EXCEPT ![c] = Copied(c, reader[c], written)]
                  /\ localReader' = [localReader EXCEPT ![c] = IF written THEN "con" ELSE @]
                  /\ unwritten' = [unwritten EXCEPT ![c] = ~written]
             ELSE UNCHANGED <<con, localReader, unwritten>>
    BY <1>9 DEF acceptData, Goes
  <2>3. received' = received /\ delivered' = delivered
    BY <1>9 DEF acceptData
  <2>4. CASE r.value = "yes" /\ reads
    <3> DEFINE k == Copied(c, reader[c], written)
    <3>1. /\ k \in [writer : Seq(Nat), reader : Seq(Nat)]
          /\ written => k.reader = <<received[c]>>
      BY <1>5, <2>1, CopiedHolds
    <3>2. /\ pc' = [pc EXCEPT ![c] = "electing"] /\ reader' = [reader EXCEPT ![c] = <<>>]
          /\ con' = [con EXCEPT ![c] = k]
          /\ localReader' = [localReader EXCEPT ![c] = IF written THEN "con" ELSE "reader"]
          /\ unwritten' = [unwritten EXCEPT ![c] = ~written]
      BY <2>1, <2>2, <2>4
    <3> HIDE DEF k
    <3>3. InType
      BY <1>5, <1>6, <2>3, <3>1, <3>2
    <3>4. Others
      BY <1>1, <1>6, <2>3, <3>2
    <3>5. Here
      <4>1. /\ pc'[c] = "electing" /\ reader'[c] = <<>> /\ con'[c] = k /\ received'[c] = received[c]
            /\ localReader'[c] = (IF written THEN "con" ELSE "reader") /\ unwritten'[c] = ~written
        BY <1>1, <1>6, <2>3, <3>2
      <4> QED BY <3>1, <4>1 DEF AtHand
    <3> QED BY <1>4, <3>3, <3>4, <3>5
  <2>5. CASE ~(r.value = "yes" /\ reads)
    <3>1. PICK to \in {"electing", "idle"} :
            /\ pc' = [pc EXCEPT ![c] = to]
            /\ reader' = [reader EXCEPT ![c] = IF to = "electing" THEN reader[c] ELSE <<>>]
            /\ UNCHANGED <<con, localReader, unwritten>>
      BY <2>2, <2>5
    <3>2. InType
      BY <1>5, <1>6, <2>3, <3>1
    <3>3. Others
      BY <1>1, <1>6, <2>3, <3>1
    <3>4. Here
      <4>1. /\ pc'[c] = to /\ localReader'[c] = "reader" /\ received'[c] = received[c]
            /\ to = "electing" => reader'[c] = <<received[c]>>
        BY <1>1, <1>6, <2>1, <2>3, <3>1
      <4> QED BY <3>1, <4>1 DEF AtHand, Received
    <3> QED BY <1>4, <3>2, <3>3, <3>4
  <2> QED BY <2>4, <2>5
<1>10. CASE updateData(c)
  <2>1. PICK k \in [writer : Seq(Nat), reader : Seq(Nat)], dl \in Seq(Nat), u \in BOOLEAN :
          /\ con' = [con EXCEPT ![c] = k] /\ delivered' = [delivered EXCEPT ![c] = dl]
          /\ unwritten' = [unwritten EXCEPT ![c] = u]
    <3>1. ASSUME NEW k \in [writer : Seq(Nat), reader : Seq(Nat)]
          PROVE  Dummy!drain(k) \in [writer : Seq(Nat), reader : Seq(Nat)]
      BY <1>5 DEF Dummy!drain
    <3>2. CASE pc[c] = "updating"
      <4>1. /\ con' = [con EXCEPT ![c] = Dummy!drain(con[c])] /\ delivered' = [delivered EXCEPT ![c] = AtHand(c)]
            /\ unwritten' = unwritten
        BY <1>10, <3>2 DEF updateData, Goes
      <4>2. unwritten' = [unwritten EXCEPT ![c] = unwritten[c]]
        BY <1>6, <4>1
      <4> QED BY <1>5, <3>1, <4>1, <4>2
    <3>3. CASE pc[c] # "updating"
      <4>1. PICK reads \in BOOLEAN, written \in BOOLEAN :
              LET copied == Copied(c, AtHand(c), written)
              IN  /\ delivered' = [delivered EXCEPT ![c] = IF written THEN copied.reader
                                                            ELSE IF reads THEN <<>> ELSE AtHand(c)]
                  /\ con' = [con EXCEPT ![c] = Dummy!drain(copied)]
                  /\ unwritten' = [unwritten EXCEPT ![c] = @ \/ (reads /\ ~written)]
        BY <1>10, <3>3 DEF updateData, Goes
      <4>2. Copied(c, AtHand(c), written) \in [writer : Seq(Nat), reader : Seq(Nat)]
        BY <1>5, CopiedHolds
      <4>3. Copied(c, AtHand(c), written).reader \in Seq(Nat)
        BY <4>2
      <4>4. (unwritten[c] \/ (reads /\ ~written)) \in BOOLEAN
        OBVIOUS
      <4> QED BY <1>5, <3>1, <4>1, <4>2, <4>3, <4>4
    <3> QED BY <3>2, <3>3
  <2>2. /\ reader' = [reader EXCEPT ![c] = <<>>] /\ localReader' = localReader /\ received' = received
        /\ pc' = [pc EXCEPT ![c] = "idle"]
    BY <1>10 DEF updateData, Goes
  <2>3. InType
    BY <1>5, <1>6, <2>1, <2>2
  <2>4. Others
    BY <1>1, <1>6, <2>1, <2>2
  <2>5. Here
    BY <1>1, <2>2 DEF Received
  <2> QED BY <1>4, <2>3, <2>4, <2>5
<1> QED BY <1>3, <1>7, <1>8, <1>9, <1>10 DEF Acts, Goes_on

LEMMA LockingStep ==
  ASSUME Typed, Locking, Next
  PROVE  Locking'
<1>1. /\ pc \in [Connections -> Places]
      /\ mutex \in [Connections -> Connections \cup {Nobody}]
      /\ left \in [Connections -> SUBSET Connections]
      /\ peer \in [Connections -> Connections \cup {Nobody}]
      /\ peers \subseteq Connections /\ Nobody \notin Connections
  BY PortMonitorAssumption DEF Typed
<1>2. CASE UNCHANGED <<pc, lockVars>>
  BY <1>2 DEF Locking, Electing, lockVars
<1>3. CASE TimePasses
  BY <1>2, <1>3 DEF TimePasses
<1> SUFFICES ASSUME NEW c \in Connections,
                    Acts(c)
             PROVE  Locking'
  BY <1>3 DEF Next
<1>4. CASE MonitorTrigger(c) \/ CarrierParams(c) \/ Look(c)
  BY <1>2, <1>4 DEF MonitorTrigger, CarrierParams, Look
<1>5. CASE configure(c) \/ disconnect(c)
  <2>1. /\ peersLock = Nobody /\ UNCHANGED <<mutex, peersLock, left, peer>>
        /\ pc' \in {[pc EXCEPT ![c] = "loading"], [pc EXCEPT ![c] = "out"]}
    BY <1>5 DEF configure, disconnect, Goes
  <2> QED BY <1>1, <2>1 DEF Locking, Electing
<1>6. CASE load(c) \/ Receive(c)
  <2>1. /\ pc' \in {[pc EXCEPT ![c] = to] : to \in {"idle", "leaving", "accepting", "electing"}}
        /\ pc[c] \in {"loading", "idle"}
        /\ UNCHANGED <<mutex, peers, peersLock, left, peer>>
    BY <1>6 DEF load, Receive, Goes, lockVars
  <2> QED BY <1>1, <2>1 DEF Locking, Electing
<1>7. CASE LockAccept(c) \/ LockUpdate(c)
  <2>1. /\ pc' \in {[pc EXCEPT ![c] = to] : to \in {"inAccept", "inUpdate"}}
        /\ pc[c] \in {"accepting", "updating"}
        /\ mutex[c] = Nobody /\ mutex' = [mutex EXCEPT ![c] = c]
        /\ UNCHANGED <<peers, peersLock, left, peer>>
    BY <1>7 DEF LockAccept, LockUpdate, Goes, Locks
  <2> QED BY <1>1, <2>1 DEF Locking, Electing
<1>8. CASE acceptData(c) \/ updateData(c)
  <2>1. /\ pc' \in {[pc EXCEPT ![c] = to] : to \in {"electing", "idle"}}
        /\ \/ pc[c] \in {"inAccept", "inUpdate"} /\ mutex' = [mutex EXCEPT ![c] = Nobody]
           \/ pc[c] = "updating" /\ mutex' = mutex
        /\ UNCHANGED <<peers, peersLock, left, peer>>
    BY <1>8 DEF acceptData, updateData, Goes, Unlocks
  <2> QED BY <1>1, <2>1 DEF Locking, Electing
<1>9. CASE Elect(c)
  <2>1. /\ peersLock = Nobody /\ peersLock' = c
        /\ pc' = [pc EXCEPT ![c] = "triggering"] /\ left' = [left EXCEPT ![c] = peers \ {c}]
        /\ UNCHANGED <<mutex, peers, peer>>
    BY <1>9 DEF Elect, Goes
  <2> QED BY <1>1, <2>1 DEF Locking, Electing
<1>10. ASSUME NEW p \in Connections, LockPeer(c, p) PROVE Locking'
  <2>1. /\ p \in left[c] /\ pc[c] = "triggering" /\ pc' = [pc EXCEPT ![c] = "inTrig"]
        /\ mutex[p] = Nobody /\ mutex' = [mutex EXCEPT ![p] = c]
        /\ left' = [left EXCEPT ![c] = left[c] \ {p}] /\ peer' = [peer EXCEPT ![c] = p]
        /\ UNCHANGED <<peers, peersLock>>
    BY <1>10 DEF LockPeer, Goes, Locks
  <2> QED BY <1>1, <2>1 DEF Locking, Electing
<1>11. CASE peerTrigged(c)
  <2>1. /\ pc[c] = "inTrig" /\ pc' = [pc EXCEPT ![c] = "triggering"]
        /\ mutex' = [mutex EXCEPT ![peer[c]] = Nobody] /\ peer' = [peer EXCEPT ![c] = Nobody]
        /\ UNCHANGED <<peers, peersLock, left>>
    BY <1>11 DEF peerTrigged, Goes, Unlocks
  <2> QED BY <1>1, <2>1 DEF Locking, Electing
<1>12. CASE Decide(c)
  <2>1. /\ pc[c] = "triggering" /\ peersLock' = Nobody
        /\ pc' \in {[pc EXCEPT ![c] = to] : to \in {"updating", "idle"}}
        /\ UNCHANGED <<mutex, peers, left, peer>>
    BY <1>12 DEF Decide, Deciding, Goes
  <2> QED BY <1>1, <2>1 DEF Locking, Electing
<1> QED BY <1>4, <1>5, <1>6, <1>7, <1>8, <1>9, <1>10, <1>11, <1>12 DEF Acts, Goes_on

LEMMA OneMoreFailure ==
  ASSUME NEW n \in Nat
  PROVE  /\ Append(Lua!Base \o Failures(n), "string") = Lua!Base \o Failures(n + 1)
         /\ Lua!Base \in Seq(Values) /\ Failures(n) \in Seq(Values)
<1>1. "string" \in Values /\ Lua!Base \in Seq(Values)
  BY DEF Values, Lua!Base, Lua!New
<1>2. \A m \in Nat : Failures(m) \in Seq(Values) /\ Len(Failures(m)) = m
  BY <1>1, Copies DEF Failures
<1>3. Append(Failures(n), "string") = Failures(n + 1)
  <2> DEFINE a == Append(Failures(n), "string")
             b == Failures(n + 1)
  <2>1. /\ a \in Seq(Values) /\ b \in Seq(Values) /\ Len(a) = n + 1 /\ Len(b) = n + 1
        /\ \A i \in 1..n : a[i] = Failures(n)[i]
        /\ a[n + 1] = "string"
    BY <1>1, <1>2, AppendProperties
  <2>2. \A i \in 1..(n + 1) : b[i] = "string" /\ a[i] = "string"
    BY <2>1 DEF Failures
  <2> HIDE DEF a, b
  <2> QED BY <2>1, <2>2, SeqEqual DEF a, b
<1>4. Append(Lua!Base \o Failures(n), "string") = Lua!Base \o Append(Failures(n), "string")
  <2>1. /\ Lua!Base \o Failures(n) \in Seq(Values) /\ <<"string">> \in Seq(Values)
        /\ Append(Failures(n), "string") = Failures(n) \o <<"string">>
    BY <1>1, <1>2, ConcatProperties, AppendIsConcat
  <2>2. Append(Lua!Base \o Failures(n), "string") = (Lua!Base \o Failures(n)) \o <<"string">>
    BY <1>1, <2>1, AppendIsConcat
  <2>3. (Lua!Base \o Failures(n)) \o <<"string">> = Lua!Base \o (Failures(n) \o <<"string">>)
    <3>1. Failures(n) \in Seq(Values)
      BY <1>2
    <3> QED BY <1>1, <2>1, <3>1, ConcatAssociative
  <2> QED BY <2>1, <2>2, <2>3
<1>5. Failures(n) \in Seq(Values)
  BY <1>2
<1> QED BY <1>1, <1>3, <1>4, <1>5

\* What the evaluation of a rule leaves and counts.
LEMMA RuleEvaluated ==
  ASSUME Typed, NEW c \in Connections, NEW r \in Evaluates(c)
  PROVE  \/ r.stack = stack[c] /\ r.value # Lua!Failed
         \/ /\ r.stack = Append(stack[c], "string") /\ r.value = Lua!Failed
            /\ c \notin SharedLibs /\ failed[c] < MaxFailures
BY DEF Evaluates, Constraint, Lua!canAccept, Lua!Outcome, Lua!Failed

\* What load leaves of a connection that has not been loaded.
LEMMA LoadKeeps ==
  ASSUME Typed, Stacked, NEW c \in Connections, pc[c] = "loading", NEW l \in Loads(c)
  PROVE  /\ l.stack \in Seq(Values) /\ ToSet(l.stack) \subseteq {"library", "PortMonitor", "string"}
         /\ c \notin SharedLibs => l.stack \in {Lua!Closed, Lua!Base} /\ (l.ready => l.stack = Lua!Base)
         /\ l.ready \in BOOLEAN /\ l.flags \subseteq Script[c]
<1>1. /\ Lua!New \in Seq(Values) /\ Lua!Base \in Seq(Values) /\ Lua!Closed \in Seq(Values)
      /\ \A s \in {Lua!New, Lua!Base, Lua!Closed} :
           ToSet(s) \subseteq {"library", "PortMonitor", "string"}
  <2>1. Lua!Base = <<"library", "PortMonitor">>
    <3> DEFINE short == <<"library">>
               long == <<"library", "PortMonitor">>
    <3>1. short \in Seq(Values) /\ long \in Seq(Values) /\ Len(short) = 1 /\ Len(long) = 2
          /\ short[1] = "library" /\ long[1] = "library" /\ long[2] = "PortMonitor"
      BY DEF Values
    <3>2. /\ Append(short, "PortMonitor") \in Seq(Values) /\ Len(Append(short, "PortMonitor")) = 2
          /\ Append(short, "PortMonitor")[1] = "library" /\ Append(short, "PortMonitor")[2] = "PortMonitor"
      BY <3>1, AppendProperties DEF Values
    <3> HIDE DEF short, long
    <3>3. Append(short, "PortMonitor") = long
      BY <3>1, <3>2, SeqEqual
    <3> QED BY <3>3 DEF Lua!Base, Lua!New, short, long
  <2> QED BY <2>1 DEF Values, Lua!New, Lua!Closed, ToSet
<1>2. stack[c] = Lua!New
  BY DEF Stacked
<1>3. CASE c \in SharedLibs
  BY <1>1, <1>3 DEF Loads
<1>4. CASE c \notin SharedLibs
  BY <1>1, <1>2, <1>4, LoadLeaves DEF Loads
<1> QED BY <1>3, <1>4

LEMMA StackedStep ==
  ASSUME Typed, Locking, Stacked, Next
  PROVE  Stacked'
<1>1. /\ pc \in [Connections -> Places]
      /\ stack \in [Connections -> Seq(Values)] /\ failed \in [Connections -> 0..MaxFailures]
      /\ MaxFailures \in Nat
  BY PortMonitorAssumption DEF Typed
<1>2. ASSUME UNCHANGED <<stack, failed>>,
             \A d \in Connections : /\ pc'[d] \in {"out", "loading"} <=> pc[d] \in {"out", "loading"}
                                    /\ pc'[d] = "leaving" <=> pc[d] = "leaving"
      PROVE  Stacked'
  BY <1>2 DEF Stacked, Loaded
<1>3. CASE TimePasses
  BY <1>2, <1>3 DEF TimePasses, luaVars
<1> SUFFICES ASSUME NEW c \in Connections,
                    Acts(c)
             PROVE  Stacked'
  BY <1>3 DEF Next
<1>4. CASE configure(c) \/ Receive(c) \/ LockAccept(c) \/ Elect(c)
           \/ (\E p \in Connections : LockPeer(c, p)) \/ Look(c) \/ LockUpdate(c)
  BY <1>1, <1>2, <1>4 DEF configure, Receive, LockAccept, Elect, LockPeer, Look, LockUpdate, Goes, luaVars
<1>5. CASE acceptData(c) \/ peerTrigged(c) \/ updateData(c) \/ MonitorTrigger(c) \/ CarrierParams(c)
  <2>1. UNCHANGED <<stack, failed>>
    BY <1>5, OperationsKeepStacks
    DEF acceptData, peerTrigged, updateData, MonitorTrigger, CarrierParams
  <2>2. pc' = pc \/ /\ \E to \in {"electing", "idle", "triggering"} : pc' = [pc EXCEPT ![c] = to]
                    /\ pc[c] \in {"inAccept", "inTrig", "inUpdate", "updating"}
    BY <1>5 DEF acceptData, peerTrigged, updateData, MonitorTrigger, CarrierParams, Goes
  <2> QED BY <1>1, <1>2, <2>1, <2>2
<1>6. CASE load(c)
  <2>1. PICK l \in Loads(c) :
          /\ Goes(c, "loading", IF l.ready THEN "idle" ELSE "leaving")
          /\ stack' = [stack EXCEPT ![c] = l.stack]
    BY <1>6 DEF load
  <2>2. failed' = failed /\ pc[c] = "loading" /\ failed[c] = 0
    BY <1>6, <2>1 DEF load, Stacked
  <2>3. c \notin SharedLibs => /\ l.stack = Lua!Closed \/ l.stack = Lua!Base \o Failures(0)
                               /\ l.ready => l.stack # Lua!Closed
    <3>1. Lua!Base \o Failures(0) = Lua!Base
      BY OneMoreFailure, ConcatEmptySeq DEF Failures
    <3>2. Lua!Base # Lua!Closed
      <4>1. Lua!New \in Seq(Values) /\ "PortMonitor" \in Values /\ Len(Lua!New) \in Nat
        BY DEF Lua!New, Values
      <4>2. Len(Append(Lua!New, "PortMonitor")) = Len(Lua!New) + 1
        BY <4>1, AppendProperties
      <4>3. Len(Lua!Closed) = 0
        BY DEF Lua!Closed
      <4> QED BY <4>1, <4>2, <4>3 DEF Lua!Base
    <3> QED BY <2>2, <3>1, <3>2, LoadKeeps
  <2>4. \A d \in Connections \ {c} : pc'[d] = pc[d] /\ stack'[d] = stack[d]
    BY <1>1, <2>1 DEF Goes
  <2>5. pc'[c] = (IF l.ready THEN "idle" ELSE "leaving") /\ stack'[c] = l.stack
    BY <1>1, <2>1 DEF Goes
  <2>6. l.ready \in BOOLEAN
    BY <2>2, LoadKeeps
  <2> QED BY <1>1, <2>2, <2>3, <2>4, <2>5, <2>6 DEF Stacked, Loaded
<1>7. CASE disconnect(c)
  BY <1>1, <1>7 DEF disconnect, Unloads, Stacked, Loaded
<1>8. CASE Decide(c)
  <2>1. PICK r \in Evaluates(c) :
          /\ Goes(c, "triggering", IF r.value = "yes" THEN "updating" ELSE "idle")
          /\ stack' = [stack EXCEPT ![c] = r.stack]
          /\ failed' = [failed EXCEPT ![c] = IF r.value = Lua!Failed THEN @ + 1 ELSE @]
    BY <1>8 DEF Decide
  <2>2. \/ r.stack = stack[c] /\ r.value # Lua!Failed
        \/ r.stack = Append(stack[c], "string") /\ r.value = Lua!Failed
    BY <2>1, RuleEvaluated
  <2>3. /\ \A d \in Connections \ {c} : stack'[d] = stack[d] /\ failed'[d] = failed[d] /\ pc'[d] = pc[d]
        /\ pc[c] = "triggering" /\ pc'[c] \in {"updating", "idle"}
    BY <1>1, <2>1 DEF Goes
  <2>4. \/ stack'[c] = stack[c] /\ failed'[c] = failed[c]
        \/ stack'[c] = Append(stack[c], "string") /\ failed'[c] = failed[c] + 1
    BY <1>1, <2>1, <2>2
  <2>5. c \notin SharedLibs => Loaded(c) /\ stack[c] = Lua!Base \o Failures(failed[c])
    BY <2>3 DEF Stacked, Loaded
  <2>6. Append(Lua!Base \o Failures(failed[c]), "string") = Lua!Base \o Failures(failed[c] + 1)
    <3>1. failed[c] \in Nat
      BY <1>1
    <3> QED BY <3>1, OneMoreFailure
  <2>7. c \notin SharedLibs => stack'[c] = Lua!Base \o Failures(failed'[c])
    BY <2>4, <2>5, <2>6
  <2>8. c \notin SharedLibs => stack'[c] # Lua!Closed
    <3>1. stack[c] \in Seq(Values) /\ "string" \in Values /\ Len(stack[c]) \in Nat
      BY <1>1, LenProperties DEF Values
    <3>2. Len(Append(stack[c], "string")) = Len(stack[c]) + 1
      BY <3>1, AppendProperties
    <3>3. Len(Lua!Closed) = 0
      BY DEF Lua!Closed
    <3> QED BY <2>4, <2>5, <3>1, <3>2, <3>3 DEF Loaded
  <2> QED BY <2>3, <2>7, <2>8 DEF Stacked, Loaded
<1> QED BY <1>4, <1>5, <1>6, <1>7, <1>8 DEF Acts, Goes_on

LEMMA TypedStep ==
  ASSUME Typed, Locking, Stacked, Next
  PROVE  Typed'
<1>1. CASE UNCHANGED <<pc, bReady, flags, stack, failed, mutex, peers, peersLock, left, peer, received>>
  BY <1>1 DEF Typed
<1>2. CASE TimePasses
  BY <1>1, <1>2 DEF TimePasses, luaVars, lockVars, dataVars
<1> SUFFICES ASSUME NEW c \in Connections,
                    Acts(c)
             PROVE  Typed'
  BY <1>2 DEF Next
<1>3. ASSUME NEW to \in Places, pc' = [pc EXCEPT ![c] = to]
      PROVE  pc' \in [Connections -> Places]
  BY <1>3 DEF Typed
<1>4. CASE MonitorTrigger(c) \/ CarrierParams(c) \/ Look(c)
  <2>1. UNCHANGED <<pc, bReady, flags, stack, failed, mutex, peers, peersLock, left, peer, received>>
    BY <1>4, OperationsKeepStacks DEF MonitorTrigger, CarrierParams, Look, luaVars, lockVars, dataVars
  <2> QED BY <1>1, <2>1
<1>5. CASE configure(c)
  BY <1>3, <1>5 DEF configure, Goes, Typed, Places, luaVars, dataVars
<1>6. CASE load(c)
  <2>1. PICK l \in Loads(c) :
          /\ pc' = [pc EXCEPT ![c] = IF l.ready THEN "idle" ELSE "leaving"]
          /\ bReady' = [bReady EXCEPT ![c] = l.ready]
          /\ flags' = [flags EXCEPT ![c] = l.flags]
          /\ stack' = [stack EXCEPT ![c] = l.stack]
    BY <1>6 DEF load, Goes
  <2>2. /\ UNCHANGED <<failed, mutex, peers, peersLock, left, peer, received>>
        /\ pc' \in [Connections -> Places]
    BY <1>3, <1>6, <2>1 DEF load, lockVars, dataVars, Places
  <2>3. /\ l.stack \in Seq(Values) /\ ToSet(l.stack) \subseteq {"library", "PortMonitor", "string"}
        /\ l.ready \in BOOLEAN /\ l.flags \subseteq Script[c] /\ Script[c] \subseteq Callbacks
    BY <1>6, LoadKeeps, PortMonitorAssumption DEF load, Callbacks
  <2>4. /\ flags' \in [Connections -> SUBSET Callbacks]
        /\ \A d \in Connections : flags'[d] \subseteq Script[d]
    BY <2>1, <2>3 DEF Typed
  <2>5. /\ stack' \in [Connections -> Seq(Values)]
        /\ \A d \in Connections : ToSet(stack'[d]) \subseteq {"library", "PortMonitor", "string"}
    <3>1. \A d \in Connections : stack'[d] = IF d = c THEN l.stack ELSE stack[d]
      BY <2>1 DEF Typed
    <3>2. stack' \in [Connections -> Seq(Values)]
      BY <2>1, <2>3 DEF Typed
    <3> QED BY <2>3, <3>1, <3>2 DEF Typed
  <2>6. bReady' \in [Connections -> BOOLEAN]
    BY <2>1, <2>3 DEF Typed
  <2> QED BY <2>2, <2>4, <2>5, <2>6 DEF Typed
<1>7. CASE disconnect(c)
  <2>1. Lua!New \in Seq(Values) /\ ToSet(Lua!New) \subseteq {"library", "PortMonitor", "string"}
    BY DEF Lua!New, Values, ToSet
  <2>2. /\ pc' \in [Connections -> Places] /\ bReady' \in [Connections -> BOOLEAN]
        /\ flags' \in [Connections -> SUBSET Callbacks] /\ failed' \in [Connections -> 0..MaxFailures]
    BY <1>3, <1>7, PortMonitorAssumption DEF disconnect, Unloads, Typed, Places
  <2>3. \A d \in Connections : flags'[d] \subseteq Script[d]
    BY <1>7 DEF disconnect, Unloads, Typed
  <2>4. /\ stack' \in [Connections -> Seq(Values)]
        /\ \A d \in Connections : ToSet(stack'[d]) \subseteq {"library", "PortMonitor", "string"}
    <3>1. \A d \in Connections : stack'[d] = IF d = c THEN Lua!New ELSE stack[d]
      BY <1>7 DEF disconnect, Unloads, Typed
    <3>2. stack' \in [Connections -> Seq(Values)]
      BY <1>7, <2>1 DEF disconnect, Unloads, Typed
    <3> QED BY <2>1, <3>1, <3>2 DEF Typed
  <2> QED BY <1>7, <2>2, <2>3, <2>4 DEF disconnect, Unloads, Typed
<1>8. CASE Receive(c)
  <2>1. received' \in [Connections -> Nat] /\ \A d \in Connections : received'[d] \in 0..MaxMessages[d]
    <3>1. received[c] \in Nat /\ MaxMessages[c] \in Nat /\ received[c] < MaxMessages[c]
      BY <1>8, PortMonitorAssumption DEF Receive, Typed
    <3>2. received' = [received EXCEPT ![c] = received[c] + 1]
      BY <1>8 DEF Receive
    <3>3. received' \in [Connections -> Nat]
      BY <3>1, <3>2 DEF Typed
    <3>4. \A d \in Connections : received'[d] = IF d = c THEN received[c] + 1 ELSE received[d]
      BY <3>2 DEF Typed
    <3>5. received[c] + 1 \in 0..MaxMessages[c]
      BY <3>1
    <3> QED BY <3>3, <3>4, <3>5 DEF Typed
  <2>2. pc' \in [Connections -> Places] /\ UNCHANGED <<luaVars, lockVars>>
    BY <1>3, <1>8 DEF Receive, Goes, Places
  <2> QED BY <2>1, <2>2 DEF Typed, luaVars, lockVars
<1>9. CASE LockAccept(c) \/ LockUpdate(c)
  <2>1. mutex' = [mutex EXCEPT ![c] = c] /\ pc' \in [Connections -> Places]
    BY <1>3, <1>9 DEF LockAccept, LockUpdate, Goes, Places, Locks
  <2>2. UNCHANGED <<luaVars, peers, peersLock, left, peer, received>>
    BY <1>9 DEF LockAccept, LockUpdate, dataVars
  <2> QED BY <2>1, <2>2 DEF Typed, luaVars
<1>10. CASE acceptData(c) \/ updateData(c)
  <2>1. pc' \in [Connections -> Places] /\ mutex' \in [Connections -> Connections \cup {Nobody}]
    BY <1>3, <1>10 DEF acceptData, updateData, Goes, Places, Unlocks, Typed
  <2>2. UNCHANGED <<bReady, flags, stack, failed, peers, peersLock, left, peer, received>>
    BY <1>10, OperationsKeepStacks DEF acceptData, updateData
  <2> QED BY <2>1, <2>2 DEF Typed
<1>11. CASE Elect(c)
  <2>1. pc' \in [Connections -> Places] /\ left' \in [Connections -> SUBSET Connections]
    BY <1>3, <1>11 DEF Elect, Goes, Places, Typed
  <2> QED BY <1>11, <2>1 DEF Elect, Typed, luaVars, dataVars
<1>12. ASSUME NEW p \in Connections, LockPeer(c, p) PROVE Typed'
  <2>1. pc' \in [Connections -> Places] /\ left' \in [Connections -> SUBSET Connections]
    BY <1>3, <1>12 DEF LockPeer, Goes, Places, Typed
  <2>2. mutex' \in [Connections -> Connections \cup {Nobody}] /\ peer' \in [Connections -> Connections \cup {Nobody}]
    BY <1>12 DEF LockPeer, Locks, Typed
  <2> QED BY <1>12, <2>1, <2>2 DEF LockPeer, Typed, luaVars, dataVars
<1>13. CASE peerTrigged(c)
  <2>1. pc' \in [Connections -> Places]
    BY <1>3, <1>13 DEF peerTrigged, Goes, Places
  <2>2. mutex' \in [Connections -> Connections \cup {Nobody}] /\ peer' \in [Connections -> Connections \cup {Nobody}]
    BY <1>13 DEF peerTrigged, Unlocks, Typed
  <2>3. UNCHANGED <<bReady, flags, stack, failed, peers, peersLock, left, received>>
    BY <1>13, OperationsKeepStacks DEF peerTrigged, dataVars
  <2> QED BY <2>1, <2>2, <2>3 DEF Typed
<1>14. CASE Decide(c)
  <2>1. PICK r \in Evaluates(c) :
          /\ Goes(c, "triggering", IF r.value = "yes" THEN "updating" ELSE "idle")
          /\ stack' = [stack EXCEPT ![c] = r.stack]
          /\ failed' = [failed EXCEPT ![c] = IF r.value = Lua!Failed THEN @ + 1 ELSE @]
    BY <1>14 DEF Decide
  <2>2. pc' \in [Connections -> Places]
    BY <1>3, <2>1 DEF Goes, Places
  <2>3. \/ r.stack = stack[c] /\ r.value # Lua!Failed
        \/ r.stack = Append(stack[c], "string") /\ r.value = Lua!Failed /\ failed[c] < MaxFailures
    BY <2>1, RuleEvaluated
  <2>4. failed' \in [Connections -> 0..MaxFailures]
    BY <2>1, <2>3, PortMonitorAssumption DEF Typed
  <2>5. /\ r.stack \in Seq(Values)
        /\ ToSet(r.stack) \subseteq {"library", "PortMonitor", "string"}
    <3>1. stack[c] \in Seq(Values) /\ "string" \in Values
          /\ ToSet(stack[c]) \subseteq {"library", "PortMonitor", "string"}
      BY DEF Typed, Values
    <3>2. ToSet(Append(stack[c], "string")) \subseteq ToSet(stack[c]) \cup {"string"}
          /\ Append(stack[c], "string") \in Seq(Values)
      BY <3>1, AppendProperties, LenProperties DEF ToSet
    <3> QED BY <2>3, <3>1, <3>2
  <2>6. /\ stack' \in [Connections -> Seq(Values)]
        /\ \A d \in Connections : ToSet(stack'[d]) \subseteq {"library", "PortMonitor", "string"}
    <3>1. \A d \in Connections : stack'[d] = IF d = c THEN r.stack ELSE stack[d]
      BY <2>1 DEF Typed
    <3>2. stack' \in [Connections -> Seq(Values)]
      BY <2>1, <2>5 DEF Typed
    <3> QED BY <2>5, <3>1, <3>2 DEF Typed
  <2>7. UNCHANGED <<bReady, flags, mutex, peers, left, peer, received>> /\ peersLock' = Nobody
    BY <1>14 DEF Decide, dataVars
  <2> QED BY <2>2, <2>4, <2>6, <2>7 DEF Typed
<1> QED BY <1>4, <1>5, <1>6, <1>7, <1>8, <1>9, <1>10, <1>11, <1>12, <1>13, <1>14 DEF Acts, Goes_on

\* Whether a connection decides is for its own thread to change.
LEMMA LookingKept ==
  ASSUME Looking, UNCHANGED looked,
         \A c \in Connections : Deciding(c) => Deciding(c)'
  PROVE  Looking'
BY DEF Looking, Constraint

LEMMA LookingStep ==
  ASSUME Typed, Looking, Next
  PROVE  Looking'
<1>1. pc \in [Connections -> Places] /\ left \in [Connections -> SUBSET Connections]
  BY DEF Typed
<1>2. CASE TimePasses
  BY <1>2, LookingKept DEF TimePasses, lockVars, Deciding
<1> SUFFICES ASSUME NEW c \in Connections,
                    Acts(c)
             PROVE  Looking'
  BY <1>2 DEF Next
<1>3. CASE configure(c) \/ load(c) \/ disconnect(c) \/ Receive(c) \/ LockAccept(c) \/ acceptData(c) \/ Elect(c)
           \/ (\E p \in Connections : LockPeer(c, p)) \/ peerTrigged(c) \/ LockUpdate(c) \/ updateData(c)
           \/ MonitorTrigger(c) \/ CarrierParams(c)
  <2>1. looked' = looked
    BY <1>3 DEF configure, load, disconnect, Receive, LockAccept, acceptData, Elect, LockPeer, peerTrigged,
                LockUpdate, updateData, MonitorTrigger, CarrierParams
  <2>2. \A d \in Connections \ {c} : pc'[d] = pc[d] /\ left'[d] = left[d]
    <3>1. pc' = pc \/ \E to : pc' = [pc EXCEPT ![c] = to]
      BY <1>3 DEF configure, load, disconnect, Receive, LockAccept, acceptData, Elect, LockPeer, peerTrigged,
                  LockUpdate, updateData, MonitorTrigger, CarrierParams, Goes
    <3>2. left' = left \/ \E some : left' = [left EXCEPT ![c] = some]
      BY <1>3 DEF configure, load, disconnect, Receive, LockAccept, acceptData, Elect, LockPeer, peerTrigged,
                  LockUpdate, updateData, MonitorTrigger, CarrierParams, lockVars
    <3> QED BY <1>1, <3>1, <3>2
  <2>3. Deciding(c) => Deciding(c)'
    BY <1>1, <1>3 DEF configure, load, disconnect, Receive, LockAccept, acceptData, Elect, LockPeer, peerTrigged,
                LockUpdate, updateData, MonitorTrigger, CarrierParams, Goes, Deciding, lockVars
  <2> QED BY <2>1, <2>2, <2>3, LookingKept DEF Deciding
<1>4. CASE Look(c)
  <2>1. PICK has \in BOOLEAN : looked' = [looked EXCEPT ![c] = Append(looked[c], has)]
    <3>1. hasEvent(record, Constraint(c)[Len(looked[c]) + 1]).has \in BOOLEAN
      BY DEF hasEvent
    <3> QED BY <1>4, <3>1 DEF Look
  <2>2. /\ Append(looked[c], has) \in Seq(BOOLEAN) /\ Len(Append(looked[c], has)) = Len(looked[c]) + 1
        /\ Len(looked[c]) \in Nat
    BY AppendProperties, LenProperties DEF Looking
  <2>3. Len(looked[c]) < Len(Constraint(c)) /\ Deciding(c) /\ UNCHANGED <<pc, left>>
    BY <1>4 DEF Look, lockVars
  <2>4. Len(looked[c]) + 1 <= Len(Constraint(c))
    <3>1. Len(Constraint(c)) \in Nat
      BY ConstraintTyped
    <3> QED BY <2>2, <2>3, <3>1
  <2> QED BY <2>1, <2>2, <2>3, <2>4 DEF Looking, Constraint, Deciding
<1>5. CASE Decide(c)
  <2>1. /\ looked' = [looked EXCEPT ![c] = <<>>] /\ left' = left
        /\ \E to : pc' = [pc EXCEPT ![c] = to]
    BY <1>5 DEF Decide, Goes
  <2>2. <<>> \in Seq(BOOLEAN) /\ Len(<<>>) = 0 /\ 0 <= Len(Constraint(c))
    BY ConstraintTyped
  <2>3. \A d \in Connections \ {c} : Deciding(d) <=> Deciding(d)'
    BY <1>1, <2>1 DEF Deciding
  <2> QED BY <2>1, <2>2, <2>3 DEF Looking, Constraint
<1> QED BY <1>3, <1>4, <1>5 DEF Acts, Goes_on

-----------------------------------------------------------------------------
(* The theorems about locks, data and stacks.                              *)

MInv == Typed /\ Whole /\ Locking /\ Stacked /\ Looking

LEMMA InitInv ==
  ASSUME Init
  PROVE  MInv
<1>1. Lua!New \in Seq(Values) /\ ToSet(Lua!New) \subseteq {"library", "PortMonitor", "string"}
  BY DEF Lua!New, Values, ToSet
<1>2. Typed
  <2>1. 0 \in Nat /\ 0 \in 0..MaxFailures /\ \A c \in Connections : 0 \in 0..MaxMessages[c]
    BY PortMonitorAssumption
  <2>2. /\ pc \in [Connections -> Places] /\ bReady \in [Connections -> BOOLEAN]
        /\ flags \in [Connections -> SUBSET Callbacks] /\ \A c \in Connections : flags[c] \subseteq Script[c]
    BY DEF Init, Each, Places
  <2>3. /\ stack \in [Connections -> Seq(Values)]
        /\ \A c \in Connections : ToSet(stack[c]) \subseteq {"library", "PortMonitor", "string"}
    BY <1>1 DEF Init, Each
  <2>4. /\ failed \in [Connections -> 0..MaxFailures] /\ received \in [Connections -> Nat]
        /\ \A c \in Connections : received[c] \in 0..MaxMessages[c]
    BY <2>1 DEF Init, Each
  <2>5. /\ mutex \in [Connections -> Connections \cup {Nobody}] /\ peers \subseteq Connections
        /\ peersLock \in Connections \cup {Nobody} /\ left \in [Connections -> SUBSET Connections]
        /\ peer \in [Connections -> Connections \cup {Nobody}]
    BY DEF Init, Each
  <2> QED BY <2>2, <2>3, <2>4, <2>5 DEF Typed
<1>3. Whole
  <2>1. <<>> \in Seq(Nat) /\ Dummy!DummyConnector2 \in [writer : Seq(Nat), reader : Seq(Nat)]
    BY DEF Dummy!DummyConnector2
  <2> HIDE DEF Dummy!DummyConnector2
  <2> QED BY <2>1 DEF Init, Each, Whole, Received
<1>4. Locking
  BY PortMonitorAssumption DEF Init, Each, Locking, Electing
<1>5. Stacked
  BY DEF Init, Each, Stacked, Loaded
<1>6. Looking
  <2>1. <<>> \in Seq(BOOLEAN) /\ Len(<<>>) = 0
    OBVIOUS
  <2> QED BY <2>1, ConstraintTyped DEF Init, Each, Looking
<1> QED BY <1>2, <1>3, <1>4, <1>5, <1>6 DEF MInv

LEMMA NextInv ==
  ASSUME MInv, [Next]_vars
  PROVE  MInv'
<1>1. CASE Next
  BY <1>1, TypedStep, WholeStep, LockingStep, StackedStep, LookingStep DEF MInv
<1>2. CASE UNCHANGED vars
  <2>1. Typed' /\ Locking'
    BY <1>2 DEF vars, luaVars, lockVars, dataVars, MInv, Typed, Locking, Electing
  <2>2. Whole' /\ Stacked' /\ Looking'
    BY <1>2 DEF vars, luaVars, lockVars, dataVars, MInv, Whole, AtHand, Stacked, Loaded, Looking, Deciding,
                Constraint
  <2> QED BY <2>1, <2>2 DEF MInv
<1> QED BY <1>1, <1>2

LEMMA Invariance == Spec => []MInv
BY InitInv, NextInv, PTL DEF Spec

\* The monitor that a thread triggers is a peer, and the thread holds its lock
\* (the destructor of PortMonitor takes the lock of the group).
THEOREM NoDeletedPeerHolds == Spec => []NoDeletedPeer
<1>1. MInv => NoDeletedPeer
  BY DEF MInv, Locking, NoDeletedPeer
<1> QED BY <1>1, Invariance, PTL

\* A message that is accepted reaches the port once, with its own data, or not
\* at all when its copy has failed after it was read (localReader and con of
\* acceptIncomingData and modifyIncomingData).
THEOREM DataIsDeliveredHolds == Spec => DataIsDelivered
<1>1. ASSUME MInv, NEW c \in Connections, Next,
             pc[c] \in {"updating", "inUpdate"}, pc'[c] = "idle"
      PROVE  updateData(c)
  <2>1. pc \in [Connections -> Places]
    BY <1>1 DEF MInv, Typed
  <2>2. PICK d \in Connections : Acts(d)
    BY <1>1 DEF Next, TimePasses
  <2>3. d = c
    <3>1. pc' = pc \/ \E to : pc' = [pc EXCEPT ![d] = to]
      BY <2>2 DEF Acts, Goes_on, configure, load, disconnect, Receive, LockAccept, acceptData, Elect, LockPeer,
                  peerTrigged, Look, Decide, LockUpdate, updateData, MonitorTrigger, CarrierParams, Goes
    <3> QED BY <1>1, <2>1, <3>1
  <2> QED BY <1>1, <2>1, <2>2, <2>3
      DEF Acts, Goes_on, configure, load, disconnect, Receive, LockAccept, acceptData, Elect, LockPeer,
          peerTrigged, Look, Decide, LockUpdate, MonitorTrigger, CarrierParams, Goes, Deciding
<1>2. ASSUME MInv, NEW c \in Connections, updateData(c)
      PROVE  delivered'[c] = <<received[c]>> \/ (unwritten'[c] /\ delivered'[c] = <<>>)
  <2>1. /\ AtHand(c) = <<received[c]>> \/ (unwritten[c] /\ AtHand(c) = <<>>)
        /\ delivered \in [Connections -> Seq(Nat)] /\ unwritten \in [Connections -> BOOLEAN]
        /\ AtHand(c) \in Seq(Nat)
    BY <1>2 DEF MInv, Whole, updateData, Goes, Received, AtHand
  <2>2. CASE pc[c] = "updating"
    BY <1>2, <2>1, <2>2 DEF updateData, Goes
  <2>3. CASE pc[c] # "updating"
    <3>1. PICK reads \in BOOLEAN, written \in BOOLEAN :
            LET copied == Copied(c, AtHand(c), written)
            IN  /\ delivered' = [delivered EXCEPT ![c] = IF written THEN copied.reader
                                                          ELSE IF reads THEN <<>> ELSE AtHand(c)]
                /\ unwritten' = [unwritten EXCEPT ![c] = @ \/ (reads /\ ~written)]
      BY <1>2, <2>3 DEF updateData, Goes
    <3>2. written => Copied(c, AtHand(c), written).reader = AtHand(c)
      BY <1>2, <2>1, CopiedHolds DEF MInv
    <3> QED BY <2>1, <3>1, <3>2
  <2> QED BY <2>2, <2>3
<1>3. MInv /\ [Next]_vars
        => [\A c \in Connections :
              pc[c] \in {"updating", "inUpdate"} /\ pc'[c] = "idle" =>
                \/ delivered'[c] = <<received[c]>>
                \/ unwritten'[c] /\ delivered'[c] = <<>>]_vars
  BY <1>1, <1>2
<1> QED BY <1>3, Invariance, PTL DEF Spec, DataIsDelivered

\* The operations of a binding find the table PortMonitor on the stack, in any
\* order and number, but for what rules that fail have left above it
\* (all operations of MonitorLua).
THEOREM StackIsRestoredHolds == Spec => []StackIsRestored
<1>1. MInv => StackIsRestored
  BY DEF MInv, Stacked, Failures, StackIsRestored
<1> QED BY <1>1, Invariance, PTL

-----------------------------------------------------------------------------
(* Who waits for whom.                                                     *)

\* The threads that hold a lock which a thread asks for: that of its own monitor
\* (load, acceptData, updateData), that of the group (acceptIncomingData and the
\* destructor of PortMonitor), or, with that, those of its peers.
Awaited(c) ==
  (CASE pc[c] \in {"electing", "leaving"} -> {peersLock}
     [] pc[c] \in {"loading", "accepting"} \/ (pc[c] = "updating" /\ hasUpdate(c)) -> {mutex[c]}
     [] pc[c] = "triggering" -> {mutex[p] : p \in left[c]}
     [] OTHER -> {}) \ {Nobody}

\* Threads wait in no circle: whom the awaited one awaits, that one goes on.
NoCircularWait ==
  \A c \in Connections : \A d \in Awaited(c) : \A e \in Awaited(d) : Awaited(e) = {}

\* Whoever holds the lock of a monitor is in one of its callbacks.
Held ==
  \A p \in Connections : mutex[p] # Nobody =>
    \/ mutex[p] = p /\ pc[p] \in {"inAccept", "inUpdate"}
    \/ pc[mutex[p]] = "inTrig" /\ peer[mutex[p]] = p

LEMMA HeldStep ==
  ASSUME Typed, Held, Next
  PROVE  Held'
<1>1. /\ pc \in [Connections -> Places]
      /\ mutex \in [Connections -> Connections \cup {Nobody}]
      /\ peer \in [Connections -> Connections \cup {Nobody}]
      /\ Nobody \notin Connections
  BY PortMonitorAssumption DEF Typed
<1>2. CASE UNCHANGED <<pc, mutex, peer>>
  BY <1>2 DEF Held
<1>3. CASE TimePasses
  BY <1>2, <1>3 DEF TimePasses, lockVars
<1> SUFFICES ASSUME NEW c \in Connections,
                    Acts(c)
             PROVE  Held'
  BY <1>3 DEF Next
<1>4. CASE MonitorTrigger(c) \/ CarrierParams(c) \/ Look(c)
  BY <1>2, <1>4 DEF MonitorTrigger, CarrierParams, Look, lockVars
\* A thread that only moves was in no callback and is in none.
<1>5. ASSUME UNCHANGED <<mutex, peer>>, pc[c] \notin {"inAccept", "inUpdate", "inTrig"},
             NEW to, pc' = [pc EXCEPT ![c] = to]
      PROVE  Held'
  BY <1>1, <1>5 DEF Held
<1>6. CASE configure(c) \/ load(c) \/ disconnect(c) \/ Receive(c) \/ Elect(c) \/ Decide(c)
  <2>1. /\ UNCHANGED <<mutex, peer>>
        /\ pc[c] \in {"out", "loading", "idle", "leaving", "electing", "triggering"}
        /\ \E to \in Places : pc' = [pc EXCEPT ![c] = to]
    BY <1>6 DEF configure, load, disconnect, Receive, Elect, Decide, Deciding, Goes, lockVars, Places
  <2> QED BY <1>5, <2>1
<1>7. CASE LockAccept(c) \/ LockUpdate(c)
  <2>1. /\ pc' \in {[pc EXCEPT ![c] = to] : to \in {"inAccept", "inUpdate"}}
        /\ pc[c] \in {"accepting", "updating"}
        /\ mutex[c] = Nobody /\ mutex' = [mutex EXCEPT ![c] = c] /\ peer' = peer
    BY <1>7 DEF LockAccept, LockUpdate, Goes, Locks
  <2> QED BY <1>1, <2>1 DEF Held
<1>8. CASE acceptData(c) \/ updateData(c)
  <2>1. /\ pc' \in {[pc EXCEPT ![c] = to] : to \in {"electing", "idle"}}
        /\ \/ pc[c] \in {"inAccept", "inUpdate"} /\ mutex' = [mutex EXCEPT ![c] = Nobody]
           \/ pc[c] = "updating" /\ mutex' = mutex
        /\ peer' = peer
    BY <1>8 DEF acceptData, updateData, Goes, Unlocks
  <2> QED BY <1>1, <2>1 DEF Held
<1>9. ASSUME NEW p \in Connections, LockPeer(c, p) PROVE Held'
  <2>1. /\ pc[c] = "triggering" /\ pc' = [pc EXCEPT ![c] = "inTrig"]
        /\ mutex[p] = Nobody /\ mutex' = [mutex EXCEPT ![p] = c] /\ peer' = [peer EXCEPT ![c] = p]
    BY <1>9 DEF LockPeer, Goes, Locks
  <2> QED BY <1>1, <2>1 DEF Held
<1>10. CASE peerTrigged(c)
  <2>1. /\ pc[c] = "inTrig" /\ pc' = [pc EXCEPT ![c] = "triggering"]
        /\ mutex' = [mutex EXCEPT ![peer[c]] = Nobody] /\ peer' = [peer EXCEPT ![c] = Nobody]
    BY <1>10 DEF peerTrigged, Goes, Unlocks
  <2> QED BY <1>1, <2>1 DEF Held
<1> QED BY <1>4, <1>6, <1>7, <1>8, <1>9, <1>10 DEF Acts, Goes_on

\* Who is in a callback waits for nobody; who triggers waits for those only.
LEMMA LocksAreOrdered ==
  ASSUME Typed, Locking, Held
  PROVE  NoCircularWait
<1>1. ASSUME NEW p \in Connections, mutex[p] # Nobody
      PROVE  Awaited(mutex[p]) = {}
  BY <1>1 DEF Held, Awaited
<1>2. \A c \in Connections : \A d \in Awaited(c) :
        (d = peersLock /\ d # Nobody) \/ \E p \in Connections : d = mutex[p] /\ d # Nobody
  BY DEF Awaited, Typed
<1>3. \A p \in Connections : mutex[p] \in Connections \cup {Nobody}
  BY DEF Typed
<1>4. CASE peersLock = Nobody
  BY <1>1, <1>2, <1>4 DEF NoCircularWait
<1>5. CASE peersLock # Nobody
  <2>1. peersLock \in Connections /\ pc[peersLock] \in {"triggering", "inTrig"}
    BY <1>5 DEF Typed, Locking, Electing
  <2>2. \A e \in Awaited(peersLock) : \E p \in Connections : e = mutex[p] /\ e # Nobody
    BY <2>1 DEF Awaited, Typed
  <2>3. \A e \in Awaited(peersLock) : Awaited(e) = {}
    BY <1>1, <2>2
  <2> QED BY <1>1, <1>2, <2>3 DEF NoCircularWait
<1> QED BY <1>4, <1>5

\* The threads of the monitors never wait for each other in a circle, nor one for
\* a lock that it holds: the safety part of MessageIsDecided (who holds the lock
\* of a monitor does not ask for that of PortMonitorGroup).
THEOREM NoCircularWaitHolds == Spec => []NoCircularWait
<1>1. Init => Held
  BY DEF Init, Each, Held
<1>2. MInv /\ Held /\ [Next]_vars => Held'
  <2>1. CASE UNCHANGED vars
    BY <2>1 DEF vars, lockVars, Held
  <2> QED BY <2>1, HeldStep DEF MInv
<1>3. MInv /\ Held => NoCircularWait
  BY LocksAreOrdered DEF MInv
<1> QED BY <1>1, <1>2, <1>3, Invariance, PTL DEF Spec

-----------------------------------------------------------------------------
(* The theorems about events.                                              *)

LEMMA RecordedStep ==
  ASSUME Typed, Locking, Recorded(record), [Next]_vars
  PROVE  Recorded(record')
<1>1. CASE UNCHANGED record
  BY <1>1
<1>2. CASE TimePasses
  BY <1>2, AgedRecorded DEF TimePasses
<1>3. ASSUME NEW p \in Connections, trig(p) PROVE Recorded(record')
  BY <1>1, <1>3, UnsetRecorded DEF trig
<1> SUFFICES ASSUME NEW c \in Connections,
                    Acts(c)
             PROVE  Recorded(record')
  <2>1. CASE UNCHANGED vars
    BY <1>1, <2>1 DEF vars
  <2> QED BY <1>2, <2>1 DEF Next
<1>4. CASE configure(c) \/ load(c) \/ disconnect(c) \/ Receive(c) \/ CarrierParams(c)
  BY <1>1, <1>4 DEF configure, load, disconnect, Receive, CarrierParams
<1>5. CASE LockAccept(c) \/ Elect(c) \/ (\E p \in Connections : LockPeer(c, p)) \/ LockUpdate(c)
           \/ updateData(c)
  BY <1>1, <1>5 DEF LockAccept, Elect, LockPeer, LockUpdate, updateData
<1>6. CASE MonitorTrigger(c)
  BY <1>3, <1>6 DEF MonitorTrigger
<1>7. CASE acceptData(c)
  <2>1. record' = record \/ record' \in Raised(c)
    BY <1>7 DEF acceptData
  <2>2. \A rec \in Raised(c) : Recorded(rec)
    BY SetRecorded DEF Raised, Scripted
  <2> QED BY <1>1, <2>1, <2>2
<1>8. CASE peerTrigged(c)
  <2>1. peer[c] \in Connections
    BY <1>8 DEF peerTrigged, Goes, Locking, Typed
  <2> QED BY <1>1, <1>3, <1>8, <2>1 DEF peerTrigged
<1>9. CASE Look(c)
  <2>1. record' = hasEvent(record, Constraint(c)[Len(looked[c]) + 1]).record
    BY <1>9 DEF Look
  <2> QED BY <2>1, HasEvent
<1>10. CASE Decide(c)
  BY <1>1, <1>10 DEF Decide
<1> QED BY <1>4, <1>5, <1>6, <1>7, <1>8, <1>9, <1>10 DEF Acts, Goes_on

LEMMA RecordedInvariance == Spec => []Recorded(record)
<1>1. Init => Recorded(record)
  BY DEF Init, Recorded
<1>2. MInv /\ Recorded(record) /\ [Next]_vars => Recorded(record)'
  BY RecordedStep DEF MInv
<1> QED BY <1>1, <1>2, Invariance, PTL DEF Spec

\* Every variable has its type.  The record holds every event of a script at most
\* once, so it does not grow with the messages (setEvent looks for the event
\* before it appends it).
THEOREM TypeCorrect == Spec => []TypeOK
<1>1. MInv /\ Recorded(record) => TypeOK
  <2> SUFFICES ASSUME MInv, Recorded(record) PROVE TypeOK
    OBVIOUS
  <2>1. localReader \in [Connections -> {"reader", "con"}] /\ unwritten \in [Connections -> BOOLEAN]
    BY DEF MInv, Whole
  <2>2. Len(record) <= Cardinality({p \in (UNION Range(Raises)) \X Connections : p[1] \in Raises[p[2]]})
    BY RecordedFits DEF Pairs
  <2>3. \A c \in Connections : looked[c] \in Seq(BOOLEAN) /\ Len(looked[c]) <= Len(Rule[c])
    <3> SUFFICES ASSUME NEW c \in Connections
                 PROVE  looked[c] \in Seq(BOOLEAN) /\ Len(looked[c]) <= Len(Rule[c])
      OBVIOUS
    <3>1. Rule[c] \in Seq(STRING) /\ Len(Rule[c]) \in Nat /\ Len(<<>>) = 0
      BY PortMonitorAssumption, LenProperties
    <3>2. Len(Constraint(c)) <= Len(Rule[c]) /\ Len(Constraint(c)) \in Nat
      BY <3>1 DEF Constraint
    <3>3. looked[c] \in Seq(BOOLEAN) /\ Len(looked[c]) \in Nat /\ Len(looked[c]) <= Len(Constraint(c))
      BY LenProperties DEF MInv, Looking
    <3> QED BY <3>1, <3>2, <3>3
  <2> QED BY <2>1, <2>2, <2>3 DEF MInv, Typed, TypeOK
<1> QED BY <1>1, Invariance, RecordedInvariance, PTL

\* What has been looked up does not miss an event that has lived since all peers
\* were triggered.
Lived ==
  \A c \in Connections :
    /\ lived[c] \subseteq AliveNames(c)
    /\ ~Deciding(c) => lived[c] = {}
    /\ \A i \in 1..Len(looked[c]) : looked[c][i] \/ Constraint(c)[i] \notin lived[c]

LEMMA LivedStep ==
  ASSUME NamesApart, MInv, Recorded(record), Lived, [Next]_vars
  PROVE  Lived'
<1>1. CASE UNCHANGED vars
  BY <1>1 DEF vars, lockVars, Lived, AliveNames, Alive, Deciding, Constraint
<1> SUFFICES ASSUME Next PROVE Lived'
  BY <1>1
<1>2. Remembers
  BY DEF Next
<1>3. \A c \in Connections :
        /\ lived'[c] \subseteq AliveNames(c)'
        /\ ~Deciding(c)' => lived'[c] = {}
        /\ Deciding(c) => lived'[c] \subseteq lived[c]
  BY <1>2 DEF Remembers
<1>4. looked \in [Connections -> Seq(BOOLEAN)] /\ \A c \in Connections : ~Deciding(c) => looked[c] = <<>>
  BY DEF MInv, Looking
<1> SUFFICES ASSUME NEW c \in Connections, NEW i \in 1..Len(looked'[c])
             PROVE  looked'[c][i] \/ Constraint(c)[i] \notin lived'[c]
  BY <1>3 DEF Lived, Constraint
<1>5. CASE looked'[c] = looked[c]
  <2>1. Deciding(c)
    <3>1. Len(<<>>) = 0
      OBVIOUS
    <3> QED BY <1>4, <1>5, <3>1
  <2> QED BY <1>3, <1>5, <2>1 DEF Lived
<1>6. CASE looked'[c] # looked[c]
  <2>1. PICK d \in Connections : Look(d) \/ Decide(d)
    BY <1>6 DEF Next, TimePasses, Acts, Goes_on, configure, load, disconnect, Receive, LockAccept, acceptData,
                Elect, LockPeer, peerTrigged, LockUpdate, updateData, MonitorTrigger, CarrierParams
  <2>2. d = c
    BY <1>4, <1>6, <2>1 DEF Look, Decide
  <2>3. CASE Decide(c)
    <3>1. looked'[c] = <<>> /\ Len(<<>>) = 0
      BY <1>4, <2>3 DEF Decide
    <3> QED BY <3>1
  <2>4. CASE Look(c)
    <3> DEFINE n == Len(looked[c])
               looks == hasEvent(record, Constraint(c)[n + 1])
    <3>1. Deciding(c) /\ looked'[c] = Append(looked[c], looks.has)
      BY <1>4, <2>4 DEF Look
    <3>2. NamesApart /\ AliveIn(record, Constraint(c)[n + 1]) => looks.has
      BY HasEvent
    <3>3. looks.has \in BOOLEAN
      BY DEF hasEvent
    <3> HIDE DEF looks
    <3>4. /\ n \in Nat /\ Len(Append(looked[c], looks.has)) = n + 1
          /\ \A k \in 1..n : Append(looked[c], looks.has)[k] = looked[c][k]
          /\ Append(looked[c], looks.has)[n + 1] = looks.has
      BY <1>4, <3>3, AppendProperties, LenProperties
    <3>5. i \in 1..n \/ i = n + 1
      BY <3>1, <3>4
    <3>6. CASE i \in 1..n
      BY <1>3, <3>1, <3>4, <3>6 DEF Lived
    <3>7. CASE i = n + 1
      <4>1. Constraint(c)[i] \in lived[c] => AliveIn(record, Constraint(c)[i])
        BY DEF Lived, AliveNames, Alive, AliveIn
      <4> QED BY <1>3, <3>1, <3>2, <3>4, <3>7, <4>1
    <3> QED BY <3>5, <3>6, <3>7
  <2> QED BY <2>1, <2>2, <2>3, <2>4
<1> QED BY <1>5, <1>6

\* When the events of different scripts have different names, and no name of a
\* rule is a part of one that follows it, an event of the rule that lives while
\* the rule is evaluated refuses the message, whatever the other threads do
\* between the lookups (MonitorLua::canAccept).
THEOREM RuleHoldsOf ==
  ASSUME NamesApart, \A c \in Connections : Unmixed(Constraint(c))
  PROVE  Spec => RuleHolds
<1>1. Init => Lived
  <2> SUFFICES ASSUME Init PROVE Lived
    OBVIOUS
  <2>1. Len(<<>>) = 0
    OBVIOUS
  <2> QED BY <2>1 DEF Init, Each, Lived
<1>2. MInv /\ Recorded(record) /\ Lived /\ [Next]_vars => Lived'
  BY LivedStep
<1>3. ASSUME MInv, Next, NEW c \in Connections, Deciding(c), pc'[c] = "updating"
      PROVE  Decide(c)
  <2>1. pc \in [Connections -> Places]
    BY <1>3 DEF MInv, Typed
  <2>2. PICK d \in Connections : Acts(d)
    BY <1>3 DEF Next, TimePasses, Deciding
  <2>3. d = c
    <3>1. pc' = pc \/ \E to : pc' = [pc EXCEPT ![d] = to]
      BY <2>2 DEF Acts, Goes_on, configure, load, disconnect, Receive, LockAccept, acceptData, Elect, LockPeer,
                  peerTrigged, Look, Decide, LockUpdate, updateData, MonitorTrigger, CarrierParams, Goes
    <3> QED BY <1>3, <2>1, <3>1 DEF Deciding
  <2> QED BY <1>3, <2>1, <2>2, <2>3
      DEF Acts, Goes_on, configure, load, disconnect, Receive, LockAccept, acceptData, Elect, LockPeer,
          peerTrigged, Look, LockUpdate, updateData, MonitorTrigger, CarrierParams, Goes, Deciding
<1>4. ASSUME MInv, Lived, NEW c \in Connections, Decide(c), pc'[c] = "updating"
      PROVE  lived[c] = {}
  <2> SUFFICES ASSUME NEW name \in lived[c] PROVE FALSE
    OBVIOUS
  <2>1. name \in Range(Constraint(c))
    BY <1>4 DEF Lived, AliveNames
  <2>2. PICK i \in 1..Len(Constraint(c)) : Constraint(c)[i] = name
    BY <2>1, ConstraintTyped DEF Range
  <2>3. Constraint(c) # <<>> /\ Constraint(c) = Rule[c]
    <3>1. Len(<<>>) = 0
      OBVIOUS
    <3>2. Constraint(c) # <<>>
      BY <2>2, <3>1
    <3> QED BY <3>2 DEF Constraint
  <2>4. PICK r \in Evaluates(c) : pc' = [pc EXCEPT ![c] = IF r.value = "yes" THEN "updating" ELSE "idle"]
    BY <1>4 DEF Decide, Goes
  <2>5. r.value = "yes"
    BY <1>4, <2>4 DEF MInv, Typed
  <2>6. canAccept(Constraint(c), looked[c])
    BY <2>3, <2>4, <2>5 DEF Evaluates, Lua!canAccept, Lua!Outcome, Lua!Failed
  <2>7. \E j \in 1..Len(Constraint(c)) : Constraint(c)[j] = name /\ ~looked[c][j]
    <3>1. Unmixed(Constraint(c)) /\ Len(Constraint(c)) \in Nat /\ DOMAIN Constraint(c) = 1..Len(Constraint(c))
      BY ConstraintTyped
    <3> QED BY <2>2, <2>6, <3>1, CanAccept
  <2>8. Len(looked[c]) = Len(Constraint(c))
    BY <1>4 DEF Decide
  <2> QED BY <1>4, <2>7, <2>8 DEF Lived
<1>5. MInv /\ Lived /\ [Next]_vars
        => [\A c \in Connections : Deciding(c) /\ pc'[c] = "updating" => lived[c] = {}]_vars
  BY <1>3, <1>4
<1> QED BY <1>1, <1>2, <1>5, Invariance, RecordedInvariance, PTL DEF Spec, RuleHolds
=============================================================================
