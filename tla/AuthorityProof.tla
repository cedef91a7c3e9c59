---------------------------- MODULE AuthorityProof ----------------------------
(***************************************************************************)
(* Theorems about Authority: directories, chains, decisions and policies,  *)
(* for every number of verifiers, principals, events, links and rules.     *)
(*                                                                         *)
(* Histories and chains are sequences of any length, so the arguments are  *)
(* inductions.  They are made with LeastNat: of the places where a claim   *)
(* fails, there would be a first one.                                      *)
(***************************************************************************)
EXTENDS Authority, SequenceTheorems, FiniteSetTheorems, TLAPS, WellFoundedInduction

-----------------------------------------------------------------------------
(* Induction over the natural numbers in terms of sets: a claim is the set *)
(* of the numbers of which it holds, or of those of which it fails.        *)

(* A nonempty set of numbers has a least one. *)
LEMMA LeastNat ==
    ASSUME NEW T, T \subseteq Nat, T # {}
    PROVE  \E x \in T : \A y \in T : x <= y
<1> DEFINE R == OpToRel(<, Nat)
<1>1. IsWellFoundedOn(R, Nat)
  BY NatLessThanWellFounded
<1>2. \A x, y \in Nat : x < y => <<x, y>> \in R
  BY DEF OpToRel
<1> HIDE DEF R
<1>3. PICK x \in T : \A y \in T : ~ (<<y, x>> \in R)
  BY <1>1, WFMin
<1>4. ASSUME NEW y \in T PROVE x <= y
  <2>1. x \in Nat /\ y \in Nat
    OBVIOUS
  <2>2. ~(y < x)
    BY <2>1, <1>2, <1>3
  <2> QED
    BY <2>1, <2>2
<1> QED
  BY <1>4

(* A nonempty set of numbers up to n has a greatest one. *)
LEMMA GreatestNat ==
    ASSUME NEW n \in Nat, NEW T, T \subseteq 0..n, T # {}
    PROVE  \E x \in T : \A y \in T : y <= x
<1> DEFINE U == {n - x : x \in T}
<1>0. \A x \in T : x \in Int /\ n - x \in Nat
  OBVIOUS
<1>1. U \subseteq Nat /\ U # {}
  BY <1>0
<1>2. PICK u \in U : \A y \in U : u <= y
  BY <1>1, LeastNat
<1>3. PICK x \in T : u = n - x
  OBVIOUS
<1>4. ASSUME NEW y \in T PROVE y <= x
  <2>1. n - x <= n - y
    BY <1>2, <1>3
  <2> QED
    BY <2>1, <1>0
<1> QED
  BY <1>4

(* What holds at 0 and passes from every number below n to the next holds  *)
(* for all of them; G is the set of numbers for which it holds.            *)
LEMMA Upwards ==
    ASSUME NEW n \in Nat, NEW G, 0 \in G, \A i \in 0..(n - 1) : i \in G => i + 1 \in G
    PROVE  \A i \in 0..n : i \in G
<1> DEFINE T == {i \in 0..n : i \notin G}
<1> SUFFICES ASSUME T # {} PROVE FALSE
  OBVIOUS
<1>1. T \subseteq Nat
  OBVIOUS
<1>2. PICK x \in T : \A y \in T : x <= y
  BY <1>1, LeastNat
<1>3. x \in 1..n /\ x \notin G
  <2>1. x # 0
    OBVIOUS
  <2> QED
    BY <2>1
<1>4. x - 1 \in G
  <2>1. x - 1 \in 0..n /\ ~(x <= x - 1)
    BY <1>3
  <2> QED
    BY <2>1, <1>2
<1>5. x - 1 \in 0..(n - 1) /\ (x - 1) + 1 = x
  BY <1>3
<1> QED
  BY <1>3, <1>4, <1>5

(* A set of places that has every place before one of its own is 1..k, and *)
(* k is what Relevant() and Inserted() count.                              *)
LEMMA PrefixCount ==
    ASSUME NEW n \in Nat, NEW U, U \subseteq 1..n,
           \A i \in U : \A j \in 1..i : j \in U
    PROVE  Cardinality(U) \in 0..n /\ U = 1..Cardinality(U)
<1>1. CASE U = {}
  <2>1. Cardinality(U) = 0 /\ 1..0 = {}
    BY <1>1, FS_EmptySet
  <2> QED
    BY <2>1, <1>1
<1>2. CASE U # {}
  <2>1. U \subseteq 0..n
    OBVIOUS
  <2>2. PICK m \in U : \A y \in U : y <= m
    BY <2>1, <1>2, GreatestNat
  <2>3. m \in 1..n /\ \A j \in 1..m : j \in U
    OBVIOUS
  <2>4. \A y \in U : y \in 1..m
    BY <2>2, <2>3
  <2>5. U = 1..m
    BY <2>3, <2>4
  <2>6. Cardinality(1..m) = m
    BY <2>3, FS_Interval
  <2> QED
    BY <2>3, <2>5, <2>6
<1> QED
  BY <1>1, <1>2

-----------------------------------------------------------------------------
(* The histories a directory keeps: ordered by the time of the event. *)
Bodies == {s.body : s \in Events}

Sorted(list) == \A i, j \in 1..Len(list) : i <= j => list[i].at <= list[j].at

History(list) == list \in Seq(Bodies) /\ Sorted(list)

(* Times are numbers and kinds are those of PrincipalEvent. *)
LEMMA BodyTypes == \A e \in Bodies : e.at \in Nat /\ e.kind \in Kinds
BY PrincipalsAssumption DEF Bodies

(* The events of a history, one by one. *)
LEMMA HistoryTypes ==
    ASSUME NEW list, History(list)
    PROVE  /\ Len(list) \in Nat
           /\ \A i \in 1..Len(list) : /\ list[i] \in Bodies /\ list[i].at \in Nat
                                      /\ list[i].kind \in Kinds
<1>1. list \in Seq(Bodies)
  BY DEF History
<1>2. \A i \in 1..Len(list) : list[i] \in Bodies
  BY <1>1, ElementOfSeq
<1> QED
  BY <1>1, <1>2, BodyTypes

(* push() and sort put an event behind those that are not later than it. *)
LEMMA InsertedAt ==
    ASSUME NEW list, History(list), NEW e \in Bodies
    PROVE  \E k \in 0..Len(list) :
              /\ Inserted(list, e) = SubSeq(list, 1, k) \o <<e>> \o SubSeq(list, k + 1, Len(list))
              /\ \A i \in 1..Len(list) : list[i].at <= e.at <=> i <= k
<1> DEFINE U == {i \in 1..Len(list) : list[i].at <= e.at}
           k == Cardinality(U)
<1>1. /\ Len(list) \in Nat /\ e.at \in Nat
      /\ \A i \in 1..Len(list) : list[i].at \in Nat
  BY HistoryTypes, BodyTypes
<1>2. ASSUME NEW i \in U, NEW j \in 1..i PROVE j \in U
  <2>1. j \in 1..Len(list) /\ j <= i /\ i \in 1..Len(list) /\ list[i].at <= e.at
    BY <1>1
  <2>2. list[j].at <= list[i].at
    BY <2>1 DEF History, Sorted
  <2>3. list[j].at <= e.at
    BY <2>1, <2>2, <1>1
  <2> QED
    BY <2>1, <2>3
<1>3. k \in 0..Len(list) /\ U = 1..k
  <2>1. U \subseteq 1..Len(list)
    OBVIOUS
  <2> HIDE DEF U
  <2> QED
    BY <2>1, <1>1, <1>2, PrefixCount
<1>4. Inserted(list, e) = SubSeq(list, 1, k) \o <<e>> \o SubSeq(list, k + 1, Len(list))
  BY DEF Inserted
<1>5. ASSUME NEW i \in 1..Len(list) PROVE list[i].at <= e.at <=> i <= k
  <2>1. list[i].at <= e.at <=> i \in U
    OBVIOUS
  <2>2. i \in 1..k <=> i <= k
    BY <1>1, <1>3
  <2> QED
    BY <2>1, <2>2, <1>3
<1> HIDE DEF k
<1> QED
  BY <1>3, <1>4, <1>5

(* The list with an event put behind the first k. *)
LEMMA Spliced ==
    ASSUME NEW list \in Seq(Bodies), NEW e \in Bodies, NEW k \in 0..Len(list)
    PROVE  LET l == SubSeq(list, 1, k) \o <<e>> \o SubSeq(list, k + 1, Len(list)) IN
           /\ l \in Seq(Bodies) /\ Len(l) = Len(list) + 1
           /\ \A i \in 1..Len(l) : l[i] = IF i <= k THEN list[i]
                                          ELSE IF i = k + 1 THEN e ELSE list[i - 1]
<1> DEFINE a == SubSeq(list, 1, k)
           b == a \o <<e>>
           c == SubSeq(list, k + 1, Len(list))
           l == b \o c
<1>1. Len(list) \in Nat /\ k \in Nat /\ k <= Len(list)
  OBVIOUS
<1>2. a \in Seq(Bodies) /\ Len(a) = k /\ \A i \in 1..k : a[i] = list[i]
  BY <1>1
<1> HIDE DEF a
<1>3. <<e>> \in Seq(Bodies) /\ Len(<<e>>) = 1 /\ <<e>>[1] = e
  OBVIOUS
<1>4. b \in Seq(Bodies) /\ Len(b) = k + 1
      /\ \A i \in 1..(k + 1) : b[i] = IF i <= k THEN a[i] ELSE <<e>>[i - k]
  BY <1>1, <1>2, <1>3, ConcatProperties
<1>5. \A i \in 1..(k + 1) : b[i] = IF i <= k THEN list[i] ELSE e
  <2> SUFFICES ASSUME NEW i \in 1..(k + 1) PROVE b[i] = IF i <= k THEN list[i] ELSE e
    OBVIOUS
  <2>1. CASE i <= k
    BY <2>1, <1>1, <1>2, <1>4
  <2>2. CASE ~(i <= k)
    <3>1. i - k = 1
      BY <2>2, <1>1
    <3> QED
      BY <3>1, <2>2, <1>3, <1>4
  <2> QED
    BY <2>1, <2>2
<1> HIDE DEF b
<1>6. c \in Seq(Bodies) /\ Len(c) = Len(list) - k
      /\ \A i \in 1..(Len(list) - k) : c[i] = list[k + i]
  BY <1>1
<1> HIDE DEF c
<1>7. l \in Seq(Bodies) /\ Len(l) = Len(list) + 1
      /\ \A i \in 1..(Len(list) + 1) : l[i] = IF i <= k + 1 THEN b[i] ELSE c[i - (k + 1)]
  <2>1. Len(b) + Len(c) = Len(list) + 1
    BY <1>1, <1>4, <1>6
  <2>2. l \in Seq(Bodies) /\ Len(l) = Len(b) + Len(c)
        /\ \A i \in 1..(Len(b) + Len(c)) :
              l[i] = IF i <= Len(b) THEN b[i] ELSE c[i - Len(b)]
    BY <1>4, <1>6, ConcatProperties
  <2> QED
    BY <2>1, <2>2, <1>4
<1> HIDE DEF l
<1>8. ASSUME NEW i \in 1..Len(l)
      PROVE  l[i] = IF i <= k THEN list[i] ELSE IF i = k + 1 THEN e ELSE list[i - 1]
  <2>1. CASE i <= k + 1
    BY <2>1, <1>1, <1>5, <1>7
  <2>2. CASE ~(i <= k + 1)
    <3>1. i - (k + 1) \in 1..(Len(list) - k) /\ k + (i - (k + 1)) = i - 1 /\ ~(i <= k)
          /\ i # k + 1
      BY <2>2, <1>1, <1>7
    <3> QED
      BY <3>1, <2>2, <1>6, <1>7
  <2> QED
    BY <2>1, <2>2
<1> QED
  BY <1>7, <1>8 DEF l, b, a, c

(* apply() keeps a history a history. *)
LEMMA InsertedHistory ==
    ASSUME NEW list, History(list), NEW e \in Bodies
    PROVE  History(Inserted(list, e))
<1> DEFINE l == Inserted(list, e)
<1> HIDE DEF l
<1>1. PICK k \in 0..Len(list) :
         /\ l = SubSeq(list, 1, k) \o <<e>> \o SubSeq(list, k + 1, Len(list))
         /\ \A i \in 1..Len(list) : list[i].at <= e.at <=> i <= k
  BY InsertedAt DEF l
<1>2. list \in Seq(Bodies) /\ Sorted(list)
  BY DEF History
<1>3. /\ l \in Seq(Bodies) /\ Len(l) = Len(list) + 1
      /\ \A i \in 1..Len(l) : l[i] = IF i <= k THEN list[i]
                                     ELSE IF i = k + 1 THEN e ELSE list[i - 1]
  <2> DEFINE m == SubSeq(list, 1, k) \o <<e>> \o SubSeq(list, k + 1, Len(list))
  <2>1. /\ m \in Seq(Bodies) /\ Len(m) = Len(list) + 1
        /\ \A i \in 1..Len(m) : m[i] = IF i <= k THEN list[i]
                                       ELSE IF i = k + 1 THEN e ELSE list[i - 1]
    BY <1>2, Spliced, Zenon
  <2>2. l = m
    BY <1>1
  <2> HIDE DEF m
  <2> QED
    BY <2>1, <2>2
<1>4. /\ Len(list) \in Nat /\ k \in Nat /\ k <= Len(list) /\ e.at \in Nat
      /\ \A i \in 1..Len(list) : list[i].at \in Nat
  BY HistoryTypes, BodyTypes
<1>5. ASSUME NEW i \in 1..Len(l), NEW j \in 1..Len(l), i <= j PROVE l[i].at <= l[j].at
  <2> DEFINE old(m) == IF m <= k THEN m ELSE m - 1
  <2>1. CASE i # k + 1 /\ j # k + 1
    <3>1. /\ old(i) \in 1..Len(list) /\ old(j) \in 1..Len(list) /\ old(i) <= old(j)
      BY <2>1, <1>3, <1>4, <1>5
    <3>2. l[i] = list[old(i)] /\ l[j] = list[old(j)]
      BY <2>1, <1>3
    <3> QED
      BY <3>1, <3>2, <1>2 DEF Sorted
  <2>2. CASE i = k + 1 /\ j # k + 1
    <3>1. j - 1 \in 1..Len(list) /\ ~(j - 1 <= k) /\ ~(j <= k)
      BY <2>2, <1>3, <1>4, <1>5
    <3>2. l[i] = e /\ l[j] = list[j - 1]
      BY <3>1, <2>2, <1>3, <1>4
    <3> QED
      BY <3>1, <3>2, <1>1, <1>4
  <2>3. CASE i # k + 1 /\ j = k + 1
    <3>1. i \in 1..Len(list) /\ i <= k
      BY <2>3, <1>3, <1>4, <1>5
    <3>2. l[i] = list[i] /\ l[j] = e
      BY <3>1, <2>3, <1>3, <1>4
    <3> QED
      BY <3>1, <3>2, <1>1
  <2>4. CASE i = k + 1 /\ j = k + 1
    <3>1. l[i] = e /\ l[j] = e
      BY <2>4, <1>3, <1>4
    <3> QED
      BY <3>1, <1>4
  <2> QED
    BY <2>1, <2>2, <2>3, <2>4
<1> QED
  BY <1>3, <1>5 DEF History, Sorted, l

(* The loop of stateAt() looks at exactly the events up to the time. *)
LEMMA RelevantFacts ==
    ASSUME NEW list, History(list), NEW at \in Int
    PROVE  /\ Relevant(list, at) \in 0..Len(list)
           /\ \A i \in 1..Len(list) : list[i].at <= at <=> i <= Relevant(list, at)
<1> DEFINE U == {i \in 1..Len(list) : \A j \in 1..i : list[j].at <= at}
<1>1. /\ Len(list) \in Nat /\ \A i \in 1..Len(list) : list[i].at \in Nat
  BY HistoryTypes
<1>2. U \subseteq 1..Len(list)
  OBVIOUS
<1>3. \A i \in U : \A j \in 1..i : j \in U
  BY <1>1
<1>4. \A i \in 1..Len(list) : list[i].at <= at <=> i \in U
  <2> SUFFICES ASSUME NEW i \in 1..Len(list), list[i].at <= at, NEW j \in 1..i
               PROVE  list[j].at <= at
    BY <1>1
  <2>1. list[j].at <= list[i].at /\ list[j].at \in Nat /\ list[i].at \in Nat
    BY <1>1 DEF History, Sorted
  <2> QED
    BY <2>1
<1>5. Relevant(list, at) = Cardinality(U)
  BY DEF Relevant
<1> HIDE DEF U
<1>6. Cardinality(U) \in 0..Len(list) /\ U = 1..Cardinality(U)
  BY <1>1, <1>2, <1>3, PrefixCount
<1> QED
  BY <1>1, <1>4, <1>5, <1>6

-----------------------------------------------------------------------------
(* f is the sequence of states the loop of stateAt() goes through. *)
Run(f, start, list, n) ==
    f = [i \in 0..n |-> IF i = 0 THEN start ELSE step(f[i - 1], list[i])]

(* The states of the loop, one by one. *)
LEMMA RunSteps ==
    ASSUME NEW f, NEW start, NEW list, NEW n \in Nat, Run(f, start, list, n)
    PROVE  /\ f[0] = start
           /\ \A i \in 1..n : f[i] = step(f[i - 1], list[i])
<1> DEFINE g == [i \in 0..n |-> IF i = 0 THEN start ELSE step(f[i - 1], list[i])]
<1>1. f = g
  BY DEF Run
<1>2. \A i \in 0..n : g[i] = IF i = 0 THEN start ELSE step(f[i - 1], list[i])
  OBVIOUS
<1> HIDE DEF g
<1>3. \A i \in 0..n : f[i] = IF i = 0 THEN start ELSE step(f[i - 1], list[i])
  BY <1>1, <1>2
<1>4. 0 \in 0..n /\ \A i \in 1..n : i \in 0..n /\ i # 0
  OBVIOUS
<1> QED
  BY <1>3, <1>4

(* States that follow each other in this way are a run. *)
LEMMA RunFrom ==
    ASSUME NEW f, NEW start, NEW list, NEW n \in Nat,
           f = [i \in 0..n |-> f[i]], f[0] = start,
           \A i \in 1..n : f[i] = step(f[i - 1], list[i])
    PROVE  Run(f, start, list, n)
<1>1. \A i \in 0..n : i # 0 => i \in 1..n
  OBVIOUS
<1>2. \A i \in 0..n : f[i] = IF i = 0 THEN start ELSE step(f[i - 1], list[i])
  BY <1>1
<1> QED
  BY <1>2 DEF Run

(* The loop goes through some states, whatever the history. *)
LEMMA RunExists ==
    ASSUME NEW start, NEW list, NEW n \in Nat
    PROVE  \E f : Run(f, start, list, n)
<1> DEFINE G == {m \in Nat : \E f : Run(f, start, list, m)}
<1>1. 0 \in G
  <2> DEFINE f == [i \in 0..0 |-> start]
  <2>1. f = [i \in 0..0 |-> f[i]] /\ f[0] = start
    OBVIOUS
  <2>2. \A i \in 1..0 : f[i] = step(f[i - 1], list[i])
    OBVIOUS
  <2> HIDE DEF f
  <2>0. 0 \in Nat
    OBVIOUS
  <2>3. Run(f, start, list, 0)
    BY <2>0, <2>1, <2>2, RunFrom, Zenon
  <2>4. 0 \in Nat /\ \E h : Run(h, start, list, 0)
    BY <2>3
  <2> QED
    BY <2>4, Zenon
<1>2. ASSUME NEW m \in 0..(n - 1), m \in G PROVE m + 1 \in G
  <2>1. PICK f : Run(f, start, list, m)
    BY <1>2
  <2>2. f[0] = start /\ \A i \in 1..m : f[i] = step(f[i - 1], list[i])
    BY <2>1, RunSteps
  <2> DEFINE g == [i \in 0..(m + 1) |-> IF i = m + 1 THEN step(f[m], list[m + 1]) ELSE f[i]]
  <2>3. m \in Nat /\ m + 1 \in Nat
    OBVIOUS
  <2>4. \A i \in 0..m : g[i] = f[i]
    BY <2>3
  <2>5. g[m + 1] = step(f[m], list[m + 1]) /\ g = [i \in 0..(m + 1) |-> g[i]]
    BY <2>3
  <2> HIDE DEF g
  <2>6. ASSUME NEW i \in 1..(m + 1) PROVE g[i] = step(g[i - 1], list[i])
    <3>1. CASE i = m + 1
      <4>1. g[m] = f[m] /\ i - 1 = m
        BY <3>1, <2>3, <2>4
      <4> QED
        BY <4>1, <3>1, <2>5
    <3>2. CASE i # m + 1
      <4>1. i \in 1..m /\ i \in 0..m /\ i - 1 \in 0..m
        BY <3>2, <2>3
      <4> QED
        BY <4>1, <2>2, <2>4
    <3> QED
      BY <3>1, <3>2
  <2>7. g[0] = start
    BY <2>2, <2>3, <2>4
  <2>8. Run(g, start, list, m + 1)
    BY <2>3, <2>5, <2>6, <2>7, RunFrom, Zenon
  <2>9. \E h : Run(h, start, list, m + 1)
    BY <2>8
  <2> QED
    BY <2>3, <2>9, Zenon
<1>3. \A i \in 0..n : i \in G
  <2> HIDE DEF G
  <2> QED
    BY <1>1, <1>2, Upwards
<1>4. n \in G
  BY <1>3
<1> QED
  BY <1>4

(* Two runs from the same record agree as far as both go. *)
LEMMA RunsAgree ==
    ASSUME NEW f, NEW g, NEW start, NEW list, NEW m \in Nat, NEW n \in Nat, n <= m,
           Run(f, start, list, m), Run(g, start, list, n)
    PROVE  f[n] = g[n]
<1> DEFINE G == {i \in 0..n : f[i] = g[i]}
<1>1. /\ f[0] = start /\ g[0] = start
      /\ \A i \in 1..m : f[i] = step(f[i - 1], list[i])
      /\ \A i \in 1..n : g[i] = step(g[i - 1], list[i])
  BY RunSteps
<1>2. 0 \in G
  BY <1>1
<1>3. ASSUME NEW i \in 0..(n - 1), i \in G PROVE i + 1 \in G
  <2>1. i + 1 \in 1..n /\ i + 1 \in 1..m /\ i + 1 \in 0..n /\ (i + 1) - 1 = i
    OBVIOUS
  <2>2. f[i] = g[i]
    BY <1>3
  <2>3. f[i + 1] = step(f[i], list[i + 1]) /\ g[i + 1] = step(g[i], list[i + 1])
    BY <2>1, <1>1
  <2> QED
    BY <2>1, <2>2, <2>3
<1>4. \A i \in 0..n : i \in G
  <2> HIDE DEF G
  <2> QED
    BY <1>2, <1>3, Upwards
<1> QED
  BY <1>4

(* folded() is the last state of the loop. *)
LEMMA FoldedRun ==
    ASSUME NEW start, NEW list, NEW n \in Nat
    PROVE  \E f : Run(f, start, list, n) /\ folded(start, list, n) = f[n]
<1> DEFINE c == CHOOSE f : Run(f, start, list, n)
<1>1. Run(c, start, list, n)
  BY RunExists
<1>2. folded(start, list, n) = c[n]
  BY DEF folded, Run
<1> QED
  BY <1>1, <1>2

(* The recurrence of the loop. *)
LEMMA FoldedSteps ==
    ASSUME NEW start, NEW list
    PROVE  /\ folded(start, list, 0) = start
           /\ \A n \in Nat \ {0} : folded(start, list, n) =
                                    step(folded(start, list, n - 1), list[n])
<1>1. folded(start, list, 0) = start
  <2>1. PICK f : Run(f, start, list, 0) /\ folded(start, list, 0) = f[0]
    BY FoldedRun
  <2> QED
    BY <2>1, RunSteps
<1>2. ASSUME NEW n \in Nat \ {0}
      PROVE  folded(start, list, n) = step(folded(start, list, n - 1), list[n])
  <2>1. n \in Nat /\ n - 1 \in Nat /\ n - 1 <= n /\ n \in 1..n
    OBVIOUS
  <2>2. PICK f : Run(f, start, list, n) /\ folded(start, list, n) = f[n]
    BY <2>1, FoldedRun
  <2>3. PICK g : Run(g, start, list, n - 1) /\ folded(start, list, n - 1) = g[n - 1]
    BY <2>1, FoldedRun
  <2>4. f[n - 1] = g[n - 1]
    BY <2>1, <2>2, <2>3, RunsAgree
  <2>5. f[n] = step(f[n - 1], list[n])
    BY <2>1, <2>2, RunSteps
  <2> QED
    BY <2>2, <2>3, <2>4, <2>5
<1> QED
  BY <1>1, <1>2

-----------------------------------------------------------------------------
Dead == {"revoked", "decommissioned"}

(* No kind of event brings a revoked principal back. *)
LEMMA DeadStays ==
    ASSUME NEW status, NEW kind \in Kinds, status \in Dead \/ kind \in Dead
    PROVE  nextStatus(status, kind) \in Dead
<1>1. CASE kind = "suspended"
  BY <1>1 DEF nextStatus, Dead
<1>2. CASE kind = "reinstated"
  BY <1>2 DEF nextStatus, Dead
<1>3. CASE kind = "revoked"
  BY <1>3 DEF nextStatus, Dead
<1>4. CASE kind = "decommissioned"
  BY <1>4 DEF nextStatus, Dead
<1>5. CASE kind = "key_bound"
  BY <1>5 DEF nextStatus, Dead
<1>6. CASE kind = "key_retired"
  BY <1>6 DEF nextStatus, Dead
<1> QED
  BY <1>1, <1>2, <1>3, <1>4, <1>5, <1>6 DEF Kinds

(* An event applied twice in a row counts once. *)
LEMMA StepTwice ==
    ASSUME NEW state, NEW e, e.kind \in Kinds
    PROVE  step(step(state, e), e) = step(state, e)
<1> DEFINE kind == e.kind
           status == state.status
           keys == state.keys
<1>1. nextStatus(nextStatus(status, kind), kind) = nextStatus(status, kind)
  <2> HIDE DEF kind, status
  <2>1. CASE kind = "suspended"
    BY <2>1 DEF nextStatus
  <2>2. CASE kind = "reinstated"
    BY <2>2 DEF nextStatus
  <2>3. CASE kind = "revoked"
    BY <2>3 DEF nextStatus
  <2>4. CASE kind = "decommissioned"
    BY <2>4 DEF nextStatus
  <2>5. CASE kind = "key_bound"
    BY <2>5 DEF nextStatus
  <2>6. CASE kind = "key_retired"
    BY <2>6 DEF nextStatus
  <2> QED
    BY <2>1, <2>2, <2>3, <2>4, <2>5, <2>6 DEF Kinds, kind
<1>2. nextKeys(nextKeys(keys, e), e) = nextKeys(keys, e)
  <2> HIDE DEF keys
  <2>1. CASE e.kind = "key_bound"
    <3>1. \A K : nextKeys(K, e) = {k \in K : k.id # e.key.id} \cup {e.key}
      BY <2>1 DEF nextKeys
    <3> QED
      BY <3>1
  <2>2. CASE e.kind = "key_retired"
    <3>1. \A K : nextKeys(K, e) = {k \in K : k.id # e.key.id}
      BY <2>2 DEF nextKeys
    <3> QED
      BY <3>1
  <2>3. CASE e.kind \notin {"key_bound", "key_retired"}
    <3>1. \A K : nextKeys(K, e) = K
      BY <2>3 DEF nextKeys
    <3> QED
      BY <3>1
  <2> QED
    BY <2>1, <2>2, <2>3
<1> QED
  BY <1>1, <1>2 DEF step

(* From a revocation on, the loop never leaves the final states. *)
LEMMA RevokedFold ==
    ASSUME NEW start, NEW list, History(list), NEW m \in 1..Len(list),
           list[m].kind \in Dead, NEW n \in m..Len(list)
    PROVE  folded(start, list, n).status \in Dead
<1> DEFINE G == {i \in Nat : folded(start, list, m + i).status \in Dead}
<1>1. /\ Len(list) \in Nat /\ m \in Nat /\ n \in Nat
      /\ \A i \in 1..Len(list) : list[i].kind \in Kinds
  BY HistoryTypes
<1>2. ASSUME NEW i \in 1..Len(list),
             folded(start, list, i - 1).status \in Dead \/ list[i].kind \in Dead
      PROVE  folded(start, list, i).status \in Dead
  <2>1. i \in Nat \ {0}
    OBVIOUS
  <2>2. folded(start, list, i) = step(folded(start, list, i - 1), list[i])
    BY <2>1, FoldedSteps
  <2>3. folded(start, list, i).status =
          nextStatus(folded(start, list, i - 1).status, list[i].kind)
    BY <2>2 DEF step
  <2> QED
    BY <2>3, <1>1, <1>2, DeadStays
<1>3. 0 \in G
  <2>1. m + 0 = m /\ 0 \in Nat
    OBVIOUS
  <2> QED
    BY <2>1, <1>2
<1>4. ASSUME NEW i \in 0..((n - m) - 1), i \in G PROVE i + 1 \in G
  <2>1. /\ m + (i + 1) \in 1..Len(list) /\ (m + (i + 1)) - 1 = m + i /\ i + 1 \in Nat
    BY <1>1
  <2>2. folded(start, list, m + i).status \in Dead
    BY <1>4
  <2>3. folded(start, list, m + (i + 1)).status \in Dead
    BY <2>1, <2>2, <1>2
  <2> QED
    BY <2>1, <2>3
<1>5. n - m \in Nat /\ n - m \in 0..(n - m) /\ m + (n - m) = n
  BY <1>1
<1>6. n - m \in G
  <2> HIDE DEF G
  <2> QED
    BY <1>3, <1>4, <1>5, Upwards
<1> QED
  BY <1>5, <1>6

-----------------------------------------------------------------------------
(* The events the loop has looked at after i rounds. *)
First(list, i) == {list[a] : a \in 1..i}

(* One more round looks at one more event. *)
LEMMA FirstNext ==
    ASSUME NEW list, NEW i \in Nat \ {0}
    PROVE  /\ First(list, i) = First(list, i - 1) \cup {list[i]}
           /\ i - 1 \in Nat /\ list[i] \in First(list, i)
<1>1. 1..i = (1..(i - 1)) \cup {i} /\ i - 1 \in Nat
  OBVIOUS
<1> QED
  BY <1>1 DEF First

(* Nothing is later than the event of the last round. *)
LEMMA LatestLast ==
    ASSUME NEW list, History(list), NEW i \in 1..Len(list), NEW e \in First(list, i)
    PROVE  /\ e.at <= list[i].at /\ e.at \in Nat /\ list[i].at \in Nat
           /\ e \in First(list, Len(list))
<1>1. PICK a \in 1..i : e = list[a]
  BY DEF First
<1>2. a \in 1..Len(list) /\ a <= i /\ Len(list) \in Nat
  BY HistoryTypes
<1> QED
  BY <1>1, <1>2, HistoryTypes DEF History, Sorted, First

(***************************************************************************)
(* Two histories of the same events lead to the same state, however often  *)
(* each event is in them, if no two different events have the same time.   *)
(* The claim for prefixes of i and j events is by induction on i + j.      *)
(***************************************************************************)
LEMMA SameFold ==
    ASSUME NEW start, NEW L, NEW M, History(L), History(M),
           \A e, f \in First(L, Len(L)) : e.at = f.at => e = f,
           First(L, Len(L)) = First(M, Len(M)),
           NEW i0 \in 0..Len(L), NEW j0 \in 0..Len(M), First(L, i0) = First(M, j0)
    PROVE  folded(start, L, i0) = folded(start, M, j0)
<1> DEFINE F(i) == folded(start, L, i)
           H(j) == folded(start, M, j)
           Bad == {s \in Nat : \E i \in 0..Len(L), j \in 0..Len(M) :
                      s = i + j /\ First(L, i) = First(M, j) /\ F(i) # H(j)}
<1>0. Len(L) \in Nat /\ Len(M) \in Nat
  BY HistoryTypes
<1> SUFFICES ASSUME Bad # {} PROVE FALSE
  <2>1. i0 + j0 \in Nat
    BY <1>0
  <2> QED
    BY <2>1
<1>1. PICK s \in Bad : \A t \in Bad : s <= t
  <2>1. Bad \subseteq Nat
    OBVIOUS
  <2> HIDE DEF Bad
  <2> QED
    BY <2>1, LeastNat
<1>2. PICK i \in 0..Len(L), j \in 0..Len(M) :
         s = i + j /\ First(L, i) = First(M, j) /\ F(i) # H(j)
  OBVIOUS
<1>3. ASSUME NEW a \in 0..Len(L), NEW b \in 0..Len(M), a + b < i + j,
             First(L, a) = First(M, b)
      PROVE  F(a) = H(b)
  <2>1. a + b \in Nat /\ i + j \in Nat /\ ~(i + j <= a + b)
    BY <1>0, <1>3
  <2>2. a + b \notin Bad
    <3> HIDE DEF Bad
    <3> QED
      BY <2>1, <1>1, <1>2
  <2> HIDE DEF F, H
  <2> QED
    BY <2>1, <2>2, <1>3
<1> HIDE DEF Bad
<1>4. F(0) = start /\ H(0) = start
  BY FoldedSteps
<1>5. \A a \in Nat \ {0} : /\ F(a) = step(F(a - 1), L[a])
                           /\ H(a) = step(H(a - 1), M[a])
  <2>1. \A a \in Nat \ {0} : F(a) = step(F(a - 1), L[a])
    BY FoldedSteps, ZenonT(60)
  <2>2. \A a \in Nat \ {0} : H(a) = step(H(a - 1), M[a])
    BY FoldedSteps, ZenonT(60)
  <2> HIDE DEF F, H
  <2> QED
    BY <2>1, <2>2
<1> HIDE DEF F, H
<1>6. i # 0 /\ j # 0
  <2>1. First(L, 0) = {} /\ First(M, 0) = {}
    BY DEF First
  <2>2. CASE i = 0
    <3>1. j = 0
      <4> SUFFICES ASSUME j # 0 PROVE FALSE
        OBVIOUS
      <4>1. M[j] \in First(M, j)
        BY <1>0, FirstNext
      <4> QED
        BY <4>1, <2>1, <2>2, <1>2
    <3> QED
      BY <3>1, <2>2, <1>2, <1>4
  <2>3. CASE j = 0
    <3>1. i = 0
      <4> SUFFICES ASSUME i # 0 PROVE FALSE
        OBVIOUS
      <4>1. L[i] \in First(L, i)
        BY <1>0, FirstNext
      <4> QED
        BY <4>1, <2>1, <2>3, <1>2
    <3> QED
      BY <3>1, <2>3, <1>2, <1>4
  <2> QED
    BY <2>2, <2>3
<1>7. /\ i \in Nat \ {0} /\ j \in Nat \ {0} /\ i \in 1..Len(L) /\ j \in 1..Len(M)
      /\ i - 1 \in 0..Len(L) /\ j - 1 \in 0..Len(M)
      /\ (i - 1) + j < i + j /\ i + (j - 1) < i + j /\ (i - 1) + (j - 1) < i + j
  BY <1>0, <1>6
<1>8. /\ First(L, i) = First(L, i - 1) \cup {L[i]} /\ L[i] \in First(L, i)
      /\ First(M, j) = First(M, j - 1) \cup {M[j]} /\ M[j] \in First(M, j)
  BY <1>7, FirstNext
<1>9. L[i] = M[j] /\ L[i].kind \in Kinds
  <2>1. /\ L[i].at <= M[j].at /\ M[j].at <= L[i].at /\ L[i].at \in Nat /\ M[j].at \in Nat
        /\ L[i] \in First(L, Len(L)) /\ M[j] \in First(L, Len(L))
    BY <1>2, <1>7, <1>8, LatestLast
  <2>2. L[i].at = M[j].at
    BY <2>1
  <2> QED
    BY <2>1, <2>2, <1>7, HistoryTypes
<1> DEFINE e == L[i]
<1>10. F(i) = step(F(i - 1), e) /\ H(j) = step(H(j - 1), e)
  BY <1>5, <1>7, <1>9
<1>11. CASE e \in First(L, i - 1)
  <2>1. First(L, i - 1) = First(M, j)
    BY <1>2, <1>8, <1>11
  <2>2. F(i - 1) = H(j)
    BY <2>1, <1>3, <1>7
  <2>3. step(step(H(j - 1), e), e) = step(H(j - 1), e)
    BY <1>9, StepTwice
  <2> QED
    BY <2>2, <2>3, <1>2, <1>10
<1>12. CASE e \in First(M, j - 1)
  <2>1. First(L, i) = First(M, j - 1)
    BY <1>2, <1>8, <1>9, <1>12
  <2>2. F(i) = H(j - 1)
    BY <2>1, <1>3, <1>7
  <2>3. step(step(F(i - 1), e), e) = step(F(i - 1), e)
    BY <1>9, StepTwice
  <2> QED
    BY <2>2, <2>3, <1>2, <1>10
<1>13. CASE e \notin First(L, i - 1) /\ e \notin First(M, j - 1)
  <2>1. First(L, i - 1) = First(M, j - 1)
    <3> DEFINE A == First(L, i - 1)
               B == First(M, j - 1)
    <3>1. First(L, i) = A \cup {e}
      BY <1>8
    <3>2. First(M, j) = B \cup {e}
      BY <1>8, <1>9
    <3>3. e \notin A /\ e \notin B
      BY <1>13
    <3> HIDE DEF A, B, e
    <3>4. A \cup {e} = B \cup {e}
      BY <3>1, <3>2, <1>2
    <3>5. A = B
      <4>1. ASSUME NEW x \in A PROVE x \in B
        <5>1. x \in A \cup {e} /\ x # e
          BY <3>3
        <5>2. x \in B \cup {e}
          BY <5>1, <3>4
        <5> QED
          BY <5>1, <5>2
      <4>2. ASSUME NEW x \in B PROVE x \in A
        <5>1. x \in B \cup {e} /\ x # e
          BY <3>3
        <5>2. x \in A \cup {e}
          BY <5>1, <3>4
        <5> QED
          BY <5>1, <5>2
      <4> QED
        BY <4>1, <4>2
    <3> QED
      BY <3>5 DEF A, B
  <2>2. F(i - 1) = H(j - 1)
    BY <2>1, <1>3, <1>7
  <2> QED
    BY <2>2, <1>2, <1>10
<1> QED
  BY <1>11, <1>12, <1>13

-----------------------------------------------------------------------------
(* Every verifier keeps histories of every principal. *)
Directories ==
    /\ now \in Nat
    /\ events \in [Verifiers -> [Principal -> Seq(Bodies)]]
    /\ \A v \in Verifiers, p \in Principal : Sorted(events[v][p])

(* What is kept about one principal is a history. *)
LEMMA DirectoryHistory ==
    ASSUME Directories, NEW v \in Verifiers, NEW p \in Principal
    PROVE  /\ History(events[v][p]) /\ Len(events[v][p]) \in Nat
           /\ Histories(v, p) = First(events[v][p], Len(events[v][p]))
<1>1. History(events[v][p])
  BY DEF Directories, History
<1> QED
  BY <1>1, HistoryTypes DEF Histories, First

(* apply() is the only action that touches a history. *)
LEMMA NextDirectories == ASSUME Directories, [Next]_vars PROVE Directories'
<1>1. ASSUME NEW v \in Verifiers, NEW s \in Events, apply(v, s) PROVE Directories'
  <2> DEFINE p == s.body.principal
             l == Inserted(events[v][p], s.body)
  <2>1. p \in Principal /\ s.body \in Bodies
    BY DEF Principal, Bodies
  <2>2. events' = [events EXCEPT ![v][p] = l] /\ now' = now
    BY <1>1 DEF apply
  <2>3. l \in Seq(Bodies) /\ Sorted(l)
    BY <2>1, DirectoryHistory, InsertedHistory DEF History
  <2> HIDE DEF p, l
  <2>4. events' \in [Verifiers -> [Principal -> Seq(Bodies)]]
    BY <2>1, <2>2, <2>3 DEF Directories
  <2>5. ASSUME NEW w \in Verifiers, NEW q \in Principal PROVE Sorted(events'[w][q])
    <3>1. events'[w][q] = IF w = v /\ q = p THEN l ELSE events[w][q]
      BY <2>1, <2>2 DEF Directories
    <3> QED
      BY <3>1, <2>3 DEF Directories
  <2> QED
    BY <2>2, <2>4, <2>5 DEF Directories
<1>2. CASE Tick
  BY <1>2 DEF Tick, Directories
<1>3. CASE UNCHANGED <<now, events>>
  BY <1>3 DEF Directories
<1>4. ASSUME NEW v \in Verifiers, NEW s \in Records, enroll(v, s) PROVE UNCHANGED <<now, events>>
  BY <1>4 DEF enroll
<1>5. ASSUME NEW i \in Inputs, createAuthorizationRequest(i) PROVE UNCHANGED <<now, events>>
  BY <1>5 DEF createAuthorizationRequest, pvars
<1>6. ASSUME NEW r \in request, NEW p \in Policies, NEW f \in FactSets, decide(r, p, f)
      PROVE  UNCHANGED <<now, events>>
  BY <1>6 DEF decide, pvars
<1>7. CASE UNCHANGED vars
  BY <1>3, <1>7 DEF vars, pvars
<1> QED
  BY <1>1, <1>2, <1>3, <1>4, <1>5, <1>6, <1>7 DEF Next

(* The histories of every directory are in order at all times. *)
THEOREM DirectoriesOrdered == Spec => []Directories
<1>1. Init => Directories
  <2> SUFFICES ASSUME Init PROVE Directories
    OBVIOUS
  <2>1. now = 0 /\ events = [v \in Verifiers |-> [p \in Principal |-> <<>>]]
    BY DEF Init, PInit
  <2>2. <<>> \in Seq(Bodies) /\ Sorted(<<>>)
    BY DEF Sorted
  <2> QED
    BY <2>1, <2>2 DEF Directories
<1>2. Directories /\ [Next]_vars => Directories'
  BY NextDirectories
<1> QED
  BY <1>1, <1>2, PTL DEF Spec

(* From the time of a revocation on, stateAt() never answers "active", in  *)
(* whatever order, how late and how often issuers' events are applied, for *)
(* any number of them.                                                     *)
THEOREM RevokedForGoodHolds == Spec => []RevokedForGood
<1>1. ASSUME Directories PROVE RevokedForGood
  <2> SUFFICES ASSUME NEW v \in Verifiers, NEW p \in Principal, NEW e \in Histories(v, p),
                      e.kind \in {"revoked", "decommissioned"}, NEW at \in e.at..MaxTime
               PROVE  stateAt(v, p, at).status # "active"
    BY DEF RevokedForGood
  <2> DEFINE list == events[v][p]
             n == Relevant(list, at)
             known == {r \in entries[v][p] : at >= r.created}
             start == [status |-> "active", keys |-> (CHOOSE r \in known : TRUE).keys]
  <2>1. History(list) /\ Len(list) \in Nat /\ Histories(v, p) = First(list, Len(list))
    BY <1>1, DirectoryHistory
  <2>2. PICK m \in 1..Len(list) : e = list[m]
    BY <2>1 DEF First
  <2>3. e.at \in Nat /\ at \in Int /\ e.at <= at
    BY <2>1, <2>2, HistoryTypes, PrincipalsAssumption
  <2>4. n \in 0..Len(list) /\ m <= n
    BY <2>1, <2>2, <2>3, RelevantFacts
  <2>5. n \in m..Len(list)
    BY <2>1, <2>4
  <2>6. folded(start, list, n).status \in Dead
    <3> HIDE DEF list, n, start
    <3> QED
      BY <2>1, <2>2, <2>5, RevokedFold DEF Dead
  <2>7. stateAt(v, p, at).status =
          IF known = {} THEN "unknown" ELSE folded(start, list, n).status
    BY DEF stateAt
  <2> HIDE DEF known, n, list, start
  <2> QED
    BY <2>6, <2>7 DEF Dead
<1> QED
  BY <1>1, DirectoriesOrdered, PTL

(* Two directories that hold the same record and the same events of a      *)
(* principal answer alike about every moment, for any number of events     *)
(* received in any order and any number of times, unless two different     *)
(* events carry the same time.                                             *)
THEOREM SameAnswerHolds == Spec => []SameAnswerUnlessTied
<1>1. ASSUME Directories PROVE SameAnswerUnlessTied
  <2> SUFFICES ASSUME NEW v \in Verifiers, NEW w \in Verifiers, NEW p \in Principal,
                      entries[v][p] = entries[w][p], Histories(v, p) = Histories(w, p),
                      ~Tied(v, p), NEW at \in 0..MaxTime
               PROVE  stateAt(v, p, at) = stateAt(w, p, at)
    BY DEF SameAnswerUnlessTied
  <2> DEFINE L == events[v][p]
             M == events[w][p]
             i == Relevant(L, at)
             j == Relevant(M, at)
             known == {r \in entries[v][p] : at >= r.created}
             start == [status |-> "active", keys |-> (CHOOSE r \in known : TRUE).keys]
  <2>1. /\ History(L) /\ Len(L) \in Nat /\ Histories(v, p) = First(L, Len(L))
        /\ History(M) /\ Len(M) \in Nat /\ Histories(w, p) = First(M, Len(M))
    BY <1>1, DirectoryHistory
  <2>2. First(L, Len(L)) = First(M, Len(M))
    BY <2>1
  <2>3. \A e, f \in First(L, Len(L)) : e.at = f.at => e = f
    BY <2>1 DEF Tied
  <2>4. at \in Int
    BY PrincipalsAssumption
  <2>5. /\ i \in 0..Len(L) /\ \A a \in 1..Len(L) : L[a].at <= at <=> a <= i
        /\ j \in 0..Len(M) /\ \A a \in 1..Len(M) : M[a].at <= at <=> a <= j
    BY <2>1, <2>4, RelevantFacts
  <2> HIDE DEF L, M, i, j
  <2>6. /\ First(L, i) = {e \in First(L, Len(L)) : e.at <= at}
        /\ First(M, j) = {e \in First(M, Len(M)) : e.at <= at}
    BY <2>1, <2>5, SMTT(30) DEF First
  <2>7. First(L, i) = First(M, j)
    BY <2>2, <2>6
  <2>8. folded(start, L, i) = folded(start, M, j)
    <3> HIDE DEF start
    <3> QED
      BY <2>1, <2>2, <2>3, <2>5, <2>7, SameFold
  <2> QED
    BY <2>8 DEF stateAt, L, M, i, j
<1> QED
  BY <1>1, DirectoriesOrdered, PTL

-----------------------------------------------------------------------------
(* firstOf() of three cases of which only the last applies. *)
LEMMA LastOfThree ==
    ASSUME NEW x, NEW y, NEW z
    PROVE  firstOf(<< <<FALSE, x>>, <<FALSE, y>>, <<TRUE, z>> >>) = z
<1> DEFINE cases == << <<FALSE, x>>, <<FALSE, y>>, <<TRUE, z>> >>
           hits == {i \in 1..Len(cases) : cases[i][1]}
           first == CHOOSE i \in hits : \A j \in hits : i <= j
<1>1. Len(cases) = 3
  OBVIOUS
<1>2. cases[1][1] = FALSE /\ cases[2][1] = FALSE /\ cases[3][1] = TRUE /\ cases[3][2] = z
  OBVIOUS
<1>3. firstOf(cases) = cases[first][2]
  BY DEF firstOf
<1> HIDE DEF cases
<1>4. \A i : i \in hits <=> i = 3
  <2>1. \A i : i \in 1..3 <=> i \in {1, 2, 3}
    OBVIOUS
  <2>2. \A i : i \in 1..Len(cases) <=> i \in {1, 2, 3}
    BY <1>1, <2>1
  <2> QED
    BY <2>2, <1>2, Zenon
<1>5. first = 3
  BY <1>4
<1> QED
  BY <1>2, <1>3, <1>5 DEF cases

(* A decision under a policy says what the engine does of the request, the *)
(* facts and the time that it records; the policy is valid and the facts   *)
(* are the evaluator's.                                                    *)
Replayable ==
    \A s \in decision :
        LET d == s.body IN
        /\ \E f \in FactSets : d.facts = decisionFacts(d.request, f)
        /\ \A p : <<p>> = d.policy =>
              validatePolicy(p) /\ d.decision = evaluated(d.request, p, d.facts, d.decided)

(* decide() leaves a replayable decision, and nothing alters one. *)
LEMMA NextReplayable == ASSUME Replayable, [Next]_vars PROVE Replayable'
<1>1. CASE UNCHANGED decision
  BY <1>1 DEF Replayable
<1>2. ASSUME NEW r \in request, NEW q \in Policies, NEW f \in FactSets, decide(r, q, f)
      PROVE  Replayable'
  <2> DEFINE known == decisionFacts(r, f)
             body == [decision |-> IF validatePolicy(q) THEN evaluated(r, q, known, now)
                                   ELSE "error",
                      request |-> r, facts |-> known, decided |-> now,
                      policy |-> IF validatePolicy(q) THEN <<q>> ELSE <<"invalid", q>>,
                      valid_until |-> r.expires]
  <2>1. decision' = {signObject(body, Evaluator.id, Evaluator.key)}
    BY <1>2 DEF decide
  <2>2. signObject(body, Evaluator.id, Evaluator.key).body = body
    BY DEF signObject
  <2>3. ASSUME NEW p, <<p>> = body.policy
        PROVE  /\ validatePolicy(p)
               /\ body.decision = evaluated(body.request, p, body.facts, body.decided)
    <3>1. validatePolicy(q)
      BY <2>3
    <3>2. p = q
      BY <2>3, <3>1
    <3> QED
      BY <3>1, <3>2
  <2>4. body.facts = decisionFacts(body.request, f)
    OBVIOUS
  <2> HIDE DEF body
  <2>5. \A s \in decision' : s.body = body
    BY <2>1, <2>2
  <2>6. ASSUME NEW s \in decision'
        PROVE  /\ \E h \in FactSets : s.body.facts = decisionFacts(s.body.request, h)
               /\ \A p : <<p>> = s.body.policy =>
                     validatePolicy(p) /\ s.body.decision =
                         evaluated(s.body.request, p, s.body.facts, s.body.decided)
    BY <2>3, <2>4, <2>5
  <2> QED
    BY <2>6 DEF Replayable, evaluated
<1>3. ASSUME NEW i \in Inputs, createAuthorizationRequest(i) PROVE UNCHANGED decision
  BY <1>3 DEF createAuthorizationRequest
<1>4. CASE UNCHANGED vars
  BY <1>1, <1>4 DEF vars
<1> QED
  BY <1>1, <1>2, <1>3, <1>4 DEF Next

(* Every decision is replayable at all times. *)
LEMMA AlwaysReplayable == Spec => []Replayable
<1>1. Init => Replayable
  BY DEF Init, Replayable
<1>2. Replayable /\ [Next]_vars => Replayable'
  BY NextReplayable
<1> QED
  BY <1>1, <1>2, PTL DEF Spec

(* "anyone holding the policy and facts can re-run it and must get the     *)
(* same result": verifyDecision() reproduces every decision of decide(),   *)
(* at any later time, whatever the policies, facts and validity times are. *)
THEOREM DecisionsReplayHolds == Spec => []DecisionsReplay
<1>1. ASSUME Replayable PROVE DecisionsReplay
  <2> SUFFICES ASSUME NEW v \in Verifiers, NEW s \in decision, NEW p \in Policies,
                      NEW f \in FactSets, <<p>> = s.body.policy,
                      decisionFacts(s.body.request, f) = s.body.facts
               PROVE  verifyDecision(v, s, s.body.request, "enforcement", now, {p}, {f},
                                     <<>>, Never).assurance = "reproducible"
    BY DEF DecisionsReplay
  <2> DEFINE d == s.body
             again == evaluated(d.request, p, decisionFacts(d.request, f), d.decided)
             binding == IF {p} = {} THEN check("not_checked", "no_policy")
                        ELSE IF \E q \in {p} : <<q>> = d.policy THEN pass
                        ELSE fail("policy_mismatch")
             replayed(q, g) == firstOf(<<
                 <<decisionFacts(d.request, g) # d.facts, fail("input_mismatch")>>,
                 <<evaluated(d.request, q, decisionFacts(d.request, g), d.decided)
                     # d.decision, fail("replay_mismatch")>>,
                 <<TRUE, pass>> >>)
             reproduced == IF {p} = {} \/ {f} = {}
                           THEN check("not_checked", "no_replay_inputs")
                           ELSE IF binding.status # "pass" THEN notChecked
                           ELSE replayed(CHOOSE q \in {p} : TRUE, CHOOSE g \in {f} : TRUE)
  <2>1. binding = pass /\ pass.status = "pass"
    BY DEF pass, check
  <2>2. (CHOOSE q \in {p} : TRUE) = p /\ (CHOOSE g \in {f} : TRUE) = f
    OBVIOUS
  <2>3. again = d.decision
    BY <1>1 DEF Replayable
  <2>4. replayed(p, f) = pass
    <3>1. (decisionFacts(d.request, f) # d.facts) = FALSE /\ (again # d.decision) = FALSE
      BY <2>3
    <3>2. replayed(p, f) = firstOf(<<<<FALSE, fail("input_mismatch")>>,
                                     <<FALSE, fail("replay_mismatch")>>, <<TRUE, pass>> >>)
      BY <3>1, Zenon
    <3> QED
      BY <3>2, LastOfThree
  <2>5. reproduced.status = "pass"
    <3> HIDE DEF binding, replayed
    <3> QED
      BY <2>1, <2>2, <2>4
  <2>6. verifyDecision(v, s, d.request, "enforcement", now, {p}, {f}, <<>>, Never).assurance
          = IF reproduced.status = "pass" THEN "reproducible" ELSE "trusted"
    BY DEF verifyDecision
  <2> QED
    BY <2>5, <2>6
<1> QED
  BY <1>1, AlwaysReplayable, PTL

-----------------------------------------------------------------------------
(* One id starts with another, symbol by symbol. *)
LEMMA StartsWith ==
    ASSUME NEW s \in Seq(Symbols), NEW p \in Seq(Symbols)
    PROVE  startsWith(s, p) <=> Len(p) <= Len(s) /\ \A i \in 1..Len(p) : s[i] = p[i]
<1>1. ASSUME Len(p) <= Len(s)
      PROVE  SubSeq(s, 1, Len(p)) = p <=> \A i \in 1..Len(p) : s[i] = p[i]
  <2> DEFINE t == SubSeq(s, 1, Len(p))
  <2>1. t \in Seq(Symbols) /\ Len(t) = Len(p) /\ \A i \in 1..Len(p) : t[i] = s[i]
    BY <1>1
  <2> HIDE DEF t
  <2>2. ASSUME \A i \in 1..Len(p) : s[i] = p[i] PROVE t = p
    BY <2>1, <2>2
  <2>3. t = p => \A i \in 1..Len(p) : s[i] = p[i]
    BY <2>1
  <2> QED
    BY <2>2, <2>3 DEF t
<1> QED
  BY <1>1 DEF startsWith

(* What a pattern covers, a pattern it is within covers too. *)
LEMMA CoversWider ==
    ASSUME NEW value \in Seq(Symbols), NEW r \in Pattern, NEW p \in Pattern,
           covers(r, value), within(r, p)
    PROVE  covers(p, value)
<1>1. r.text \in Seq(Symbols) /\ p.text \in Seq(Symbols)
  BY DEF Pattern
<1>2. CASE ~p.wild
  BY <1>2 DEF covers, within
<1>3. CASE p.wild /\ ~r.wild
  BY <1>3 DEF covers, within
<1>4. CASE p.wild /\ r.wild
  <2>1. startsWith(value, r.text) /\ startsWith(r.text, p.text)
    BY <1>4 DEF covers, within
  <2>2. /\ Len(r.text) <= Len(value) /\ \A i \in 1..Len(r.text) : value[i] = r.text[i]
        /\ Len(p.text) <= Len(r.text) /\ \A i \in 1..Len(p.text) : r.text[i] = p.text[i]
    BY <1>1, <2>1, StartsWith
  <2>3. Len(p.text) <= Len(value) /\ \A i \in 1..Len(p.text) : value[i] = p.text[i]
    <3>1. Len(p.text) \in Nat /\ Len(r.text) \in Nat /\ Len(value) \in Nat
      BY <1>1
    <3> QED
      BY <2>2, <3>1
  <2>4. startsWith(value, p.text)
    BY <1>1, <2>3, StartsWith
  <2> QED
    BY <1>4, <2>4 DEF covers
<1> QED
  BY <1>2, <1>3, <1>4

(* A scope allows an action on a resource for an amount. *)
Allows(scope, action, value, amount) ==
    /\ action \in scope.actions
    /\ \E p \in scope.resources : covers(p, value)
    /\ ~Exceeds(amount, scope.max_amount)

(* What a scope allows, a scope it is within allows. *)
LEMMA AllowsWider ==
    ASSUME NEW child, NEW parent, NEW action, NEW value \in Seq(Symbols), NEW amount \in Int,
           child.resources \subseteq Pattern, child.max_amount \in Int,
           parent.resources \subseteq Pattern, parent.max_amount \in Int,
           Allows(child, action, value, amount), scopeWithin(child, parent)
    PROVE  Allows(parent, action, value, amount)
<1>1. action \in parent.actions
  BY DEF Allows, scopeWithin
<1>2. \E p \in parent.resources : covers(p, value)
  <2>1. PICK r \in child.resources : covers(r, value)
    BY DEF Allows
  <2>2. PICK p \in parent.resources : within(r, p)
    BY DEF scopeWithin
  <2>3. covers(p, value)
    BY <2>1, <2>2, CoversWider
  <2> QED
    BY <2>3
<1>3. ~Exceeds(amount, parent.max_amount)
  BY DEF Allows, scopeWithin, Exceeds, Never
<1> QED
  BY <1>1, <1>2, <1>3 DEF Allows

(* Along a chain that continues link by link, what the leaf allows every   *)
(* link allows: of the links that do not, the last one would have a child. *)
LEMMA ChainNarrows ==
    ASSUME NEW chain \in Chains, NEW action, NEW value \in Seq(Symbols), NEW amount \in Int,
           \A i \in 2..Len(chain) : linkContinues(chain[i].body, chain[i - 1].body),
           Allows(chain[Len(chain)].body.scope, action, value, amount)
    PROVE  \A i \in 1..Len(chain) : Allows(chain[i].body.scope, action, value, amount)
<1> DEFINE n == Len(chain)
           scope(i) == chain[i].body.scope
           ok(i) == Allows(scope(i), action, value, amount)
           T == {i \in 1..n : ~ok(i)}
<1>1. /\ n \in Nat
      /\ \A i \in 1..n : scope(i).resources \subseteq Pattern /\ scope(i).max_amount \in Int
  BY AuthorityAssumption
<1>2. ok(n)
  OBVIOUS
<1>3. \A i \in 2..n : scopeWithin(scope(i), scope(i - 1))
  BY DEF linkContinues
<1> HIDE DEF n, scope
<1>4. T = {}
  <2> SUFFICES ASSUME T # {} PROVE FALSE
    OBVIOUS
  <2>1. T \subseteq 0..n
    BY <1>1
  <2>2. PICK x \in T : \A y \in T : y <= x
    <3> HIDE DEF T
    <3> QED
      BY <1>1, <2>1, GreatestNat
  <2>3. x \in 1..n /\ ~ok(x) /\ x # n
    BY <1>2
  <2>4. x + 1 \in 2..n /\ x + 1 \in 1..n /\ x + 1 - 1 = x /\ ~(x + 1 <= x)
    BY <1>1, <2>3
  <2>5. ok(x + 1)
    BY <2>2, <2>4
  <2>6. scopeWithin(scope(x + 1), scope(x))
    BY <1>3, <2>4
  <2>7. ok(x)
    BY <1>1, <2>3, <2>4, <2>5, <2>6, AllowsWider
  <2> QED
    BY <2>3, <2>7
<1> QED
  BY <1>4 DEF n, scope

(* The resource of a request is one of the inputs'. *)
RequestTyped == \A r \in request : r.resource \in Seq(Symbols)

(* Authority only narrows, for chains of any length over resource ids of   *)
(* any length: whatever request a chain is accepted for, every link of it  *)
(* by itself covers the action, the resource and the amount, and is valid. *)
THEOREM AuthorityNarrowsHolds == Spec => []AuthorityNarrows
<1>1. Init => RequestTyped
  BY DEF Init, RequestTyped
<1>2. ASSUME RequestTyped, [Next]_vars PROVE RequestTyped'
  <2>1. CASE UNCHANGED request
    BY <1>2, <2>1 DEF RequestTyped
  <2>2. ASSUME NEW i \in Inputs, createAuthorizationRequest(i) PROVE RequestTyped'
    <3>1. \A r \in request' : r.resource = i.resource
      BY <2>2 DEF createAuthorizationRequest
    <3> QED
      BY <3>1, AuthorityAssumption DEF RequestTyped
  <2>3. ASSUME NEW r \in request, NEW p \in Policies, NEW f \in FactSets, decide(r, p, f)
        PROVE  UNCHANGED request
    BY <2>3 DEF decide
  <2>4. CASE UNCHANGED vars
    BY <2>1, <2>4 DEF vars
  <2> QED
    BY <1>2, <2>1, <2>2, <2>3, <2>4 DEF Next
<1>3. ASSUME RequestTyped PROVE AuthorityNarrows
  <2> SUFFICES ASSUME NEW v \in Verifiers, NEW chain \in Chains, NEW r \in request,
                      NEW amount \in {Never, 1},
                      verifyDelegationChain(v, chain, r, amount, Roots, now, Revoked) = pass,
                      NEW i \in 1..Len(chain)
               PROVE  /\ Allows(chain[i].body.scope, r.action, r.resource, amount)
                      /\ now <= chain[i].body.expires
    BY DEF AuthorityNarrows, Allows
  <2>1. pass # fail("delegation_refused")
    BY DEF pass, fail, check
  <2>2. /\ \A j \in 1..Len(chain) : linkValid(v, chain[j], now, Revoked)
        /\ \A j \in 2..Len(chain) : linkContinues(chain[j].body, chain[j - 1].body)
        /\ leafAuthorises(chain[Len(chain)].body, r, amount)
    BY <2>1 DEF verifyDelegationChain
  <2>3. amount \in Int /\ r.resource \in Seq(Symbols)
    BY <1>3 DEF Never, RequestTyped
  <2>4. Allows(chain[Len(chain)].body.scope, r.action, r.resource, amount)
    BY <2>2 DEF leafAuthorises, Allows
  <2>5. Allows(chain[i].body.scope, r.action, r.resource, amount)
    BY <2>2, <2>3, <2>4, ChainNarrows
  <2>6. now <= chain[i].body.expires
    BY <2>2 DEF linkValid
  <2> QED
    BY <2>5, <2>6
<1> QED
  BY <1>1, <1>2, <1>3, PTL DEF Spec

-----------------------------------------------------------------------------
(* h holds the values of the conditions of S, parts included. *)
Solves(h, facts, S) ==
    /\ h = [c \in S |-> h[c]]
    /\ \A c \in S : h[c] = kleene(c, {h[d] : d \in Parts(c)}, facts)

(* Conditions are finite trees, so they have values: of those up to every  *)
(* depth in turn.                                                          *)
LEMMA SolutionExists ==
    ASSUME NEW facts PROVE \E h : Solves(h, facts, Conditions)
<1> DEFINE N == Cardinality(Conditions)
<1>0. N \in Nat
  BY PolicyAssumption, FS_CardinalityType
<1>1. PICK depth \in [Conditions -> 0..N] :
        \A c \in Conditions : \A d \in Parts(c) : d \in Conditions /\ depth[d] < depth[c]
  BY PolicyAssumption
<1> DEFINE Level(k) == {c \in Conditions : depth[c] < k}
           G == {k \in Nat : \E h : Solves(h, facts, Level(k))}
<1> HIDE DEF N
<1>2. \A c \in Conditions : depth[c] \in Nat /\ depth[c] < N + 1
  BY <1>0, <1>1
<1>3. 0 \in G
  <2> DEFINE h == [c \in {} |-> {}]
  <2>1. Level(0) = {}
    BY <1>2
  <2>2. h = [c \in {} |-> h[c]]
    OBVIOUS
  <2> HIDE DEF h
  <2>3. Solves(h, facts, {})
    BY <2>2, Zenon DEF Solves
  <2>4. \E f : Solves(f, facts, Level(0))
    BY <2>1, <2>3, Zenon
  <2>5. 0 \in Nat
    OBVIOUS
  <2> QED
    BY <2>4, <2>5, Zenon
<1>4. ASSUME NEW k \in 0..N, k \in G PROVE k + 1 \in G
  <2>1. PICK h : Solves(h, facts, Level(k))
    BY <1>4, Zenon
  <2>2. \A c \in Level(k) : h[c] = kleene(c, {h[d] : d \in Parts(c)}, facts)
    BY <2>1, Zenon DEF Solves
  <2> DEFINE g == [c \in Level(k + 1) |-> kleene(c, {h[d] : d \in Parts(c)}, facts)]
  <2>3. k \in Nat /\ k + 1 \in Nat
    BY <1>0
  <2>4. ASSUME NEW c \in Level(k + 1) PROVE Parts(c) \subseteq Level(k)
    BY <1>1, <1>2, <2>3
  <2>5. Level(k) \subseteq Level(k + 1)
    BY <1>2, <2>3
  <2> HIDE DEF Level
  <2>6. \A c \in Level(k + 1) : g[c] = kleene(c, {h[d] : d \in Parts(c)}, facts)
    BY Zenon
  <2>7. g = [c \in Level(k + 1) |-> g[c]]
    BY Zenon
  <2> HIDE DEF g
  <2>8. \A c \in Level(k) : g[c] = h[c]
    BY <2>2, <2>5, <2>6, Zenon
  <2>9. ASSUME NEW c \in Level(k + 1) PROVE g[c] = kleene(c, {g[d] : d \in Parts(c)}, facts)
    <3>1. \A d \in Parts(c) : g[d] = h[d]
      BY <2>4, <2>8, Zenon
    <3>2. {g[d] : d \in Parts(c)} = {h[d] : d \in Parts(c)}
      BY <3>1
    <3> QED
      BY <2>6, <3>2, Zenon
  <2>10. Solves(g, facts, Level(k + 1))
    BY <2>7, <2>9, Zenon DEF Solves
  <2> QED
    BY <2>3, <2>10, Zenon
<1>5. \A k \in 0..(N + 1) : k \in G
  <2> HIDE DEF G
  <2>1. N + 1 \in Nat /\ (N + 1) - 1 = N
    BY <1>0
  <2> QED
    BY <1>3, <1>4, <2>1, Upwards
<1>6. N + 1 \in G
  BY <1>0, <1>5
<1>7. Level(N + 1) = Conditions
  BY <1>2
<1> HIDE DEF Level
<1> QED
  BY <1>6, <1>7, Zenon

(* The value of a condition comes from those of its parts. *)
LEMMA ConditionStep ==
    ASSUME NEW facts, NEW c \in Conditions
    PROVE  evaluateCondition(c, facts) =
               kleene(c, {evaluateCondition(d, facts) : d \in Parts(c)}, facts)
<1> DEFINE rec(h) == [x \in Conditions |-> kleene(x, {h[y] : y \in Parts(x)}, facts)]
           ev == CHOOSE h : h = rec(h)
<1>1. \E h : h = rec(h)
  <2>1. PICK h : Solves(h, facts, Conditions)
    BY SolutionExists
  <2>2. h = [x \in Conditions |-> h[x]]
        /\ \A x \in Conditions : h[x] = kleene(x, {h[y] : y \in Parts(x)}, facts)
    BY <2>1, Zenon DEF Solves
  <2>3. [x \in Conditions |-> h[x]] = rec(h)
    BY <2>2, Zenon
  <2> QED
    BY <2>2, <2>3, Zenon
<1>2. ev = rec(ev)
  BY <1>1, Zenon
<1>3. \A x : evaluateCondition(x, facts) = ev[x]
  BY DEF evaluateCondition
<1> HIDE DEF ev
<1>4. ev[c] = kleene(c, {ev[y] : y \in Parts(c)}, facts)
  BY <1>2, Zenon
<1>5. {ev[y] : y \in Parts(c)} = {evaluateCondition(d, facts) : d \in Parts(c)}
  BY <1>3
<1> QED
  BY <1>3, <1>4, <1>5, Zenon

(* The values of Kleene's logic. *)
Values == {{TRUE}, {FALSE}, BOOLEAN}

LEMMA ValuesDiffer == {TRUE} # {FALSE} /\ {TRUE} # BOOLEAN /\ {FALSE} # BOOLEAN
<1>1. TRUE # FALSE /\ TRUE \in BOOLEAN /\ FALSE \in BOOLEAN
  BY Zenon
<1> QED
  BY <1>1, Zenon

(* Negation within Kleene's logic. *)
LEMMA Negated ==
    ASSUME NEW v \in Values PROVE {~b : b \in UNION {v}} \in Values
<1>1. UNION {v} = v
  BY Zenon
<1>2. {~b : b \in {TRUE}} = {FALSE} /\ {~b : b \in {FALSE}} = {TRUE}
      /\ {~b : b \in BOOLEAN} = BOOLEAN
  BY Zenon
<1> QED
  BY <1>1, <1>2, Zenon DEF Values

LEMMA TruthValue == ASSUME NEW b \in BOOLEAN PROVE {b} \in Values
  BY Zenon DEF Values

(* A test has a truth value. *)
LEMMA TestValue ==
    ASSUME NEW op \in Ops \ {"exists"}, NEW value, NEW against
    PROVE  {Test(op, value, against)} \in Values
<1>1. CASE op = "eq"
  <2>1. Test(op, value, against) = (value = against)
    BY <1>1, Zenon DEF Test
  <2>2. (value = against) \in BOOLEAN
    BY SMT
  <2> QED
    BY <2>1, <2>2, TruthValue, Zenon
<1>2. CASE op = "neq"
  <2>1. Test(op, value, against) = (value # against)
    BY <1>2, Zenon DEF Test
  <2>2. (value # against) \in BOOLEAN
    BY SMT
  <2> QED
    BY <2>1, <2>2, TruthValue, Zenon
<1>3. CASE op \in {"in", "matches"}
  <2>1. Test(op, value, against) = (value \in against)
    BY <1>3, Zenon DEF Test
  <2>2. (value \in against) \in BOOLEAN
    BY SMT
  <2> QED
    BY <2>1, <2>2, TruthValue, Zenon
<1>4. CASE op = "lt"
  <2>1. Test(op, value, against) = (value < against)
    BY <1>4, Zenon DEF Test
  <2>2. (value < against) \in BOOLEAN
    BY SMT
  <2> QED
    BY <2>1, <2>2, TruthValue, Zenon
<1>5. CASE op = "lte"
  <2>1. Test(op, value, against) = (value <= against)
    BY <1>5, Zenon DEF Test
  <2>2. (value <= against) \in BOOLEAN
    BY SMT
  <2> QED
    BY <2>1, <2>2, TruthValue, Zenon
<1>6. CASE op = "gt"
  <2>1. Test(op, value, against) = (value > against)
    BY <1>6, Zenon DEF Test
  <2>2. (value > against) \in BOOLEAN
    BY SMT
  <2> QED
    BY <2>1, <2>2, TruthValue, Zenon
<1>7. CASE op = "gte"
  <2>1. Test(op, value, against) = (value >= against)
    BY <1>7, Zenon DEF Test
  <2>2. (value >= against) \in BOOLEAN
    BY SMT
  <2> QED
    BY <2>1, <2>2, TruthValue, Zenon
<1> QED
  BY <1>1, <1>2, <1>3, <1>4, <1>5, <1>6, <1>7, Zenon DEF Ops

(* What kleene() says for each kind of condition. *)
LEMMA KleeneAll ==
    ASSUME NEW c, NEW sub, NEW facts, c.op = "all"
    PROVE  kleene(c, sub, facts) =
             IF {FALSE} \in sub THEN {FALSE} ELSE IF BOOLEAN \in sub THEN BOOLEAN ELSE {TRUE}
  BY Zenon DEF kleene, Ops

LEMMA KleeneAny ==
    ASSUME NEW c, NEW sub, NEW facts, c.op = "any"
    PROVE  kleene(c, sub, facts) =
             IF {TRUE} \in sub THEN {TRUE} ELSE IF BOOLEAN \in sub THEN BOOLEAN ELSE {FALSE}
  BY Zenon DEF kleene, Ops

LEMMA KleeneNot ==
    ASSUME NEW c, NEW sub, NEW facts, c.op = "not"
    PROVE  kleene(c, sub, facts) = {~b : b \in UNION sub}
  BY Zenon DEF kleene, Ops

LEMMA KleeneExists ==
    ASSUME NEW c, NEW sub, NEW facts, c.op = "exists"
    PROVE  kleene(c, sub, facts) = {facts[c.fact] # Unknown}
  BY Zenon DEF kleene

LEMMA KleeneTest ==
    ASSUME NEW c, NEW sub, NEW facts, c.op \in Ops \ {"exists"}
    PROVE  kleene(c, sub, facts) = IF facts[c.fact] = Unknown THEN BOOLEAN
                                   ELSE {Test(c.op, facts[c.fact], c.value)}
<1>1. c.op \notin {"all", "any", "not", "exists"}
  BY Zenon DEF Ops
<1> QED
  BY <1>1, Zenon DEF kleene

(* Conditions by their depth: a claim that passes from the parts of every  *)
(* condition of C to the condition holds of all of them; F is the set of   *)
(* those of which it fails.                                                *)
LEMMA ByParts ==
    ASSUME NEW C \in SUBSET Conditions, NEW F \in SUBSET C,
           \A c \in C : Parts(c) \cap F = {} => c \notin F
    PROVE  F = {}
<1> DEFINE N == Cardinality(Conditions)
<1>0. N \in Nat
  BY PolicyAssumption, FS_CardinalityType
<1>1. PICK depth \in [Conditions -> 0..N] :
        \A c \in Conditions : \A d \in Parts(c) : d \in Conditions /\ depth[d] < depth[c]
  BY PolicyAssumption
<1> HIDE DEF N
<1> SUFFICES ASSUME F # {} PROVE FALSE
  OBVIOUS
<1> DEFINE D == {depth[c] : c \in F}
<1>2. D \subseteq Nat /\ D # {}
  BY <1>0, <1>1
<1>3. PICK k \in D : \A j \in D : k <= j
  <2> HIDE DEF D
  <2> QED
    BY <1>2, LeastNat
<1>4. PICK c \in F : k = depth[c]
  OBVIOUS
<1>5. \A d \in Parts(c) : depth[d] \in Nat /\ depth[c] \in Nat /\ depth[d] < depth[c]
  BY <1>0, <1>1
<1>6. ASSUME NEW d \in Parts(c), d \in F PROVE FALSE
  <2>1. depth[c] <= depth[d]
    BY <1>3, <1>4, <1>6
  <2> QED
    BY <1>5, <2>1
<1>7. Parts(c) \cap F = {}
  BY <1>6
<1> QED
  BY <1>4, <1>7

(* A condition is true, false or unknown. *)
LEMMA ConditionValue ==
    ASSUME NEW facts, NEW c \in Conditions PROVE evaluateCondition(c, facts) \in Values
<1> DEFINE val(x) == evaluateCondition(x, facts)
           F == {x \in Conditions : val(x) \notin Values}
<1>1. ASSUME NEW x \in Conditions, Parts(x) \cap F = {} PROVE x \notin F
  <2> DEFINE sub == {val(d) : d \in Parts(x)}
  <2>1. Parts(x) \subseteq Conditions /\ x.op \in Ops \cup {"all", "any", "not"}
    BY PolicyAssumption
  <2>2. val(x) = kleene(x, sub, facts)
    BY ConditionStep
  <2>3. \A d \in Parts(x) : val(d) \in Values
    BY <1>1, <2>1
  <2> HIDE DEF val
  <2>4. CASE x.op = "not"
    <3>1. PICK d : Parts(x) = {d}
      BY <2>4, PolicyAssumption DEF Parts
    <3>2. sub = {val(d)} /\ val(d) \in Values
      BY <3>1, <2>3, Zenon
    <3> HIDE DEF sub
    <3>3. val(x) = {~b : b \in UNION {val(d)}}
      BY <2>2, <2>4, <3>2, KleeneNot, Zenon
    <3> QED
      BY <3>2, <3>3, Negated, Zenon
  <2> HIDE DEF sub
  <2>5. CASE x.op = "all"
    BY <2>2, <2>5, KleeneAll, ZenonT(60) DEF Values
  <2>6. CASE x.op = "any"
    BY <2>2, <2>6, KleeneAny, ZenonT(60) DEF Values
  <2>7. CASE x.op = "exists"
    <3>1. (facts[x.fact] # Unknown) \in BOOLEAN
      BY SMT
    <3> QED
      BY <2>2, <2>7, <3>1, KleeneExists, TruthValue, Zenon
  <2>8. CASE x.op \in Ops \ {"exists"}
    <3>1. {Test(x.op, facts[x.fact], x.value)} \in Values /\ BOOLEAN \in Values
      BY <2>8, TestValue, Zenon DEF Values
    <3>2. val(x) \in Values
      BY <2>2, <2>8, <3>1, KleeneTest, Zenon
    <3> QED
      BY <3>2
  <2> QED
    BY <2>1, <2>4, <2>5, <2>6, <2>7, <2>8, Zenon
<1>2. F \subseteq Conditions
  OBVIOUS
<1>3. F = {}
  <2> HIDE DEF F
  <2> QED
    BY <1>1, <1>2, ByParts
<1> QED
  BY <1>3

(* The facts of g complete those of k, as far as C asks for them. *)
Completes(g, k, C) ==
    \A c \in C : c.op \in Ops => k[c.fact] = Unknown \/ k[c.fact] = g[c.fact]

(* What is known of a condition stays so when missing facts become known,  *)
(* unless it asks whether a fact is there.                                 *)
LEMMA KnownStays ==
    ASSUME NEW C \in SUBSET Conditions, WithoutExists(C), NEW k, NEW g, Completes(g, k, C),
           NEW c \in C
    PROVE  evaluateCondition(c, k) = BOOLEAN
           \/ evaluateCondition(c, g) = evaluateCondition(c, k)
<1> DEFINE old(x) == evaluateCondition(x, k)
           new(x) == evaluateCondition(x, g)
           F == {x \in C : ~(old(x) = BOOLEAN \/ new(x) = old(x))}
<1>1. ASSUME NEW x \in C, Parts(x) \cap F = {} PROVE x \notin F
  <2> DEFINE was == {old(d) : d \in Parts(x)}
             is  == {new(d) : d \in Parts(x)}
  <2>1. Parts(x) \subseteq C /\ x \in Conditions /\ x.op \in Ops \cup {"all", "any", "not"}
        /\ x.op # "exists"
    BY PolicyAssumption DEF WithoutExists
  <2>2. old(x) = kleene(x, was, k) /\ new(x) = kleene(x, is, g)
    BY <2>1, ConditionStep
  <2>3. \A d \in Parts(x) : old(d) \in Values /\ new(d) \in Values
    BY <2>1, ConditionValue
  <2>4. \A d \in Parts(x) : old(d) = BOOLEAN \/ new(d) = old(d)
    BY <1>1, <2>1
  <2> HIDE DEF old, new
  <2>5. CASE x.op = "not"
    <3>1. PICK d : Parts(x) = {d}
      BY <2>5, PolicyAssumption DEF Parts
    <3>2. was = {old(d)} /\ is = {new(d)} /\ (old(d) = BOOLEAN \/ new(d) = old(d))
      BY <3>1, <2>4, Zenon
    <3> HIDE DEF was, is
    <3>3. old(x) = {~b : b \in UNION {old(d)}} /\ new(x) = {~b : b \in UNION {new(d)}}
      BY <2>2, <2>5, <3>2, KleeneNot, Zenon
    <3>4. UNION {BOOLEAN} = BOOLEAN /\ {~b : b \in BOOLEAN} = BOOLEAN
      BY Zenon
    <3>5. CASE old(d) = BOOLEAN
      BY <3>3, <3>4, <3>5, Zenon
    <3>6. CASE new(d) = old(d)
      BY <3>3, <3>6, Zenon
    <3> QED
      BY <3>2, <3>5, <3>6, Zenon
  <2>6. CASE x.op = "all"
    <3>1. /\ old(x) = IF {FALSE} \in was THEN {FALSE}
                      ELSE IF BOOLEAN \in was THEN BOOLEAN ELSE {TRUE}
          /\ new(x) = IF {FALSE} \in is THEN {FALSE}
                      ELSE IF BOOLEAN \in is THEN BOOLEAN ELSE {TRUE}
      <4> HIDE DEF was, is
      <4> QED
        BY <2>2, <2>6, KleeneAll, Zenon
    <3>2. CASE {FALSE} \in was
      <4>1. PICK d \in Parts(x) : old(d) = {FALSE}
        BY <3>2, Zenon
      <4>2. {FALSE} \in is
        BY <4>1, <2>4, ValuesDiffer, Zenon
      <4> QED
        BY <3>1, <3>2, <4>2, Zenon
    <3>3. CASE {FALSE} \notin was /\ BOOLEAN \in was
      BY <3>1, <3>3, Zenon
    <3>4. CASE {FALSE} \notin was /\ BOOLEAN \notin was
      <4>1. \A d \in Parts(x) : new(d) = {TRUE}
        BY <3>4, <2>3, <2>4, Zenon DEF Values
      <4>2. {FALSE} \notin is /\ BOOLEAN \notin is
        BY <4>1, ValuesDiffer, Zenon
      <4> QED
        BY <3>1, <3>4, <4>2, Zenon
    <3> QED
      BY <3>2, <3>3, <3>4, Zenon
  <2>7. CASE x.op = "any"
    <3>1. /\ old(x) = IF {TRUE} \in was THEN {TRUE}
                      ELSE IF BOOLEAN \in was THEN BOOLEAN ELSE {FALSE}
          /\ new(x) = IF {TRUE} \in is THEN {TRUE}
                      ELSE IF BOOLEAN \in is THEN BOOLEAN ELSE {FALSE}
      <4> HIDE DEF was, is
      <4> QED
        BY <2>2, <2>7, KleeneAny, Zenon
    <3>2. CASE {TRUE} \in was
      <4>1. PICK d \in Parts(x) : old(d) = {TRUE}
        BY <3>2, Zenon
      <4>2. {TRUE} \in is
        BY <4>1, <2>4, ValuesDiffer, Zenon
      <4> QED
        BY <3>1, <3>2, <4>2, Zenon
    <3>3. CASE {TRUE} \notin was /\ BOOLEAN \in was
      BY <3>1, <3>3, Zenon
    <3>4. CASE {TRUE} \notin was /\ BOOLEAN \notin was
      <4>1. \A d \in Parts(x) : new(d) = {FALSE}
        BY <3>4, <2>3, <2>4, Zenon DEF Values
      <4>2. {TRUE} \notin is /\ BOOLEAN \notin is
        BY <4>1, ValuesDiffer, Zenon
      <4> QED
        BY <3>1, <3>4, <4>2, Zenon
    <3> QED
      BY <3>2, <3>3, <3>4, Zenon
  <2>8. CASE x.op \in Ops
    <3>1. x.op \in Ops \ {"exists"} /\ (k[x.fact] = Unknown \/ k[x.fact] = g[x.fact])
      BY <2>1, <2>8, Zenon DEF Completes
    <3> HIDE DEF was, is
    <3>2. /\ old(x) = IF k[x.fact] = Unknown THEN BOOLEAN
                      ELSE {Test(x.op, k[x.fact], x.value)}
          /\ new(x) = IF g[x.fact] = Unknown THEN BOOLEAN
                      ELSE {Test(x.op, g[x.fact], x.value)}
      BY <2>2, <3>1, KleeneTest, Zenon
    <3> QED
      BY <3>1, <3>2, Zenon
  <2> QED
    BY <2>1, <2>5, <2>6, <2>7, <2>8, Zenon
<1>2. F \in SUBSET C
  OBVIOUS
<1>3. F = {}
  <2> HIDE DEF F
  <2> QED
    BY <1>1, <1>2, ByParts
<1> QED
  BY <1>3

(* Decisions and their severities. *)
LEMMA Severities ==
    /\ Decisions = {"allow", "audit_only", "defer", "require_approval", "quarantine", "deny"}
    /\ \A d \in Decisions : SEVERITY(d) \in 1..6 /\ DECISIONS[SEVERITY(d)] = d
    /\ DECISIONS[1] = "allow" /\ DECISIONS[2] = "audit_only"
    /\ \A i \in 1..6 : i > 2 => DECISIONS[i] \notin {"allow", "audit_only"}
<1>1. /\ DECISIONS[1] = "allow" /\ DECISIONS[2] = "audit_only" /\ DECISIONS[3] = "defer"
      /\ DECISIONS[4] = "require_approval" /\ DECISIONS[5] = "quarantine"
      /\ DECISIONS[6] = "deny"
  BY DEF DECISIONS
<1>2. 1..6 = {1, 2, 3, 4, 5, 6}
  OBVIOUS
<1>3. Decisions = {"allow", "audit_only", "defer", "require_approval", "quarantine", "deny"}
  BY <1>1, <1>2, SMTT(30) DEF Decisions
<1>4. ASSUME NEW d \in Decisions PROVE SEVERITY(d) \in 1..6 /\ DECISIONS[SEVERITY(d)] = d
  <2>1. \E i \in 1..6 : DECISIONS[i] = d
    BY Zenon DEF Decisions
  <2> QED
    BY <2>1, Zenon DEF SEVERITY
<1>5. \A i \in 1..6 : i > 2 => DECISIONS[i] \notin {"allow", "audit_only"}
  <2>1. \A i \in 1..6 : i > 2 => i \in {3, 4, 5, 6}
    OBVIOUS
  <2> QED
    BY <1>1, <2>1
<1> QED
  BY <1>1, <1>3, <1>4, <1>5

(* The gravest of some decisions permits only if each of them does. *)
LEMMA GravestPermits ==
    ASSUME NEW D \in SUBSET Decisions, D # {}
    PROVE  /\ Gravest(D) \in Decisions
           /\ Gravest(D) \in {"allow", "audit_only"} => D \subseteq {"allow", "audit_only"}
<1> DEFINE T == {SEVERITY(d) : d \in D}
           top(i) == (\E d \in D : SEVERITY(d) = i) /\ \A d \in D : SEVERITY(d) <= i
           n == CHOOSE i \in 1..6 : top(i)
<1>1. T \subseteq 0..6 /\ T # {}
  <2>1. \A d \in D : SEVERITY(d) \in 0..6
    BY Severities
  <2> QED
    BY <2>1
<1>2. PICK x \in T : \A y \in T : y <= x
  <2>1. 6 \in Nat
    OBVIOUS
  <2> HIDE DEF T
  <2> QED
    BY <1>1, <2>1, GreatestNat
<1>3. x \in 1..6 /\ top(x)
  BY <1>2, Severities
<1>4. n \in 1..6 /\ top(n)
  <2> HIDE DEF top
  <2> QED
    BY <1>3
<1>5. Gravest(D) = DECISIONS[n]
  BY DEF Gravest
<1> HIDE DEF n
<1>6. Gravest(D) \in Decisions
  BY <1>4, <1>5 DEF Decisions
<1>7. ASSUME Gravest(D) \in {"allow", "audit_only"}, NEW d \in D PROVE d \in {"allow", "audit_only"}
  <2>1. ~(n > 2)
    BY <1>4, <1>5, <1>7, Severities
  <2>2. SEVERITY(d) \in 1..6 /\ DECISIONS[SEVERITY(d)] = d /\ SEVERITY(d) <= n
    BY <1>4, Severities
  <2>3. SEVERITY(d) \in {1, 2}
    BY <1>4, <2>1, <2>2
  <2> QED
    BY <2>2, <2>3, Severities
<1> QED
  BY <1>6, <1>7

(* Which decisions of the engine are permits. *)
LEMMA MapPermits ==
    ASSUME NEW d \in Decisions
    PROVE  MAP(d) = "permit" <=> d \in {"allow", "audit_only"}
<1>1. CASE d \in {"allow", "audit_only"}
  BY <1>1, Zenon DEF MAP
<1>2. CASE d \in {"deny", "quarantine"}
  <2>1. MAP(d) = "deny"
    BY <1>2, Zenon DEF MAP
  <2> QED
    BY <1>2, <2>1, Zenon
<1>3. CASE d \in {"require_approval", "defer"}
  <2>1. MAP(d) = "indeterminate"
    BY <1>3, Zenon DEF MAP
  <2> QED
    BY <1>3, <2>1, Zenon
<1> QED
  BY <1>1, <1>2, <1>3, Severities, Zenon

(* What the rules of a valid policy contribute are decisions. *)
LEMMA Contributions ==
    ASSUME NEW p, validatePolicy(p), NEW i \in 1..Len(p.rules), NEW facts
    PROVE  LET r == p.rules[i]
               v == evaluateCondition(r.when, facts)
           IN  /\ onUnknown(p, r) \in Decisions
               /\ contribution(p, r, facts) \subseteq Decisions
               /\ v = BOOLEAN => contribution(p, r, facts) = {onUnknown(p, r)}
<1> DEFINE r == p.rules[i]
           v == evaluateCondition(r.when, facts)
<1>1. /\ r.when \in Conditions /\ r.decision \in Decisions
      /\ r.on_unknown \in Decisions \cup {"none"} /\ p.on_unknown \in Decisions \cup {"none"}
  BY DEF validatePolicy
<1>2. onUnknown(p, r) \in Decisions
  <2>1. "defer" \in Decisions
    BY Severities
  <2> HIDE DEF r
  <2> QED
    BY <1>1, <2>1, Zenon DEF onUnknown
<1>3. v \in Values
  BY <1>1, ConditionValue
<1>4. /\ v = {TRUE} => contribution(p, r, facts) = {r.decision}
      /\ v = {FALSE} => contribution(p, r, facts) = {}
      /\ v = BOOLEAN => contribution(p, r, facts) = {onUnknown(p, r)}
  <2> HIDE DEF r
  <2> QED
    BY ValuesDiffer, Zenon DEF contribution
<1>5. contribution(p, r, facts) \subseteq Decisions
  <2> HIDE DEF r, v
  <2> QED
    BY <1>1, <1>2, <1>3, <1>4, Zenon DEF Values
<1> QED
  BY <1>2, <1>4, <1>5

(* A permit of a policy that permits nothing on missing input rests on     *)
(* rules that are all known, so completing the facts changes nothing.      *)
LEMMA PermitStays ==
    ASSUME NEW p, validatePolicy(p), NEW C \in SUBSET Conditions, WithoutExists(C),
           \A i \in 1..Len(p.rules) :
               p.rules[i].when \in C /\ MAP(onUnknown(p, p.rules[i])) # "permit",
           NEW k, NEW g, Completes(g, k, C), MAP(evaluatePolicy(p, k)) = "permit"
    PROVE  evaluatePolicy(p, g) = evaluatePolicy(p, k)
<1> DEFINE I == 1..Len(p.rules)
           con(i, facts) == contribution(p, p.rules[i], facts)
           all(facts) == UNION {con(i, facts) : i \in I}
<1>1. \A facts : evaluatePolicy(p, facts) =
                   IF all(facts) = {} THEN p.default ELSE Gravest(all(facts))
  BY DEF evaluatePolicy
<1>2. \A i \in I : con(i, k) \subseteq Decisions
  BY Contributions
<1>3. all(k) \subseteq Decisions
  <2> HIDE DEF con, I
  <2> QED
    BY <1>2, Zenon
<1>4. ASSUME all(k) # {} PROVE all(k) \subseteq {"allow", "audit_only"}
  <2> HIDE DEF all
  <2>1. Gravest(all(k)) \in Decisions /\ MAP(Gravest(all(k))) = "permit"
    BY <1>1, <1>3, <1>4, GravestPermits
  <2>2. Gravest(all(k)) \in {"allow", "audit_only"}
    BY <2>1, MapPermits, Zenon
  <2> QED
    BY <1>3, <1>4, <2>2, GravestPermits
<1>5. ASSUME NEW i \in I PROVE con(i, g) = con(i, k)
  <2> DEFINE r == p.rules[i]
  <2>1. evaluateCondition(r.when, k) # BOOLEAN
    <3> SUFFICES ASSUME evaluateCondition(r.when, k) = BOOLEAN PROVE FALSE
      OBVIOUS
    <3>1. con(i, k) = {onUnknown(p, r)} /\ onUnknown(p, r) \in Decisions
      BY Contributions
    <3> HIDE DEF con
    <3>2. onUnknown(p, r) \in all(k)
      BY <3>1
    <3>3. onUnknown(p, r) \in {"allow", "audit_only"}
      <4> HIDE DEF all
      <4> QED
        BY <1>4, <3>2, Zenon
    <3>4. MAP(onUnknown(p, r)) = "permit"
      BY <3>1, <3>3, MapPermits, Zenon
    <3> QED
      BY <3>4
  <2>2. evaluateCondition(r.when, g) = evaluateCondition(r.when, k)
    BY <2>1, KnownStays
  <2> QED
    BY <2>2, Zenon DEF contribution
<1>6. all(g) = all(k)
  <2> HIDE DEF con
  <2> QED
    BY <1>5
<1> HIDE DEF all
<1> QED
  BY <1>1, <1>6

(* "we could not tell" never becomes "safe": for every policy, whatever    *)
(* its rules and conditions, that permits nothing on missing input and     *)
(* does not ask whether a fact is there, a decision to permit stays one    *)
(* however the facts that were missing turn out.                           *)
THEOREM PermitSurvivesFactsHolds == Spec => []PermitSurvivesFacts
<1>1. ASSUME Replayable PROVE PermitSurvivesFacts
  <2> SUFFICES ASSUME
          NEW s \in decision, NEW p \in Policies,
          s.body.policy = <<p>>, s.body.decision = "permit",
          \A r \in {p.rules[i] : i \in 1..Len(p.rules)} : MAP(onUnknown(p, r)) # "permit",
          NEW C \in SUBSET Conditions, WithoutExists(C),
          \A r \in {p.rules[i] : i \in 1..Len(p.rules)} : r.when \in C,
          NEW g \in FactSets, \A n \in DOMAIN g : s.body.facts[n] \in {Unknown, g[n]}
        PROVE evaluated(s.body.request, p, decisionFacts(s.body.request, g), s.body.decided)
                = "permit"
    BY DEF PermitSurvivesFacts
  <2> DEFINE d == s.body
             h == decisionFacts(d.request, g)
  <2>1. PICK f \in FactSets : d.facts = decisionFacts(d.request, f)
    BY <1>1 DEF Replayable
  <2>2. validatePolicy(p) /\ d.decision = evaluated(d.request, p, d.facts, d.decided)
    BY <1>1 DEF Replayable
  <2>3. Completes(h, d.facts, C)
    <3> SUFFICES ASSUME NEW c \in C, c.op \in Ops
                 PROVE  d.facts[c.fact] = Unknown \/ d.facts[c.fact] = h[c.fact]
      BY DEF Completes
    <3>1. c.fact \in RequestFacts \cup DOMAIN f /\ c.fact \in RequestFacts \cup DOMAIN g
      BY AuthorityAssumption
    <3>2. CASE c.fact \in RequestFacts
      BY <2>1, <3>2 DEF decisionFacts
    <3>3. CASE c.fact \notin RequestFacts
      <4>1. c.fact \in DOMAIN g /\ h[c.fact] = g[c.fact]
        BY <3>1, <3>3 DEF decisionFacts
      <4> QED
        BY <4>1
    <3> QED
      BY <3>2, <3>3
  <2>4. ~(d.decided > d.request.expires) /\ MAP(evaluatePolicy(p, d.facts)) = "permit"
    BY <2>2 DEF evaluated
  <2>5. \A i \in 1..Len(p.rules) :
            p.rules[i].when \in C /\ MAP(onUnknown(p, p.rules[i])) # "permit"
    OBVIOUS
  <2> HIDE DEF h
  <2>6. evaluatePolicy(p, h) = evaluatePolicy(p, d.facts)
    BY <2>2, <2>3, <2>4, <2>5, PermitStays
  <2> QED
    BY <2>4, <2>6 DEF evaluated, h
<1> QED
  BY <1>1, AlwaysReplayable, PTL
=============================================================================
