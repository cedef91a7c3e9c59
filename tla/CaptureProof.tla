---------------------------- MODULE CaptureProof ----------------------------
(* Theorems about Capture, for every queue size, batch size and retry limit, *)
(* and about CoolClient, for any number of calls and connections.            *)
EXTENDS CoolClient, TLAPS, SequenceTheorems, FiniteSetTheorems

(* drain() is suspended exactly while inFlight is a running drain, and it  *)
(* holds a batch exactly then.                                             *)
DrainState ==
    /\ inFlight = "running" <=> drain # "idle"
    /\ drain = "idle" <=> batch = <<>>
    /\ drain = "settling" <=> result # "none"

PromiseStatus == {"none", "pending", "resolved", "rejected"}

(* What splice(0, batchSize) does to a queue. *)
LEMMA Splice ==
    ASSUME NEW q \in Seq(Events), q # <<>>
    PROVE  /\ SubSeq(q, 1, Lesser(BatchSize, Len(q))) \in Seq(Events)
           /\ SubSeq(q, 1, Lesser(BatchSize, Len(q))) # <<>>
           /\ SubSeq(q, BatchSize + 1, Len(q)) \in Seq(Events)
           /\ Len(SubSeq(q, 1, Lesser(BatchSize, Len(q)))) <= BatchSize
           /\ Len(SubSeq(q, 1, Lesser(BatchSize, Len(q))))
                 + Len(SubSeq(q, BatchSize + 1, Len(q))) = Len(q)
<1> DEFINE n == Lesser(BatchSize, Len(q))
           front == SubSeq(q, 1, n)
           rest == SubSeq(q, BatchSize + 1, Len(q))
<1>1. Len(q) \in Nat /\ Len(q) >= 1
  OBVIOUS
<1>2. BatchSize \in Nat /\ BatchSize >= 1
  BY CaptureAssumption
<1>3. n = IF BatchSize <= Len(q) THEN BatchSize ELSE Len(q)
  BY DEF Lesser
<1>4. n \in 1..Len(q) /\ n <= BatchSize
  BY <1>1, <1>2, <1>3
<1> HIDE DEF n
<1>5. front \in Seq(Events) /\ Len(front) = n
  BY <1>4
<1>6. rest \in Seq(Events)
      /\ Len(rest) = IF BatchSize + 1 <= Len(q) THEN Len(q) - BatchSize ELSE 0
  BY <1>1, <1>2
<1> HIDE DEF front, rest
<1>7. Len(front) + Len(rest) = Len(q)
  <2>1. CASE BatchSize <= Len(q)
    <3>1. Len(rest) = Len(q) - BatchSize
      BY <2>1, <1>1, <1>2, <1>6
    <3> QED
      BY <3>1, <2>1, <1>1, <1>2, <1>3, <1>5
  <2>2. CASE ~(BatchSize <= Len(q))
    <3>1. Len(rest) = 0
      BY <2>2, <1>1, <1>2, <1>6
    <3> QED
      BY <3>1, <2>2, <1>1, <1>2, <1>3, <1>5
  <2> QED
    BY <2>1, <2>2
<1>8. front # <<>>
  BY <1>4, <1>5
<1>9. Len(front) <= BatchSize
  BY <1>4, <1>5
<1> QED
  BY <1>5, <1>6, <1>7, <1>8, <1>9 DEF front, rest, n

(* Settling promises, as onDrop and the sink do, keeps their type. *)
LEMMA SettleType ==
    ASSUME NEW p \in [Events -> PromiseStatus], NEW S, NEW st \in PromiseStatus
    PROVE  Settle(p, S, st) \in [Events -> PromiseStatus]
BY DEF Settle

(* What channel.send() leaves behind has the types of the worker. *)
LEMMA SendType ==
    ASSUME NEW b \in Seq(Events), NEW p \in [Events -> PromiseStatus],
           log \in Seq(Events), Send(b, p)
    PROVE  /\ result' \in {"ok", "fail"}
           /\ log' \in Seq(Events)
           /\ promise' \in [Events -> PromiseStatus]
<1>0. "resolved" \in PromiseStatus
  BY DEF PromiseStatus
<1>1. CASE ~ChannelOpen /\ result' = "fail" /\ promise' = p /\ UNCHANGED log
  BY <1>1
<1>2. CASE result' = "ok" /\ log' = log \o b
           /\ promise' = Settle(p, Elements(b), "resolved")
  BY <1>2, <1>0, SettleType
<1>3. ASSUME NEW k \in 0..(Len(b) - 1), result' = "fail",
             log' = log \o SubSeq(b, 1, k) \/ log' = log \o SubSeq(b, 1, k + 1),
             promise' = Settle(p, Elements(SubSeq(b, 1, k)), "resolved")
      PROVE  /\ result' \in {"ok", "fail"}
             /\ log' \in Seq(Events)
             /\ promise' \in [Events -> PromiseStatus]
  <2>1. SubSeq(b, 1, k) \in Seq(Events) /\ SubSeq(b, 1, k + 1) \in Seq(Events)
    BY <1>3
  <2>2. log' \in Seq(Events)
    <3>1. /\ log \o SubSeq(b, 1, k) \in Seq(Events)
          /\ log \o SubSeq(b, 1, k + 1) \in Seq(Events)
      BY <2>1, ConcatProperties
    <3> QED
      BY <3>1, <1>3
  <2>3. promise' \in [Events -> PromiseStatus]
    BY <1>3, <1>0, SettleType
  <2> QED
    BY <2>2, <2>3, <1>3
<1> QED
  BY <1>1, <1>2, <1>3 DEF Send

-----------------------------------------------------------------------------
(* Sequences of event numbers in capture order. *)
Increasing(s) == \A i, j \in 1..Len(s) : i < j => s[i] < s[j]

(* A batch b in the hands of drain() and the queue q behind it. *)
Flow(b, q) ==
    /\ b \in Seq(Events) /\ q \in Seq(Events)
    /\ Len(b) <= BatchSize
    /\ Increasing(b) /\ Increasing(q)
    /\ \A x \in Elements(b), y \in Elements(q) : x < y

(* An empty batch or queue holds no event. *)
LEMMA EmptyFacts ==
    /\ <<>> \in Seq(Events) /\ Len(<<>>) = 0
    /\ Elements(<<>>) = {} /\ Increasing(<<>>)
BY DEF Elements, Increasing

(* Events are numbers, so capture order is <. *)
LEMMA EventsInt == \A e \in Events : e \in Int
BY CaptureAssumption DEF Events

(* The events of a batch or queue are events; a nonempty one has some. *)
LEMMA ElementsType ==
    ASSUME NEW s \in Seq(Events)
    PROVE  /\ Elements(s) \subseteq Events
           /\ s # <<>> <=> Elements(s) # {}
BY DEF Elements

(* Appending the next event keeps the order. *)
LEMMA AppendFacts ==
    ASSUME NEW q \in Seq(Events), NEW e \in Events, Increasing(q),
           \A x \in Elements(q) : x < e
    PROVE  /\ Append(q, e) \in Seq(Events)
           /\ Len(Append(q, e)) = Len(q) + 1
           /\ Elements(Append(q, e)) = Elements(q) \cup {e}
           /\ Increasing(Append(q, e))
<1> DEFINE r == Append(q, e)
<1>1. /\ r \in Seq(Events) /\ Len(r) = Len(q) + 1 /\ Len(q) \in Nat
      /\ \A i \in 1..Len(q) : r[i] = q[i]
      /\ r[Len(q) + 1] = e
  BY AppendProperties
<1> HIDE DEF r
<1>2. Elements(r) = Elements(q) \cup {e}
  <2>1. \A x \in Elements(r) : x \in Elements(q) \cup {e}
    <3> SUFFICES ASSUME NEW i \in 1..Len(r) PROVE r[i] \in Elements(q) \cup {e}
      BY DEF Elements
    <3>1. i \in 1..Len(q) \/ i = Len(q) + 1
      BY <1>1
    <3> QED
      BY <3>1, <1>1 DEF Elements
  <2>2. \A x \in Elements(q) : x \in Elements(r)
    <3> SUFFICES ASSUME NEW i \in 1..Len(q) PROVE q[i] \in Elements(r)
      BY DEF Elements
    <3>1. i \in 1..Len(r) /\ q[i] = r[i]
      BY <1>1
    <3> QED
      BY <3>1 DEF Elements
  <2>3. e \in Elements(r)
    <3>1. Len(q) + 1 \in 1..Len(r)
      BY <1>1
    <3> QED
      BY <3>1, <1>1 DEF Elements
  <2> QED
    BY <2>1, <2>2, <2>3
<1>3. Increasing(r)
  <2> SUFFICES ASSUME NEW i \in 1..Len(r), NEW j \in 1..Len(r), i < j
               PROVE  r[i] < r[j]
    BY DEF Increasing
  <2>1. i \in 1..Len(q) /\ r[i] = q[i]
    BY <1>1
  <2>2. CASE j = Len(q) + 1
    <3>1. q[i] \in Elements(q)
      BY <2>1 DEF Elements
    <3> QED
      BY <3>1, <2>1, <2>2, <1>1
  <2>3. CASE j # Len(q) + 1
    <3>1. j \in 1..Len(q) /\ r[j] = q[j]
      BY <2>3, <1>1
    <3> QED
      BY <3>1, <2>1 DEF Increasing
  <2> QED
    BY <2>2, <2>3
<1> QED
  BY <1>1, <1>2, <1>3 DEF r

(* Evicting the oldest event removes exactly that event. *)
LEMMA TailFacts ==
    ASSUME NEW q \in Seq(Events), q # <<>>, Increasing(q)
    PROVE  /\ Tail(q) \in Seq(Events)
           /\ Len(Tail(q)) = Len(q) - 1 /\ Len(q) \in Nat \ {0}
           /\ Head(q) \in Elements(q)
           /\ Elements(Tail(q)) = Elements(q) \ {Head(q)}
           /\ Increasing(Tail(q))
<1> DEFINE t == Tail(q)
<1>1. /\ t \in Seq(Events) /\ Len(t) = Len(q) - 1 /\ Len(q) \in Nat \ {0}
      /\ \A i \in 1..Len(t) : t[i] = q[i + 1]
      /\ Head(q) = q[1]
  BY HeadTailProperties, EmptySeq
<1> HIDE DEF t
<1>0. 1 \in 1..Len(q)
  BY <1>1
<1>2. Head(q) \in Elements(q)
  BY <1>0, <1>1 DEF Elements
<1>3. Elements(t) = Elements(q) \ {Head(q)}
  <2>1. ASSUME NEW i \in 1..Len(t)
        PROVE  t[i] \in Elements(q) /\ t[i] # q[1]
    <3>1. i + 1 \in 1..Len(q) /\ t[i] = q[i + 1] /\ 1 < i + 1
      BY <1>1
    <3>2. q[1] < q[i + 1]
      BY <3>1, <1>0 DEF Increasing
    <3>3. q[1] \in Int /\ q[i + 1] \in Int
      BY <3>1, <1>0, ElementOfSeq, EventsInt
    <3> QED
      BY <3>1, <3>2, <3>3 DEF Elements
  <2>2. ASSUME NEW i \in 1..Len(q), q[i] # q[1]
        PROVE  q[i] \in Elements(t)
    <3>1. i - 1 \in 1..Len(t)
      BY <2>2, <1>1
    <3>2. t[i - 1] = q[(i - 1) + 1] /\ (i - 1) + 1 = i
      BY <3>1, <1>1
    <3> QED
      BY <3>1, <3>2 DEF Elements
  <2> QED
    BY <2>1, <2>2, <1>1 DEF Elements
<1>4. Increasing(t)
  <2> SUFFICES ASSUME NEW i \in 1..Len(t), NEW j \in 1..Len(t), i < j
               PROVE  t[i] < t[j]
    BY DEF Increasing
  <2>1. i + 1 \in 1..Len(q) /\ j + 1 \in 1..Len(q) /\ i + 1 < j + 1
    BY <1>1
  <2> QED
    BY <2>1, <1>1 DEF Increasing
<1> QED
  BY <1>1, <1>2, <1>3, <1>4 DEF t

(* The batch that splice() takes and the queue it leaves. *)
LEMMA SpliceFlow ==
    ASSUME NEW q \in Seq(Events), q # <<>>, Increasing(q)
    PROVE  LET front == SubSeq(q, 1, Lesser(BatchSize, Len(q)))
               rest  == SubSeq(q, BatchSize + 1, Len(q))
           IN  /\ Flow(front, rest)
               /\ Elements(front) \cup Elements(rest) = Elements(q)
<1> DEFINE n == Lesser(BatchSize, Len(q))
           front == SubSeq(q, 1, n)
           rest == SubSeq(q, BatchSize + 1, Len(q))
<1>1. Len(q) \in Nat /\ Len(q) >= 1 /\ BatchSize \in Nat /\ BatchSize >= 1
  BY CaptureAssumption
<1>2. n = IF BatchSize <= Len(q) THEN BatchSize ELSE Len(q)
  BY DEF Lesser
<1>3. n \in 1..Len(q) /\ n <= BatchSize
  BY <1>1, <1>2
<1> HIDE DEF n
<1>4. /\ front \in Seq(Events) /\ Len(front) = n
      /\ \A i \in 1..n : front[i] = q[i]
  BY <1>1, <1>3
<1>5. /\ rest \in Seq(Events)
      /\ Len(rest) = IF BatchSize + 1 <= Len(q) THEN Len(q) - BatchSize ELSE 0
      /\ \A i \in 1..(Len(q) - BatchSize) : rest[i] = q[BatchSize + i]
  BY <1>1
<1> HIDE DEF front, rest
<1>6. \A i \in 1..Len(rest) :
         /\ rest[i] = q[BatchSize + i] /\ BatchSize + i \in 1..Len(q)
         /\ n < BatchSize + i
  BY <1>1, <1>2, <1>3, <1>5
<1>7. Increasing(front)
  BY <1>1, <1>3, <1>4 DEF Increasing
<1>8. Increasing(rest)
  <2> SUFFICES ASSUME NEW i \in 1..Len(rest), NEW j \in 1..Len(rest), i < j
               PROVE  rest[i] < rest[j]
    BY DEF Increasing
  <2>1. BatchSize + i < BatchSize + j
    BY <1>1
  <2> QED
    BY <2>1, <1>6 DEF Increasing
<1>9. \A x \in Elements(front), y \in Elements(rest) : x < y
  <2> SUFFICES ASSUME NEW i \in 1..Len(front), NEW j \in 1..Len(rest)
               PROVE  front[i] < rest[j]
    BY DEF Elements
  <2>1. i \in 1..Len(q) /\ front[i] = q[i] /\ i < BatchSize + j
    BY <1>1, <1>3, <1>4, <1>6
  <2> QED
    BY <2>1, <1>6 DEF Increasing
<1>10. Elements(front) \cup Elements(rest) = Elements(q)
  <2>1. ASSUME NEW i \in 1..Len(front) PROVE front[i] \in Elements(q)
    BY <1>1, <1>3, <1>4 DEF Elements
  <2>2. ASSUME NEW i \in 1..Len(rest) PROVE rest[i] \in Elements(q)
    BY <1>6 DEF Elements
  <2>3. ASSUME NEW i \in 1..Len(q) PROVE q[i] \in Elements(front) \cup Elements(rest)
    <3>1. CASE i <= n
      <4>1. i \in 1..Len(front) /\ front[i] = q[i]
        BY <3>1, <1>3, <1>4
      <4> QED
        BY <4>1 DEF Elements
    <3>2. CASE ~(i <= n)
      <4>1. i > BatchSize /\ BatchSize + 1 <= Len(q)
        BY <3>2, <1>1, <1>2, <1>3
      <4>2. i - BatchSize \in 1..Len(rest) /\ BatchSize + (i - BatchSize) = i
        BY <4>1, <1>1, <1>5
      <4> QED
        BY <4>2, <1>6 DEF Elements
    <3> QED
      BY <3>1, <3>2
  <2> QED
    BY <2>1, <2>2, <2>3 DEF Elements
<1> QED
  BY <1>3, <1>4, <1>5, <1>7, <1>8, <1>9, <1>10 DEF Flow, front, rest, n

(* An increasing sequence has as many elements as places. *)
LEMMA CardElements ==
    ASSUME NEW s \in Seq(Events), Increasing(s)
    PROVE  IsFiniteSet(Elements(s)) /\ Cardinality(Elements(s)) = Len(s)
<1> DEFINE f == [i \in 1..Len(s) |-> s[i]]
<1>1. Len(s) \in Nat
  OBVIOUS
<1>2. IsFiniteSet(1..Len(s)) /\ Cardinality(1..Len(s)) = Len(s)
  BY <1>1, FS_Interval, SMTT(30)
<1>3. f \in Bijection(1..Len(s), Elements(s))
  <2>1. f \in [1..Len(s) -> Elements(s)]
    BY DEF Elements
  <2>2. \A a, b \in 1..Len(s) : f[a] = f[b] => a = b
    <3> SUFFICES ASSUME NEW a \in 1..Len(s), NEW b \in 1..Len(s), s[a] = s[b]
                 PROVE  a = b
      OBVIOUS
    <3>1. s[a] \in Int /\ s[b] \in Int
      BY ElementOfSeq, EventsInt
    <3>2. ~(a < b) /\ ~(b < a)
      BY <3>1 DEF Increasing
    <3> QED
      BY <3>2
  <2>3. \A y \in Elements(s) : \E a \in 1..Len(s) : f[a] = y
    BY DEF Elements
  <2> QED
    BY <2>1, <2>2, <2>3 DEF Bijection, Injection, Surjection, IsInjective
<1>4. ExistsBijection(1..Len(s), Elements(s))
  BY <1>3 DEF ExistsBijection
<1> QED
  BY <1>2, <1>4, FS_Bijection

-----------------------------------------------------------------------------
(* The head of drain()'s loop moves events from the queue to the batch and *)
(* nowhere else, keeps their order, and returns only with an empty queue.  *)
LEMMA TakeBatchStep ==
    ASSUME NEW q \in Seq(Events), Increasing(q),
           NEW p \in [Events -> PromiseStatus],
           log \in Seq(Events), TakeBatch(q, p)
    PROVE  /\ Flow(batch', queue')
           /\ Elements(batch') \cup Elements(queue') = Elements(q)
           /\ Len(batch') + Len(queue') = Len(q) /\ Len(queue') <= Len(q)
           /\ inFlight' \in {"running", "ended"} /\ drain' \in {"idle", "settling"}
           /\ inFlight' # "running" => queue' = <<>>
           /\ attempt' = 0 /\ result' \in {"none", "ok", "fail"}
           /\ DrainState'
           /\ log' \in Seq(Events) /\ promise' \in [Events -> PromiseStatus]
<1>1. CASE q = <<>>
  <2>1. /\ inFlight' = "ended" /\ drain' = "idle" /\ batch' = <<>> /\ attempt' = 0
        /\ result' = "none" /\ queue' = <<>> /\ promise' = p /\ log' = log
    BY <1>1 DEF TakeBatch
  <2>2. Flow(batch', queue')
    BY <2>1, EmptyFacts, CaptureAssumption DEF Flow
  <2>3. DrainState'
    BY <2>1 DEF DrainState
  <2> QED
    BY <2>1, <2>2, <2>3, <1>1, EmptyFacts
<1>2. CASE q # <<>>
  <2>1. /\ inFlight' = "running" /\ drain' = "settling" /\ attempt' = 0
        /\ batch' = SubSeq(q, 1, Lesser(BatchSize, Len(q)))
        /\ queue' = SubSeq(q, BatchSize + 1, Len(q))
        /\ Send(batch', p)
    BY <1>2 DEF TakeBatch
  <2>2. /\ Flow(batch', queue')
        /\ Elements(batch') \cup Elements(queue') = Elements(q)
    BY <2>1, <1>2, SpliceFlow
  <2>3. batch' \in Seq(Events) /\ queue' \in Seq(Events)
    BY <2>2 DEF Flow
  <2>4. /\ Len(batch') + Len(queue') = Len(q)
        /\ batch' # <<>>
    BY <2>1, <1>2, Splice
  <2>5. Len(queue') <= Len(q)
    BY <2>3, <2>4
  <2>6. /\ result' \in {"ok", "fail"} /\ log' \in Seq(Events)
        /\ promise' \in [Events -> PromiseStatus]
    BY <2>1, <2>3, SendType
  <2>7. DrainState'
    BY <2>1, <2>4, <2>6 DEF DrainState
  <2> QED
    BY <2>1, <2>2, <2>4, <2>5, <2>6, <2>7
<1> QED
  BY <1>1, <1>2

(* flush() likewise, whether it shares a drain or starts one. *)
LEMMA FlushStep ==
    ASSUME NEW q, Flow(batch, q), NEW p \in [Events -> PromiseStatus],
           TypeOK, DrainState, Flush(q, p)
    PROVE  /\ Flow(batch', queue')
           /\ Elements(batch') \cup Elements(queue') = Elements(batch) \cup Elements(q)
           /\ Len(batch') + Len(queue') = Len(batch) + Len(q) /\ Len(queue') <= Len(q)
           /\ inFlight' \in {"none", "running", "ended"}
           /\ drain' \in {"idle", "settling", "backoff"}
           /\ inFlight = "none" /\ inFlight' # "running" => queue' = <<>>
           /\ inFlight # "none" => inFlight' = inFlight /\ queue' = q
           /\ attempt' \in 0..MaxRetries /\ result' \in {"none", "ok", "fail"}
           /\ DrainState'
           /\ log' \in Seq(Events) /\ promise' \in [Events -> PromiseStatus]
<1>0. q \in Seq(Events) /\ Increasing(q) /\ log \in Seq(Events)
  BY DEF Flow, TypeOK
<1>1. CASE inFlight # "none"
  <2>1. queue' = q /\ promise' = p /\ UNCHANGED worker
    BY <1>1 DEF Flush
  <2>2. /\ batch' = batch /\ inFlight' = inFlight /\ drain' = drain
        /\ attempt' = attempt /\ result' = result /\ log' = log
    BY <2>1 DEF worker
  <2>3. DrainState'
    BY <2>2 DEF DrainState
  <2> QED
    BY <2>1, <2>2, <2>3, <1>0, <1>1 DEF TypeOK
<1>2. CASE inFlight = "none"
  <2>1. TakeBatch(q, p)
    BY <1>2 DEF Flush
  <2>2. batch = <<>>
    BY <1>2 DEF DrainState
  <2>3. Len(batch) = 0 /\ Elements(batch) = {}
    BY <2>2, EmptyFacts
  <2>4. 0 \in 0..MaxRetries
    BY CaptureAssumption
  <2>5. /\ Flow(batch', queue')
        /\ Elements(batch') \cup Elements(queue') = Elements(q)
        /\ Len(batch') + Len(queue') = Len(q) /\ Len(queue') <= Len(q)
        /\ inFlight' \in {"running", "ended"} /\ drain' \in {"idle", "settling"}
        /\ inFlight' # "running" => queue' = <<>>
        /\ attempt' = 0 /\ result' \in {"none", "ok", "fail"}
        /\ DrainState'
        /\ log' \in Seq(Events) /\ promise' \in [Events -> PromiseStatus]
    BY <2>1, <1>0, TakeBatchStep
  <2>6. Len(q) \in Nat
    BY <1>0
  <2> QED
    BY <2>3, <2>4, <2>5, <2>6, <1>2
<1> QED
  BY <1>1, <1>2

-----------------------------------------------------------------------------
(* While the queue is open every capture call has been accepted. *)
Fresh == ~closed => calls = accepted

(***************************************************************************)
(* The inductive invariant.  Accounting alone is not inductive: that a     *)
(* batch and the queue hold different events needs their order (Flow), and *)
(* that starting a drain forgets no batch needs DrainState.                *)
(***************************************************************************)
IInv ==
    /\ TypeOK /\ DrainState /\ Flow(batch, queue)
    /\ Fresh /\ NoStall /\ Accounting

(* Sets of events are finite: what counters count is a number. *)
LEMMA FiniteEvents ==
    ASSUME NEW S, S \subseteq Events
    PROVE  IsFiniteSet(S) /\ Cardinality(S) \in Nat
<1>1. IsFiniteSet(Events)
  BY CaptureAssumption, FS_Interval DEF Events
<1>2. IsFiniteSet(S)
  BY <1>1, FS_Subset
<1> QED
  BY <1>2, FS_CardinalityType

(* Disjoint sets of events: their sizes add up, as the counters of stats(). *)
LEMMA CardDisjointUnion ==
    ASSUME NEW S, NEW T, S \subseteq Events, T \subseteq Events, S \cap T = {}
    PROVE  Cardinality(S \cup T) = Cardinality(S) + Cardinality(T)
<1>1. IsFiniteSet(S) /\ IsFiniteSet(T) /\ Cardinality(S) \in Nat /\ Cardinality(T) \in Nat
  BY FiniteEvents
<1>2. Cardinality(S \cup T) = Cardinality(S) + Cardinality(T) - Cardinality(S \cap T)
  BY <1>1, FS_Union
<1>3. Cardinality(S \cap T) = 0
  BY FS_EmptySet
<1> QED
  BY <1>1, <1>2, <1>3

(* Moving the events D to delivered and L to lost, and accepting those     *)
(* numbered up to accepted', keeps the books.                              *)
LEMMA BooksKept ==
    ASSUME TypeOK, Accounting, NEW D, NEW L, TypeOK',
           D \subseteq Pending, L \subseteq Pending, D \cap L = {},
           delivered' = delivered \cup D, lost' = lost \cup L,
           Pending' = (Pending \ (D \cup L)) \cup ((accepted + 1)..accepted'),
           accepted <= accepted',
           sent' = sent + Cardinality(D), dropped' = dropped + Cardinality(L),
           sent' + dropped' + Len(batch') + Len(queue') = accepted'
    PROVE  Accounting'
<1>0. /\ calls \in Nat /\ accepted \in 0..calls
      /\ calls' \in Nat /\ accepted' \in 0..calls'
      /\ batch' \in Seq(Events) /\ queue' \in Seq(Events)
  BY CaptureAssumption DEF TypeOK
<1>1. /\ accepted \in Nat /\ accepted' \in Nat
      /\ sent \in Nat /\ dropped \in Nat
      /\ Len(batch) \in Nat /\ Len(queue) \in Nat
      /\ Len(batch') \in Nat /\ Len(queue') \in Nat
      /\ delivered \subseteq Events /\ lost \subseteq Events
      /\ batch \in Seq(Events) /\ queue \in Seq(Events)
  <2>1. accepted \in Nat /\ accepted' \in Nat
    BY <1>0
  <2>2. /\ sent \in Nat /\ dropped \in Nat
        /\ delivered \subseteq Events /\ lost \subseteq Events
        /\ batch \in Seq(Events) /\ queue \in Seq(Events)
    BY DEF TypeOK
  <2>3. Len(batch) \in Nat /\ Len(queue) \in Nat
    BY <2>2, LenProperties
  <2>4. Len(batch') \in Nat /\ Len(queue') \in Nat
    BY <1>0, LenProperties
  <2> QED
    BY <2>1, <2>2, <2>3, <2>4
<1>2. Pending \subseteq Events
  BY <1>1, ElementsType DEF Pending
<1>3. /\ IsFiniteSet(D) /\ IsFiniteSet(L) /\ IsFiniteSet(delivered) /\ IsFiniteSet(lost)
      /\ Cardinality(D) \in Nat /\ Cardinality(L) \in Nat
  BY <1>1, <1>2, FiniteEvents
<1>4. /\ delivered \cup lost \cup Pending = 1..accepted
      /\ delivered \cap lost = {} /\ (delivered \cup lost) \cap Pending = {}
      /\ sent = Cardinality(delivered) /\ dropped = Cardinality(lost)
      /\ sent + dropped + Len(batch) + Len(queue) = accepted
  BY DEF Accounting
<1>5. sent' = Cardinality(delivered')
  <2>1. delivered \cap D = {}
    BY <1>4
  <2> QED
    BY <2>1, <1>1, <1>2, <1>4, CardDisjointUnion
<1>6. dropped' = Cardinality(lost')
  <2>1. lost \cap L = {}
    BY <1>4
  <2> QED
    BY <2>1, <1>1, <1>2, <1>4, CardDisjointUnion
<1>7. 1..accepted' = (1..accepted) \cup ((accepted + 1)..accepted')
  BY <1>1, SMTT(30)
<1>8. (1..accepted) \cap ((accepted + 1)..accepted') = {}
  BY <1>1
<1>9. delivered' \cup lost' \cup Pending' = 1..accepted'
  BY <1>4, <1>7
<1>10. delivered' \cap lost' = {}
  BY <1>4
<1>11. (delivered' \cup lost') \cap Pending' = {}
  BY <1>4, <1>8
<1> QED
  BY <1>5, <1>6, <1>9, <1>10, <1>11 DEF Accounting

(* What queue.capture() does to the queue. *)
LEMMA PushStep ==
    ASSUME IInv, calls < MaxEvents
    PROVE  /\ Flow(batch, Pushed) /\ Len(Pushed) <= MaxQueue
           /\ Evicted \subseteq Elements(queue)
           /\ Elements(Pushed) =
                (Elements(queue) \ Evicted) \cup (IF closed THEN {} ELSE {calls + 1})
           /\ Cardinality(Evicted) \in Nat
           /\ Len(Pushed) + Cardinality(Evicted) = Len(queue) + (IF closed THEN 0 ELSE 1)
<1>1. /\ queue \in Seq(Events) /\ batch \in Seq(Events) /\ Increasing(queue)
      /\ Len(queue) \in Nat /\ Len(queue) <= MaxQueue /\ calls \in Nat
      /\ MaxQueue \in Nat /\ MaxQueue >= 1 /\ MaxEvents \in Nat /\ Flow(batch, queue)
  BY CaptureAssumption DEF IInv, TypeOK, Flow
<1>2. CASE closed
  <2>1. Evicted = {} /\ Pushed = queue
    BY <1>2 DEF Evicted, Pushed
  <2> QED
    BY <2>1, <1>1, <1>2, FS_EmptySet
<1>3. CASE ~closed
  <2>1. calls = accepted /\ calls + 1 \in Events
    BY <1>1, <1>3 DEF IInv, Fresh, Events
  <2>2. \A x \in Elements(batch) \cup Elements(queue) : x \in Int /\ x < calls + 1
    BY <2>1, <1>1 DEF IInv, Accounting, Pending
  <2>3. CASE Len(queue) >= MaxQueue
    <3>1. queue # <<>>
      BY <2>3, <1>1
    <3>2. Evicted = {Head(queue)} /\ Pushed = Append(Tail(queue), calls + 1)
      BY <1>3, <2>3 DEF Evicted, Pushed
    <3>3. /\ Tail(queue) \in Seq(Events) /\ Len(Tail(queue)) = Len(queue) - 1
          /\ Head(queue) \in Elements(queue)
          /\ Elements(Tail(queue)) = Elements(queue) \ {Head(queue)}
          /\ Increasing(Tail(queue))
      BY <3>1, <1>1, TailFacts
    <3>4. /\ Pushed \in Seq(Events) /\ Len(Pushed) = Len(Tail(queue)) + 1
          /\ Elements(Pushed) = Elements(Tail(queue)) \cup {calls + 1}
          /\ Increasing(Pushed)
      BY <3>2, <3>3, <2>1, <2>2, AppendFacts
    <3>5. Cardinality(Evicted) = 1
      BY <3>2, FS_Singleton
    <3>6. Len(Pushed) = Len(queue)
      BY <3>3, <3>4, <1>1
    <3>7. Flow(batch, Pushed)
      BY <3>3, <3>4, <2>2, <1>1 DEF Flow
    <3> QED
      BY <3>2, <3>3, <3>4, <3>5, <3>6, <3>7, <1>1, <1>3
  <2>4. CASE ~(Len(queue) >= MaxQueue)
    <3>1. Evicted = {} /\ Pushed = Append(queue, calls + 1)
      BY <1>3, <2>4 DEF Evicted, Pushed
    <3>2. /\ Pushed \in Seq(Events) /\ Len(Pushed) = Len(queue) + 1
          /\ Elements(Pushed) = Elements(queue) \cup {calls + 1}
          /\ Increasing(Pushed)
      BY <3>1, <2>1, <2>2, <1>1, AppendFacts
    <3>3. Cardinality(Evicted) = 0
      BY <3>1, FS_EmptySet
    <3>4. Flow(batch, Pushed)
      BY <3>2, <2>2, <1>1 DEF Flow
    <3>5. Len(Pushed) <= MaxQueue
      BY <3>2, <2>4, <1>1
    <3> QED
      BY <3>1, <3>2, <3>3, <3>4, <3>5, <1>1, <1>3
  <2> QED
    BY <2>3, <2>4
<1> QED
  BY <1>2, <1>3

-----------------------------------------------------------------------------
(* The types of what drain() writes, and of everything else. *)
WorkerType ==
    /\ inFlight \in {"none", "running", "ended"}
    /\ drain \in {"idle", "settling", "backoff"}
    /\ attempt \in 0..MaxRetries /\ result \in {"none", "ok", "fail"}
    /\ log \in Seq(Events) /\ promise \in [Events -> PromiseStatus]

StatsType ==
    /\ timer \in BOOLEAN /\ closed \in BOOLEAN
    /\ closing \in {"uncalled", "waiting", "returned"}
    /\ sent \in Nat /\ dropped \in Nat /\ failures \in Nat /\ batches \in Nat
    /\ highWater \in 0..MaxQueue
    /\ delivered \subseteq Events /\ lost \subseteq Events
    /\ calls \in 0..MaxEvents /\ accepted \in 0..calls

(* The part of TypeOK that is about drain() and its batch. *)
LEMMA TypeParts ==
    TypeOK <=> /\ WorkerType /\ StatsType
               /\ queue \in Seq(Events) /\ Len(queue) <= highWater
               /\ batch \in Seq(Events) /\ Len(batch) <= BatchSize
BY DEF TypeOK, WorkerType, StatsType, PromiseStatus

(* A step after which batch and queue hold what b and q held, in order. *)
Handover(b, q) ==
    /\ Flow(batch', queue') /\ DrainState' /\ WorkerType'
    /\ Elements(batch') \cup Elements(queue') = Elements(b) \cup Elements(q)
    /\ Len(batch') + Len(queue') = Len(b) + Len(q) /\ Len(queue') <= Len(q)

(* flush() either shares the drain in flight or hands it the queue. *)
LEMMA FlushHands ==
    ASSUME IInv, NEW q, Flow(batch, q), NEW p \in [Events -> PromiseStatus], Flush(q, p)
    PROVE  /\ Handover(batch, q)
           /\ inFlight = "none" /\ inFlight' # "running" => queue' = <<>>
           /\ inFlight # "none" => inFlight' = inFlight /\ queue' = q
<1>1. TypeOK /\ DrainState
  BY DEF IInv
<1> QED
  BY <1>1, FlushStep DEF Handover, WorkerType

(* The head of the loop of drain() hands over a batch and the rest. *)
LEMMA TakeBatchHands ==
    ASSUME IInv, NEW p \in [Events -> PromiseStatus], TakeBatch(queue, p)
    PROVE  /\ Handover(<<>>, queue)
           /\ inFlight' # "running" => queue' = <<>>
<1>1. queue \in Seq(Events) /\ Increasing(queue) /\ log \in Seq(Events)
  BY DEF IInv, TypeOK, Flow
<1>2. 0 \in 0..MaxRetries /\ Len(queue) \in Nat
  BY <1>1, CaptureAssumption
<1> QED
  BY <1>1, <1>2, TakeBatchStep, EmptyFacts DEF Handover, WorkerType

(* The part of the invariant that a handover settles by itself. *)
LEMMA HandoverInv ==
    ASSUME NEW b, NEW q, Handover(b, q), StatsType', Len(q) \in Int,
           Len(q) <= highWater'
    PROVE  TypeOK' /\ DrainState' /\ Flow(batch', queue')
<1>1. /\ Flow(batch', queue') /\ DrainState' /\ WorkerType' /\ Len(queue') <= Len(q)
  BY DEF Handover
<1>2. /\ queue' \in Seq(Events) /\ batch' \in Seq(Events) /\ Len(batch') <= BatchSize
  BY <1>1 DEF Flow
<1>3. Len(queue') <= highWater'
  <2>1. highWater' \in Int
    BY DEF StatsType
  <2>2. Len(queue') \in Int
    BY <1>2
  <2> QED
    BY <2>1, <2>2, <1>1
<1> QED
  BY <1>1, <1>2, <1>3 DEF TypeOK, WorkerType, StatsType, PromiseStatus

(* Lengths of queue and batch are natural numbers. *)
LEMMA LenTypes ==
    ASSUME TypeOK
    PROVE  /\ Len(queue) \in Nat /\ Len(batch) \in Nat /\ Len(queue) <= highWater
           /\ highWater \in 0..MaxQueue /\ accepted \in Nat /\ calls \in Nat
           /\ sent \in Nat /\ dropped \in Nat /\ StatsType
<1>1. queue \in Seq(Events) /\ batch \in Seq(Events) /\ StatsType
      /\ Len(queue) <= highWater
  BY TypeParts
<1>2. Len(queue) \in Nat /\ Len(batch) \in Nat
  BY <1>1, LenProperties
<1>3. /\ highWater \in 0..MaxQueue /\ accepted \in 0..calls /\ calls \in 0..MaxEvents
      /\ sent \in Nat /\ dropped \in Nat
  BY <1>1 DEF StatsType
<1>4. accepted \in Nat /\ calls \in Nat
  BY <1>3, CaptureAssumption
<1> QED
  BY <1>1, <1>2, <1>3, <1>4

(* A capture call keeps the invariant. *)
LEMMA EnqueueInv ==
    ASSUME IInv, Enqueue, Handover(batch, Pushed)
    PROVE  IInv'
<1>1. /\ calls < MaxEvents /\ calls' = calls + 1 /\ closed' = closed
      /\ accepted' = (IF closed THEN accepted ELSE accepted + 1)
      /\ timer' = (timer \/ ~closed)
      /\ dropped' = dropped + Cardinality(Evicted) /\ lost' = lost \cup Evicted
      /\ highWater' = (IF Len(Pushed) > highWater THEN Len(Pushed) ELSE highWater)
      /\ closing' = closing /\ sent' = sent /\ failures' = failures
      /\ batches' = batches /\ delivered' = delivered
  BY DEF Enqueue
<1>2. /\ Flow(batch, Pushed) /\ Len(Pushed) <= MaxQueue
      /\ Evicted \subseteq Elements(queue)
      /\ Elements(Pushed) =
            (Elements(queue) \ Evicted) \cup (IF closed THEN {} ELSE {calls + 1})
      /\ Cardinality(Evicted) \in Nat
      /\ Len(Pushed) + Cardinality(Evicted) = Len(queue) + (IF closed THEN 0 ELSE 1)
  BY <1>1, PushStep
<1>3. TypeOK /\ Accounting /\ Fresh
  BY DEF IInv
<1>4. /\ Len(queue) \in Nat /\ Len(batch) \in Nat /\ Len(queue) <= highWater
      /\ highWater \in 0..MaxQueue /\ accepted \in Nat /\ calls \in Nat
      /\ sent \in Nat /\ dropped \in Nat /\ StatsType
  BY <1>3, LenTypes
<1>5. Pushed \in Seq(Events) /\ Len(Pushed) \in Nat
  BY <1>2 DEF Flow
<1>6. Evicted \subseteq Pending /\ Evicted \subseteq Events
  BY <1>2, <1>3, ElementsType DEF Pending, TypeOK
<1>7. /\ highWater' \in 0..MaxQueue /\ Len(Pushed) <= highWater'
      /\ calls' \in 0..MaxEvents /\ accepted' \in 0..calls'
  BY <1>1, <1>2, <1>4, <1>5, CaptureAssumption DEF StatsType
<1>8. dropped' \in Nat /\ lost' \subseteq Events
  BY <1>1, <1>2, <1>4, <1>6 DEF StatsType
<1>9. StatsType'
  BY <1>1, <1>4, <1>7, <1>8 DEF StatsType
<1>10. TypeOK' /\ DrainState' /\ Flow(batch', queue')
  BY <1>5, <1>7, <1>9, HandoverInv
<1>11. Fresh'
  BY <1>1, <1>3, <1>4 DEF Fresh
<1>12. NoStall'
  BY <1>1 DEF NoStall
<1>13. Accounting'
  <2>1. Elements(batch') \cup Elements(queue') = Elements(batch) \cup Elements(Pushed)
        /\ Len(batch') + Len(queue') = Len(batch) + Len(Pushed)
    BY DEF Handover
  <2>2. (IF closed THEN {} ELSE {calls + 1}) = (accepted + 1)..accepted'
    <3>1. CASE closed
      BY <3>1, <1>1, <1>4
    <3>2. CASE ~closed
      <4>1. calls = accepted /\ accepted' = accepted + 1
        BY <3>2, <1>1, <1>3 DEF Fresh
      <4> QED
        BY <4>1, <3>2, <1>4
    <3> QED
      BY <3>1, <3>2
  <2>3. Elements(batch) \cap Evicted = {}
    <3> SUFFICES ASSUME NEW x \in Elements(batch), x \in Evicted PROVE FALSE
      OBVIOUS
    <3>1. x < x
      BY <1>2 DEF IInv, Flow
    <3>2. x \in Int
      BY <1>6, EventsInt
    <3> QED
      BY <3>1, <3>2
  <2>4. Pending' = (Pending \ ({} \cup Evicted)) \cup ((accepted + 1)..accepted')
    BY <2>1, <2>2, <2>3, <1>2 DEF Pending
  <2>5. sent' + dropped' + Len(batch') + Len(queue') = accepted'
    <3>1. sent + dropped + Len(batch) + Len(queue) = accepted
      BY <1>3 DEF Accounting
    <3>2. /\ Len(batch') \in Nat /\ Len(queue') \in Nat
      BY <1>10, LenProperties DEF Flow
    <3> DEFINE c == Cardinality(Evicted)
               b == Len(batch)
               q == Len(queue)
               r == Len(Pushed)
               bb == Len(batch')
               qq == Len(queue')
    <3>3. /\ c \in Nat /\ b \in Nat /\ q \in Nat /\ r \in Nat /\ bb \in Nat /\ qq \in Nat
          /\ sent + dropped + b + q = accepted /\ bb + qq = b + r
          /\ r + c = q + (IF closed THEN 0 ELSE 1)
          /\ dropped' = dropped + c
      BY <3>1, <3>2, <2>1, <1>1, <1>2, <1>4, <1>5
    <3> HIDE DEF c, b, q, r, bb, qq
    <3>4. sent' + dropped' + bb + qq = accepted'
      BY <3>3, <1>1, <1>4
    <3> QED
      BY <3>4 DEF bb, qq
  <2>6. Cardinality({}) = 0
    BY FS_EmptySet
  <2>7. sent' = sent + Cardinality({}) /\ delivered' = delivered \cup {}
    BY <2>6, <1>1, <1>4
  <2>8. accepted <= accepted'
    BY <1>1, <1>4
  <2> QED
    BY <1>1, <1>3, <1>6, <1>10, <2>4, <2>5, <2>7, <2>8, BooksKept, SMTT(30)
<1> QED
  BY <1>10, <1>11, <1>12, <1>13 DEF IInv

(* A step of flush() and nothing else keeps the books. *)
LEMMA HandoverBooks ==
    ASSUME IInv, Handover(batch, queue), TypeOK',
           UNCHANGED <<sent, dropped, delivered, lost, accepted>>
    PROVE  Accounting'
<1>1. /\ Elements(batch') \cup Elements(queue') = Elements(batch) \cup Elements(queue)
      /\ Len(batch') + Len(queue') = Len(batch) + Len(queue)
  BY DEF Handover
<1>2. Pending' = Pending
  BY <1>1 DEF Pending
<1>3. Accounting /\ TypeOK
  BY DEF IInv
<1>4. /\ Len(batch) \in Nat /\ Len(queue) \in Nat /\ sent \in Nat /\ dropped \in Nat
  BY <1>3, LenTypes
<1>5. Len(batch') \in Nat /\ Len(queue') \in Nat
  BY LenProperties DEF TypeOK
<1>6. sent + dropped + Len(batch') + Len(queue') = sent + dropped + Len(batch) + Len(queue)
  BY <1>1, <1>4, <1>5
<1> QED
  BY <1>2, <1>3, <1>6 DEF Accounting

(* The batch in hand leaves for delivered or lost and the loop goes round. *)
LEMMA SettledInv ==
    ASSUME IInv, drain = "settling", NEW D, NEW L,
           D \cup L = Elements(batch), D = {} \/ L = {},
           delivered' = delivered \cup D, lost' = lost \cup L,
           sent' = sent + Cardinality(D), dropped' = dropped + Cardinality(L),
           failures' \in Nat, batches' \in Nat,
           UNCHANGED <<timer, closed, closing, highWater, calls, accepted>>,
           Handover(<<>>, queue), inFlight' # "running" => queue' = <<>>
    PROVE  IInv'
<1>1. TypeOK /\ Accounting /\ Fresh /\ Flow(batch, queue)
  BY DEF IInv
<1>2. /\ Len(queue) \in Nat /\ Len(batch) \in Nat /\ Len(queue) <= highWater
      /\ highWater \in 0..MaxQueue /\ accepted \in Nat
      /\ sent \in Nat /\ dropped \in Nat /\ StatsType
  BY <1>1, LenTypes
<1>3. Elements(batch) \subseteq Events
  BY <1>1, ElementsType DEF Flow
<1>4. /\ Cardinality(D) \in Nat /\ Cardinality(L) \in Nat
      /\ Cardinality(D) + Cardinality(L) = Len(batch)
  <2>1. Cardinality(Elements(batch)) = Len(batch)
    BY <1>1, CardElements DEF Flow
  <2>2. Cardinality({}) = 0
    BY FS_EmptySet
  <2>3. CASE D = {}
    BY <2>1, <2>2, <2>3, <1>2
  <2>4. CASE L = {}
    BY <2>1, <2>2, <2>4, <1>2
  <2> QED
    BY <2>3, <2>4
<1>5. StatsType'
  <2>1. sent' \in Nat /\ dropped' \in Nat
    BY <1>2, <1>4, SMTT(30)
  <2>2. delivered' \subseteq Events /\ lost' \subseteq Events
    BY <1>2, <1>3 DEF StatsType
  <2> QED
    BY <2>1, <2>2, <1>2 DEF StatsType
<1>6. TypeOK' /\ DrainState' /\ Flow(batch', queue')
  BY <1>2, <1>5, HandoverInv
<1>7. Fresh' /\ NoStall'
  BY <1>1 DEF Fresh, NoStall
<1>8. Accounting'
  <2>1. /\ Elements(batch') \cup Elements(queue') = Elements(queue)
        /\ Len(batch') + Len(queue') = Len(queue)
    BY <1>2, EmptyFacts DEF Handover
  <2>2. Elements(batch) \cap Elements(queue) = {}
    <3> SUFFICES ASSUME NEW x \in Elements(batch), x \in Elements(queue) PROVE FALSE
      OBVIOUS
    <3>1. x < x
      BY <1>1 DEF Flow
    <3>2. x \in Int
      BY <1>3, EventsInt
    <3> QED
      BY <3>1, <3>2
  <2>3. (accepted + 1)..accepted' = {}
    BY <1>2
  <2>4. Pending' = (Pending \ (D \cup L)) \cup ((accepted + 1)..accepted')
    BY <2>1, <2>2, <2>3 DEF Pending
  <2>5. sent' + dropped' + Len(batch') + Len(queue') = accepted'
    <3>1. sent + dropped + Len(batch) + Len(queue) = accepted
      BY <1>1 DEF Accounting
    <3>2. Len(batch') \in Nat /\ Len(queue') \in Nat
      BY <1>6, LenProperties DEF Flow
    <3>3. (sent + Cardinality(D)) + (dropped + Cardinality(L)) = sent + dropped + Len(batch)
      <4> DEFINE c == Cardinality(D)
                 e == Cardinality(L)
                 n == Len(batch)
      <4>1. c \in Nat /\ e \in Nat /\ n \in Nat /\ c + e = n
            /\ sent \in Nat /\ dropped \in Nat
        BY <1>2, <1>4
      <4> HIDE DEF c, e, n
      <4>2. (sent + c) + (dropped + e) = sent + dropped + (c + e)
        BY <4>1
      <4> QED
        BY <4>1, <4>2 DEF c, e, n
    <3>4. sent' + dropped' = sent + dropped + Len(batch)
      BY <3>3
    <3>5. sent' + dropped' + Len(queue) = accepted
      BY <3>1, <3>4
    <3>6. sent' \in Nat /\ dropped' \in Nat
      BY <1>5 DEF StatsType
    <3>7. sent' + dropped' + (Len(batch') + Len(queue')) = accepted
      BY <3>5, <2>1
    <3> QED
      BY <3>2, <3>6, <3>7
  <2>6. D \subseteq Pending /\ L \subseteq Pending /\ D \cap L = {}
    BY DEF Pending
  <2>7. accepted <= accepted'
    BY <1>2
  <2> QED
    BY <1>1, <1>6, <2>4, <2>5, <2>6, <2>7, BooksKept
<1> QED
  BY <1>6, <1>7, <1>8 DEF IInv

(* flush() alone, from the application, the timer or close(). *)
LEMMA FlushOnlyInv ==
    ASSUME IInv, Flush(queue, promise),
           UNCHANGED <<stats, delivered, lost, calls, accepted>>,
           timer' \in BOOLEAN, closed' \in BOOLEAN, closed => closed',
           closing' \in {"uncalled", "waiting", "returned"},
           timer' # timer => closed' \/ inFlight # "ended"
    PROVE  IInv'
<1>1. TypeOK /\ Accounting /\ Fresh /\ Flow(batch, queue) /\ NoStall
  BY DEF IInv
<1>2. /\ Len(queue) \in Nat /\ Len(queue) <= highWater /\ StatsType
  BY <1>1, LenTypes
<1>3. promise \in [Events -> PromiseStatus]
  BY <1>1 DEF TypeOK, PromiseStatus
<1>4. /\ Handover(batch, queue)
      /\ inFlight = "none" /\ inFlight' # "running" => queue' = <<>>
      /\ inFlight # "none" => inFlight' = inFlight /\ queue' = queue
  BY <1>1, <1>3, FlushHands
<1>5. /\ sent' = sent /\ dropped' = dropped /\ failures' = failures
      /\ batches' = batches /\ highWater' = highWater
      /\ delivered' = delivered /\ lost' = lost /\ calls' = calls
      /\ accepted' = accepted
  BY DEF stats
<1>6. StatsType'
  BY <1>2, <1>5 DEF StatsType
<1>7. TypeOK' /\ DrainState' /\ Flow(batch', queue')
  BY <1>2, <1>4, <1>5, <1>6, HandoverInv
<1>8. Accounting'
  BY <1>4, <1>5, <1>7, HandoverBooks
<1>9. Fresh'
  BY <1>1, <1>5 DEF Fresh
<1>10. NoStall'
  <2> SUFFICES ASSUME queue' # <<>>, ~closed', inFlight' # "running" PROVE timer'
    BY DEF NoStall
  <2>1. inFlight # "none" /\ inFlight' = inFlight /\ queue' = queue
    BY <1>4
  <2>2. inFlight \in {"none", "running", "ended"}
    BY <1>1 DEF TypeOK
  <2>3. inFlight = "ended"
    BY <2>1, <2>2
  <2>4. timer' = timer
    BY <2>3
  <2> QED
    BY <2>1, <2>3, <2>4, <1>1 DEF NoStall
<1> QED
  BY <1>7, <1>8, <1>9, <1>10 DEF IInv

-----------------------------------------------------------------------------
(* A new CaptureQueue satisfies the invariant. *)
LEMMA InitInv == Init => IInv
<1> SUFFICES ASSUME Init PROVE IInv
  OBVIOUS
<1>1. TypeOK
  <2>1. promise \in [Events -> {"none", "pending", "resolved", "rejected"}]
    BY DEF Init
  <2>2. /\ queue \in Seq(Events) /\ batch \in Seq(Events) /\ log \in Seq(Events)
        /\ Len(queue) = 0 /\ Len(batch) = 0
    BY EmptyFacts DEF Init
  <2>3. /\ attempt \in 0..MaxRetries /\ highWater \in 0..MaxQueue
        /\ calls \in 0..MaxEvents /\ accepted \in 0..calls
        /\ Len(queue) <= highWater /\ Len(batch) <= BatchSize
    BY <2>2, CaptureAssumption DEF Init
  <2> QED
    BY <2>1, <2>2, <2>3 DEF Init, TypeOK
<1>2. DrainState /\ Fresh /\ NoStall
  BY DEF Init, DrainState, Fresh, NoStall
<1>3. Flow(batch, queue)
  BY EmptyFacts, CaptureAssumption DEF Init, Flow
<1>4. Accounting
  <2>1. Pending = {} /\ Len(batch) = 0 /\ Len(queue) = 0
    BY EmptyFacts DEF Init, Pending
  <2>2. Cardinality({}) = 0
    BY FS_EmptySet
  <2>3. 1..0 = {}
    OBVIOUS
  <2> QED
    BY <2>1, <2>2, <2>3 DEF Init, Accounting
<1> QED
  BY <1>1, <1>2, <1>3, <1>4 DEF IInv

(* Every step of the queue, its drain and its sink keeps the invariant. *)
LEMMA NextInv == IInv /\ [Next]_vars => IInv'
<1> SUFFICES ASSUME IInv, [Next]_vars PROVE IInv'
  OBVIOUS
<1>0. /\ TypeOK /\ DrainState /\ Flow(batch, queue) /\ Fresh /\ NoStall /\ Accounting
      /\ promise \in [Events -> PromiseStatus] /\ StatsType /\ WorkerType
  BY TypeParts DEF IInv, TypeOK, PromiseStatus
<1>p. \A S : Settle(promise, S, "rejected") \in [Events -> PromiseStatus]
  BY <1>0, SettleType DEF PromiseStatus
<1>1. CASE CaptureAsync
  <2>1. Enqueue /\ queue' = Pushed /\ UNCHANGED worker
        /\ promise' = Settle(promise, Evicted, "rejected")
    BY <1>1 DEF CaptureAsync
  <2>2. Flow(batch, Pushed)
    BY <2>1, PushStep DEF Enqueue
  <2>3. batch' = batch /\ inFlight' = inFlight /\ drain' = drain
        /\ attempt' = attempt /\ result' = result /\ log' = log
    BY <2>1 DEF worker
  <2>4. promise' \in [Events -> PromiseStatus]
    BY <2>1, <1>p
  <2>5. DrainState' /\ WorkerType'
    BY <2>3, <2>4, <1>0 DEF DrainState, WorkerType
  <2>6. Len(Pushed) \in Nat
    BY <2>2 DEF Flow
  <2>7. Handover(batch, Pushed)
    BY <2>1, <2>2, <2>3, <2>5, <2>6 DEF Handover
  <2> QED
    BY <2>1, <2>7, EnqueueInv
<1>2. CASE CaptureSealed
  <2> DEFINE p == [Settle(promise, Evicted, "rejected") EXCEPT ![calls + 1] = "pending"]
  <2>1. Enqueue /\ Flush(Pushed, p)
    BY <1>2 DEF CaptureSealed
  <2>2. Flow(batch, Pushed)
    BY <2>1, PushStep DEF Enqueue
  <2>3. p \in [Events -> PromiseStatus]
    BY <1>p DEF PromiseStatus
  <2> HIDE DEF p
  <2>4. Handover(batch, Pushed)
    BY <2>1, <2>2, <2>3, FlushHands
  <2> QED
    BY <2>1, <2>4, EnqueueInv
<1>3. CASE FlushCall
  BY <1>3, <1>0, FlushOnlyInv DEF FlushCall, StatsType
<1>4. CASE Close
  BY <1>4, <1>0, FlushOnlyInv DEF Close
<1>5. CASE TimerFires
  BY <1>5, <1>0, FlushOnlyInv DEF TimerFires, StatsType
<1>6. CASE SendSucceeds
  <2>1. /\ drain = "settling"
        /\ sent' = sent + Len(batch) /\ batches' = batches + 1
        /\ delivered' = delivered \cup Elements(batch)
        /\ TakeBatch(queue, promise)
        /\ UNCHANGED <<timer, closed, closing, dropped, failures, highWater, lost,
                       calls, accepted>>
    BY <1>6 DEF SendSucceeds
  <2>2. Handover(<<>>, queue) /\ (inFlight' # "running" => queue' = <<>>)
    BY <2>1, <1>0, TakeBatchHands
  <2>3. Cardinality(Elements(batch)) = Len(batch) /\ Cardinality({}) = 0
    BY <1>0, CardElements, FS_EmptySet DEF Flow
  <2>4. /\ sent' = sent + Cardinality(Elements(batch)) /\ dropped' = dropped + Cardinality({})
        /\ lost' = lost \cup {} /\ Elements(batch) \cup {} = Elements(batch)
        /\ failures' \in Nat /\ batches' \in Nat
    BY <2>1, <2>3, <1>0 DEF StatsType
  <2> QED
    BY <2>1, <2>2, <2>4, SettledInv
<1>7. CASE SendRetries
  <2>1. /\ drain = "settling" /\ attempt < MaxRetries /\ failures' = failures + 1
        /\ attempt' = attempt + 1 /\ drain' = "backoff" /\ result' = "none"
        /\ UNCHANGED <<queue, timer, inFlight, batch, log, closed, closing, sent,
                       dropped, batches, highWater, delivered, lost, promise,
                       calls, accepted>>
    BY <1>7 DEF SendRetries
  <2>2. attempt' \in 0..MaxRetries /\ failures' \in Nat
    BY <2>1, <1>0, CaptureAssumption DEF TypeOK
  <2>3. TypeOK'
    BY <2>1, <2>2, <1>0 DEF TypeOK
  <2>4. DrainState'
    BY <2>1, <1>0 DEF DrainState
  <2>5. Flow(batch', queue') /\ Fresh' /\ NoStall'
    BY <2>1, <1>0 DEF Flow, Fresh, NoStall
  <2>6. Accounting'
    BY <2>1, <1>0 DEF Accounting, Pending
  <2> QED
    BY <2>3, <2>4, <2>5, <2>6 DEF IInv
<1>8. CASE SendGivesUp
  <2>1. /\ drain = "settling"
        /\ failures' = failures + 1 /\ dropped' = dropped + Len(batch)
        /\ lost' = lost \cup Elements(batch)
        /\ TakeBatch(queue, Settle(promise, Elements(batch), "rejected"))
        /\ UNCHANGED <<timer, closed, closing, sent, batches, highWater, delivered,
                       calls, accepted>>
    BY <1>8 DEF SendGivesUp
  <2>2. Handover(<<>>, queue) /\ (inFlight' # "running" => queue' = <<>>)
    BY <2>1, <1>p, TakeBatchHands
  <2>3. Cardinality(Elements(batch)) = Len(batch) /\ Cardinality({}) = 0
    BY <1>0, CardElements, FS_EmptySet DEF Flow
  <2>4. /\ dropped' = dropped + Cardinality(Elements(batch)) /\ sent' = sent + Cardinality({})
        /\ delivered' = delivered \cup {} /\ {} \cup Elements(batch) = Elements(batch)
        /\ failures' \in Nat /\ batches' \in Nat
    BY <2>1, <2>3, <1>0 DEF StatsType
  <2> QED
    BY <2>1, <2>2, <2>4, SettledInv
<1>9. CASE BackoffEnds
  <2>1. /\ drain = "backoff" /\ drain' = "settling" /\ Send(batch, promise)
        /\ UNCHANGED <<queue, timer, inFlight, batch, attempt, closed, closing,
                       stats, delivered, lost, calls, accepted>>
    BY <1>9 DEF BackoffEnds
  <2>2. /\ result' \in {"ok", "fail"} /\ log' \in Seq(Events)
        /\ promise' \in [Events -> PromiseStatus]
    BY <2>1, <1>0, SendType DEF Flow, WorkerType
  <2>3. TypeOK'
    BY <2>1, <2>2, <1>0 DEF TypeOK, stats, PromiseStatus
  <2>4. DrainState'
    BY <2>1, <2>2, <1>0 DEF DrainState
  <2>5. Flow(batch', queue') /\ Fresh' /\ NoStall'
    BY <2>1, <1>0 DEF Flow, Fresh, NoStall
  <2>6. Accounting'
    BY <2>1, <1>0 DEF Accounting, Pending, stats
  <2> QED
    BY <2>3, <2>4, <2>5, <2>6 DEF IInv
<1>10. CASE DrainFinally
  <2>1. /\ inFlight = "ended" /\ inFlight' = "none"
        /\ closing' = (IF closing = "waiting" THEN "returned" ELSE closing)
        /\ UNCHANGED <<queue, timer, drain, batch, attempt, result, log, closed,
                       stats, delivered, lost, promise, calls, accepted>>
    BY <1>10 DEF DrainFinally
  <2>2. TypeOK'
    BY <2>1, <1>0 DEF TypeOK, stats
  <2>3. DrainState'
    BY <2>1, <1>0 DEF DrainState
  <2>4. Flow(batch', queue') /\ Fresh' /\ NoStall'
    BY <2>1, <1>0 DEF Flow, Fresh, NoStall
  <2>5. Accounting'
    BY <2>1, <1>0 DEF Accounting, Pending, stats
  <2> QED
    BY <2>2, <2>3, <2>4, <2>5 DEF IInv
<1>11. CASE UNCHANGED vars
  <2>1. TypeOK'
    BY <1>0, <1>11 DEF TypeOK, vars, worker, stats
  <2>2. DrainState' /\ Flow(batch', queue') /\ Fresh' /\ NoStall'
    BY <1>0, <1>11 DEF DrainState, Flow, Fresh, NoStall, vars, worker, stats
  <2>3. Accounting'
    BY <1>0, <1>11 DEF Accounting, Pending, vars, worker, stats
  <2> QED
    BY <2>1, <2>2, <2>3 DEF IInv
<1> QED
  BY <1>1, <1>2, <1>3, <1>4, <1>5, <1>6, <1>7, <1>8, <1>9, <1>10, <1>11 DEF Next

(* The inductive invariant holds in every reachable state. *)
THEOREM Invariance == Spec => []IInv
BY InitInv, NextInv, PTL DEF Spec

(* Every variable keeps its type and the queue never outgrows maxQueue.    *)
THEOREM TypeCorrect == Spec => []TypeOK
<1>1. IInv => TypeOK
  BY DEF IInv
<1> QED
  BY <1>1, Invariance, PTL

(* The counters of stats() account for every accepted event, for every     *)
(* queue size, batch size, retry limit and fault of the sink.              *)
THEOREM AccountingHolds == Spec => []Accounting
<1>1. IInv => Accounting
  BY DEF IInv
<1> QED
  BY <1>1, Invariance, PTL

(* No order of capture, flush, timer, settlement, .finally and close leaves*)
(* an event in an open queue with neither a drain nor a timer to come.     *)
THEOREM NoStallHolds == Spec => []NoStall
<1>1. IInv => NoStall
  BY DEF IInv
<1> QED
  BY <1>1, Invariance, PTL

-----------------------------------------------------------------------------
(***************************************************************************)
(* What the sink of Capture leaves behind, for every value of the          *)
(* constants: receipts in capture order, and promises that tell the truth. *)
(*                                                                         *)
(* SealedInOrder is not inductive: a retry seals the front of a batch a    *)
(* second time.  That does no harm because an event of the batch that is   *)
(* smaller than a logged one was logged before it (Behind), and because    *)
(* the queue holds only events later than everything logged.               *)
(* PromisesAgree is not inductive either: that no promise of a batch is    *)
(* forgotten when it is counted as sent needs Answered.                    *)
(***************************************************************************)


InOrder(l) ==
    \A i, j \in 1..Len(l) :
        i < j /\ l[j] < l[i] => \E h \in 1..(i - 1) : l[h] = l[j]

(* An event of S that is smaller than a logged one was logged before it. *)
Behind(l, S) ==
    \A i \in 1..Len(l), x \in S : x < l[i] => \E h \in 1..(i - 1) : l[h] = x

(* The log l while b is being sent and q waits, n events being accepted. *)
Tidy(b, q, l, n) ==
    /\ l \in Seq(Events) /\ InOrder(l) /\ Behind(l, Elements(b))
    /\ \A x \in Elements(l), y \in Elements(q) : x < y
    /\ Elements(l) \subseteq 1..n

(* The promises p of n events, S of them pending, D of them dropped. *)
Honest(p, S, l, D, n) ==
    \A e \in 1..n :
        /\ p[e] = "resolved" => e \in Elements(l)
        /\ p[e] = "rejected" => e \in D
        /\ p[e] = "pending" => e \in S

Unasked == ~closed => \A e \in Events : e > accepted => promise[e] = "none"

(* Once the sink has returned, it has resolved every promise of its batch. *)
Answered == result = "ok" => \A e \in Elements(batch) : promise[e] # "pending"

SinkInv ==
    /\ Tidy(batch, queue, log, accepted)
    /\ Honest(promise, Pending, log, lost, accepted)
    /\ Unasked /\ Answered

-----------------------------------------------------------------------------
(* The log after the sink has sealed the first k events of a batch. *)
LEMMA SealedLog ==
    ASSUME NEW l \in Seq(Events), NEW b \in Seq(Events), NEW k \in 0..Len(b)
    PROVE  LET m == l \o SubSeq(b, 1, k) IN
           /\ m \in Seq(Events) /\ Len(m) = Len(l) + k
           /\ \A i \in 1..Len(l) : m[i] = l[i]
           /\ \A i \in 1..k : m[Len(l) + i] = b[i]
           /\ \A i \in 1..Len(m) : \/ i \in 1..Len(l) /\ m[i] = l[i]
                                   \/ i - Len(l) \in 1..k /\ m[i] = b[i - Len(l)]
<1> DEFINE f == SubSeq(b, 1, k)
           m == l \o f
<1>1. Len(l) \in Nat /\ Len(b) \in Nat /\ k \in Nat /\ k <= Len(b)
  OBVIOUS
<1>2. f \in Seq(Events) /\ Len(f) = k /\ \A i \in 1..k : f[i] = b[i]
  BY <1>1
<1> HIDE DEF f
<1>3. /\ m \in Seq(Events) /\ Len(m) = Len(l) + k
      /\ \A i \in 1..(Len(l) + k) :
             m[i] = IF i <= Len(l) THEN l[i] ELSE f[i - Len(l)]
  BY <1>1, <1>2, ConcatProperties
<1> HIDE DEF m
<1>4. \A i \in 1..Len(l) : m[i] = l[i]
  BY <1>1, <1>3
<1>5. \A i \in 1..k : m[Len(l) + i] = b[i]
  <2> SUFFICES ASSUME NEW i \in 1..k PROVE m[Len(l) + i] = b[i]
    OBVIOUS
  <2>1. Len(l) + i \in 1..(Len(l) + k) /\ ~(Len(l) + i <= Len(l)) /\ (Len(l) + i) - Len(l) = i
    BY <1>1
  <2> QED
    BY <2>1, <1>2, <1>3
<1>6. ASSUME NEW i \in 1..Len(m)
      PROVE  \/ i \in 1..Len(l) /\ m[i] = l[i]
             \/ i - Len(l) \in 1..k /\ m[i] = b[i - Len(l)]
  <2>1. CASE i <= Len(l)
    BY <2>1, <1>1, <1>4
  <2>2. CASE ~(i <= Len(l))
    <3>1. i - Len(l) \in 1..k /\ i \in 1..(Len(l) + k)
      BY <2>2, <1>1, <1>3
    <3> QED
      BY <3>1, <2>2, <1>2, <1>3
  <2> QED
    BY <2>1, <2>2
<1> QED
  BY <1>3, <1>4, <1>5, <1>6 DEF m, f

(* The events of that log. *)
LEMMA SealedElements ==
    ASSUME NEW l \in Seq(Events), NEW b \in Seq(Events), NEW k \in 0..Len(b)
    PROVE  LET m == l \o SubSeq(b, 1, k) IN
           /\ Elements(l) \subseteq Elements(m)
           /\ Elements(m) \subseteq Elements(l) \cup Elements(b)
           /\ \A i \in 1..k : b[i] \in Elements(m)
<1> DEFINE m == l \o SubSeq(b, 1, k)
<1>1. /\ m \in Seq(Events) /\ Len(m) = Len(l) + k
      /\ \A i \in 1..Len(l) : m[i] = l[i]
      /\ \A i \in 1..k : m[Len(l) + i] = b[i]
      /\ \A i \in 1..Len(m) : \/ i \in 1..Len(l) /\ m[i] = l[i]
                              \/ i - Len(l) \in 1..k /\ m[i] = b[i - Len(l)]
  BY SealedLog
<1> HIDE DEF m
<1>2. Len(l) \in Nat /\ Len(b) \in Nat /\ k \in Nat /\ k <= Len(b)
  OBVIOUS
<1>3. ASSUME NEW i \in 1..Len(l) PROVE l[i] \in Elements(m)
  <2>1. i \in 1..Len(m) /\ m[i] = l[i]
    BY <1>1, <1>2
  <2> QED
    BY <2>1 DEF Elements
<1>4. ASSUME NEW i \in 1..k PROVE b[i] \in Elements(m)
  <2>1. Len(l) + i \in 1..Len(m) /\ m[Len(l) + i] = b[i]
    BY <1>1, <1>2
  <2> QED
    BY <2>1 DEF Elements
<1>5. ASSUME NEW i \in 1..Len(m) PROVE m[i] \in Elements(l) \cup Elements(b)
  <2>1. CASE i \in 1..Len(l) /\ m[i] = l[i]
    BY <2>1 DEF Elements
  <2>2. CASE i - Len(l) \in 1..k /\ m[i] = b[i - Len(l)]
    <3>1. i - Len(l) \in 1..Len(b)
      BY <2>2, <1>2
    <3> QED
      BY <3>1, <2>2 DEF Elements
  <2> QED
    BY <2>1, <2>2, <1>1
<1>6. Elements(l) \subseteq Elements(m)
  BY <1>3 DEF Elements
<1>7. Elements(m) \subseteq Elements(l) \cup Elements(b)
  BY <1>5 DEF Elements
<1> QED
  BY <1>4, <1>6, <1>7 DEF m

(* Sealing the front of a batch, for the first time or again after a       *)
(* failure, keeps the log in order.                                        *)
LEMMA SealPrefix ==
    ASSUME NEW l \in Seq(Events), NEW b \in Seq(Events), NEW k \in 0..Len(b),
           Increasing(b), InOrder(l), Behind(l, Elements(b))
    PROVE  LET m == l \o SubSeq(b, 1, k) IN InOrder(m) /\ Behind(m, Elements(b))
<1> DEFINE m == l \o SubSeq(b, 1, k)
<1>1. /\ m \in Seq(Events) /\ Len(m) = Len(l) + k
      /\ \A i \in 1..Len(l) : m[i] = l[i]
      /\ \A i \in 1..k : m[Len(l) + i] = b[i]
      /\ \A i \in 1..Len(m) : \/ i \in 1..Len(l) /\ m[i] = l[i]
                              \/ i - Len(l) \in 1..k /\ m[i] = b[i - Len(l)]
  BY SealedLog
<1> HIDE DEF m
<1>2. /\ Len(l) \in Nat /\ Len(b) \in Nat /\ k \in Nat /\ k <= Len(b)
      /\ \A i \in 1..Len(b) : b[i] \in Int /\ b[i] \in Elements(b)
      /\ \A i \in 1..Len(m) : m[i] \in Int
  <2>1. \A i \in 1..Len(b) : b[i] \in Int
    BY ElementOfSeq, EventsInt
  <2>2. \A i \in 1..Len(m) : m[i] \in Int
    BY <1>1, ElementOfSeq, EventsInt
  <2> QED
    BY <2>1, <2>2 DEF Elements
<1>3. Behind(m, Elements(b))
  <2> SUFFICES ASSUME NEW i \in 1..Len(m), NEW c \in 1..Len(b), b[c] < m[i]
               PROVE  \E h \in 1..(i - 1) : m[h] = b[c]
    BY DEF Behind, Elements
  <2>1. CASE i \in 1..Len(l) /\ m[i] = l[i]
    <3>1. PICK h \in 1..(i - 1) : l[h] = b[c]
      BY <2>1, <1>2 DEF Behind
    <3>2. h \in 1..Len(l)
      BY <2>1, <1>2
    <3> QED
      BY <3>1, <3>2, <1>1
  <2>2. CASE i - Len(l) \in 1..k /\ m[i] = b[i - Len(l)]
    <3> DEFINE a == i - Len(l)
    <3>1. a \in 1..Len(b) /\ a \in 1..k /\ b[c] < b[a] /\ i = Len(l) + a
      BY <2>2, <1>2
    <3> HIDE DEF a
    <3>2. c < a
      <4> SUFFICES ASSUME ~(c < a) PROVE FALSE
        OBVIOUS
      <4>1. CASE c = a
        BY <4>1, <3>1, <1>2
      <4>2. CASE a < c
        <5>1. b[a] < b[c]
          BY <4>2, <3>1 DEF Increasing
        <5> QED
          BY <5>1, <3>1, <1>2
      <4> QED
        BY <4>1, <4>2, <3>1
    <3>3. c \in 1..k /\ Len(l) + c \in 1..(i - 1)
      BY <3>1, <3>2, <1>2
    <3> QED
      BY <3>3, <1>1
  <2> QED
    BY <2>1, <2>2, <1>1
<1>4. InOrder(m)
  <2> SUFFICES ASSUME NEW i \in 1..Len(m), NEW j \in 1..Len(m), i < j, m[j] < m[i]
               PROVE  \E h \in 1..(i - 1) : m[h] = m[j]
    BY DEF InOrder
  <2>1. CASE j \in 1..Len(l) /\ m[j] = l[j]
    <3>1. i \in 1..Len(l) /\ m[i] = l[i]
      BY <2>1, <1>1, <1>2
    <3>2. PICK h \in 1..(i - 1) : l[h] = l[j]
      BY <3>1, <2>1 DEF InOrder
    <3>3. h \in 1..Len(l)
      BY <3>1, <1>2
    <3> QED
      BY <3>2, <3>3, <2>1, <1>1
  <2>2. CASE j - Len(l) \in 1..k /\ m[j] = b[j - Len(l)]
    <3>1. m[j] \in Elements(b)
      BY <2>2, <1>2
    <3> QED
      BY <3>1, <1>3 DEF Behind
  <2> QED
    BY <2>1, <2>2, <1>1
<1> QED
  BY <1>3, <1>4 DEF m

-----------------------------------------------------------------------------
(* What channel.send(b) does: it seals a prefix of the batch, resolves     *)
(* promises of sealed events only, and all of them when it returns.        *)
LEMMA SendSink ==
    ASSUME NEW b \in Seq(Events), NEW p \in [Events -> PromiseStatus],
           log \in Seq(Events), Send(b, p)
    PROVE  /\ \E k \in 0..Len(b) : log' = log \o SubSeq(b, 1, k)
           /\ \A e \in Events :
                 \/ promise'[e] = p[e]
                 \/ p[e] = "pending" /\ promise'[e] = "resolved" /\ e \in Elements(log')
           /\ result' = "ok" => \A e \in Elements(b) : promise'[e] # "pending"
<1>0. Len(b) \in Nat /\ Elements(b) \subseteq Events
  BY ElementsType
<1>1. CASE ~ChannelOpen /\ result' = "fail" /\ promise' = p /\ UNCHANGED log
  <2>1. SubSeq(b, 1, 0) = <<>> /\ log \o <<>> = log
    OBVIOUS
  <2>2. 0 \in 0..Len(b) /\ log' = log \o SubSeq(b, 1, 0)
    BY <2>1, <1>0, <1>1
  <2> QED
    BY <2>2, <1>1
<1>2. CASE result' = "ok" /\ log' = log \o b /\ promise' = Settle(p, Elements(b), "resolved")
  <2>1. SubSeq(b, 1, Len(b)) = b
    OBVIOUS
  <2>2. Len(b) \in 0..Len(b) /\ log' = log \o SubSeq(b, 1, Len(b))
    BY <2>1, <1>0, <1>2
  <2>3. \A i \in 1..Len(b) : b[i] \in Elements(log')
    BY <2>2, SealedElements
  <2>4. \A e \in Elements(b) : e \in Elements(log')
    BY <2>3 DEF Elements
  <2>5. \A e \in Events :
           promise'[e] = IF e \in Elements(b) /\ p[e] = "pending" THEN "resolved" ELSE p[e]
    BY <1>2 DEF Settle
  <2> QED
    BY <2>2, <2>4, <2>5, <1>0
<1>3. ASSUME NEW k \in 0..(Len(b) - 1), result' = "fail",
             log' = log \o SubSeq(b, 1, k) \/ log' = log \o SubSeq(b, 1, k + 1),
             promise' = Settle(p, Elements(SubSeq(b, 1, k)), "resolved")
      PROVE  /\ \E n \in 0..Len(b) : log' = log \o SubSeq(b, 1, n)
             /\ \A e \in Events :
                   \/ promise'[e] = p[e]
                   \/ p[e] = "pending" /\ promise'[e] = "resolved" /\ e \in Elements(log')
             /\ result' # "ok"
  <2>1. PICK n \in {k, k + 1} : log' = log \o SubSeq(b, 1, n)
    BY <1>3
  <2>2. n \in 0..Len(b) /\ \A i \in 1..k : i \in 1..n
    BY <2>1, <1>0
  <2>3. \A i \in 1..k : b[i] \in Elements(log')
    BY <2>1, <2>2, SealedElements
  <2>4. Elements(SubSeq(b, 1, k)) \subseteq Elements(log')
    <3>1. Len(SubSeq(b, 1, k)) = k /\ \A i \in 1..k : SubSeq(b, 1, k)[i] = b[i]
      BY <1>0
    <3> QED
      BY <3>1, <2>3 DEF Elements
  <2>5. \A e \in Events :
           promise'[e] = IF e \in Elements(SubSeq(b, 1, k)) /\ p[e] = "pending"
                         THEN "resolved" ELSE p[e]
    BY <1>3 DEF Settle
  <2> QED
    BY <2>1, <2>2, <2>4, <2>5, <1>3
<1> QED
  BY <1>1, <1>2, <1>3 DEF Send

(* What is still to be sent: S is Elements(b) with Elements(q). *)
Sound(b, q, p, l, D, n) ==
    Tidy(b, q, l, n) /\ Honest(p, Elements(b) \cup Elements(q), l, D, n)

(* Sending b while q waits, for the first time or again. *)
LEMMA SendKeeps ==
    ASSUME NEW b, NEW q, Flow(b, q), NEW p \in [Events -> PromiseStatus], NEW D,
           NEW n \in 0..MaxEvents, Elements(b) \subseteq 1..n,
           Sound(b, q, p, log, D, n), Send(b, p)
    PROVE  /\ Sound(b, q, promise', log', D, n)
           /\ \A e \in Events : p[e] = "none" => promise'[e] = "none"
           /\ result' = "ok" => \A e \in Elements(b) : promise'[e] # "pending"
<1>1. /\ b \in Seq(Events) /\ q \in Seq(Events) /\ Increasing(b)
      /\ \A x \in Elements(b), y \in Elements(q) : x < y
  BY DEF Flow
<1>2. /\ log \in Seq(Events) /\ InOrder(log) /\ Behind(log, Elements(b))
      /\ \A x \in Elements(log), y \in Elements(q) : x < y
      /\ Elements(log) \subseteq 1..n
  BY DEF Sound, Tidy
<1>3. PICK k \in 0..Len(b) : log' = log \o SubSeq(b, 1, k)
  BY <1>1, <1>2, SendSink
<1>4. /\ \A e \in Events :
            \/ promise'[e] = p[e]
            \/ p[e] = "pending" /\ promise'[e] = "resolved" /\ e \in Elements(log')
      /\ result' = "ok" => \A e \in Elements(b) : promise'[e] # "pending"
  BY <1>1, <1>2, SendSink
<1>5. log' \in Seq(Events)
  BY <1>1, <1>2, <1>3, SealedLog
<1>6. /\ Elements(log) \subseteq Elements(log')
      /\ Elements(log') \subseteq Elements(log) \cup Elements(b)
  BY <1>1, <1>2, <1>3, SealedElements
<1>7. InOrder(log') /\ Behind(log', Elements(b))
  BY <1>1, <1>2, <1>3, SealPrefix
<1>8. Tidy(b, q, log', n)
  BY <1>1, <1>2, <1>5, <1>6, <1>7 DEF Tidy
<1>9. 1..n \subseteq Events
  BY CaptureAssumption DEF Events
<1>10. Honest(promise', Elements(b) \cup Elements(q), log', D, n)
  <2> SUFFICES ASSUME NEW e \in 1..n
               PROVE  /\ promise'[e] = "resolved" => e \in Elements(log')
                      /\ promise'[e] = "rejected" => e \in D
                      /\ promise'[e] = "pending" => e \in Elements(b) \cup Elements(q)
    BY DEF Honest
  <2>1. /\ p[e] = "resolved" => e \in Elements(log)
        /\ p[e] = "rejected" => e \in D
        /\ p[e] = "pending" => e \in Elements(b) \cup Elements(q)
    BY DEF Sound, Honest
  <2> QED
    BY <2>1, <1>4, <1>6, <1>9
<1> QED
  BY <1>4, <1>8, <1>10 DEF Sound

(* The head of drain()'s loop, when the last batch has been settled. *)
LEMMA TakeKeeps ==
    ASSUME NEW q \in Seq(Events), Increasing(q), NEW p \in [Events -> PromiseStatus],
           NEW D, NEW n \in 0..MaxEvents, Elements(q) \subseteq 1..n,
           Sound(<<>>, q, p, log, D, n), TakeBatch(q, p)
    PROVE  /\ Sound(batch', queue', promise', log', D, n)
           /\ \A e \in Events : p[e] = "none" => promise'[e] = "none"
           /\ Answered'
<1>1. CASE q = <<>>
  <2>1. /\ batch' = <<>> /\ queue' = q /\ promise' = p /\ log' = log /\ result' = "none"
    BY <1>1 DEF TakeBatch
  <2> QED
    BY <2>1 DEF Answered, Sound, Tidy, Honest
<1>2. CASE q # <<>>
  <2>1. /\ batch' = SubSeq(q, 1, Lesser(BatchSize, Len(q)))
        /\ queue' = SubSeq(q, BatchSize + 1, Len(q))
        /\ Send(batch', p)
    BY <1>2 DEF TakeBatch
  <2>2. Flow(batch', queue') /\ Elements(batch') \cup Elements(queue') = Elements(q)
    BY <2>1, <1>2, SpliceFlow
  <2>3. /\ Tidy(<<>>, q, log, n)
        /\ Honest(p, Elements(batch') \cup Elements(queue'), log, D, n)
    BY <2>2, EmptyFacts DEF Sound
  <2>4. Behind(log, Elements(batch'))
    <3> SUFFICES ASSUME NEW i \in 1..Len(log), NEW x \in Elements(batch'), x < log[i]
                 PROVE  FALSE
      BY DEF Behind
    <3>1. log[i] < x
      BY <2>2, <2>3 DEF Tidy, Elements
    <3>2. log[i] \in Int /\ x \in Int
      BY <2>2, <2>3, ElementOfSeq, ElementsType, EventsInt DEF Tidy
    <3> QED
      BY <3>1, <3>2
  <2>5. Sound(batch', queue', p, log, D, n)
    BY <2>2, <2>3, <2>4 DEF Sound, Tidy
  <2>6. /\ Sound(batch', queue', promise', log', D, n)
        /\ \A e \in Events : p[e] = "none" => promise'[e] = "none"
        /\ result' = "ok" => \A e \in Elements(batch') : promise'[e] # "pending"
    BY <2>1, <2>2, <2>5, SendKeeps
  <2> QED
    BY <2>6 DEF Answered
<1> QED
  BY <1>1, <1>2

(* flush(), whether it shares a drain or starts one. *)
LEMMA FlushKeeps ==
    ASSUME NEW q, Flow(batch, q), NEW p \in [Events -> PromiseStatus], NEW D,
           NEW n \in 0..MaxEvents, Elements(q) \subseteq 1..n,
           Sound(batch, q, p, log, D, n), TypeOK, DrainState,
           result = "ok" => \A e \in Elements(batch) : p[e] # "pending",
           Flush(q, p)
    PROVE  /\ Sound(batch', queue', promise', log', D, n)
           /\ \A e \in Events : p[e] = "none" => promise'[e] = "none"
           /\ Answered'
<1>1. CASE inFlight # "none"
  <2>1. /\ queue' = q /\ promise' = p /\ batch' = batch /\ result' = result /\ log' = log
    BY <1>1 DEF Flush, worker
  <2> QED
    BY <2>1 DEF Answered, Sound, Tidy, Honest
<1>2. CASE inFlight = "none"
  <2>1. TakeBatch(q, p) /\ batch = <<>>
    BY <1>2 DEF Flush, DrainState
  <2>2. q \in Seq(Events) /\ Increasing(q)
    BY DEF Flow
  <2> QED
    BY <2>1, <2>2, TakeKeeps
<1> QED
  BY <1>1, <1>2

-----------------------------------------------------------------------------
(* queue.capture(), with or without a promise for the new event. *)
LEMMA PushKeeps ==
    ASSUME IInv, SinkInv, Enqueue, NEW p,
           \/ p = Settle(promise, Evicted, "rejected")
           \/ p = [Settle(promise, Evicted, "rejected") EXCEPT ![calls + 1] = "pending"]
    PROVE  /\ p \in [Events -> PromiseStatus]
           /\ Sound(batch, Pushed, p, log, lost', accepted')
           /\ accepted' \in 0..MaxEvents /\ Elements(Pushed) \subseteq 1..accepted'
           /\ ~closed' => \A e \in Events : e > accepted' => p[e] = "none"
           /\ result = "ok" => \A e \in Elements(batch) : p[e] # "pending"
<1> DEFINE r == Settle(promise, Evicted, "rejected")
           fresh == IF closed THEN {} ELSE {calls + 1}
<1>1. /\ calls < MaxEvents /\ lost' = lost \cup Evicted /\ closed' = closed
      /\ accepted' = (IF closed THEN accepted ELSE accepted + 1)
  BY DEF Enqueue
<1>2. /\ Evicted \subseteq Elements(queue) /\ Flow(batch, Pushed)
      /\ Elements(Pushed) = (Elements(queue) \ Evicted) \cup fresh
  BY <1>1, PushStep
<1>3. /\ calls \in Nat /\ MaxEvents \in Nat /\ accepted \in Nat /\ accepted <= calls
      /\ ~closed => accepted = calls
      /\ Elements(batch) \subseteq 1..accepted /\ Elements(queue) \subseteq 1..accepted
      /\ calls + 1 \in Events /\ Events = 1..MaxEvents
      /\ promise \in [Events -> PromiseStatus]
  <2>1. TypeOK /\ Accounting /\ Fresh
    BY DEF IInv
  <2>2. calls \in Nat /\ MaxEvents \in Nat /\ accepted \in Nat /\ accepted <= calls
    BY <2>1, CaptureAssumption DEF TypeOK
  <2>3. Elements(batch) \subseteq 1..accepted /\ Elements(queue) \subseteq 1..accepted
    BY <2>1 DEF Accounting, Pending
  <2>4. calls + 1 \in Events
    BY <2>2, <1>1 DEF Events
  <2> QED
    BY <2>1, <2>2, <2>3, <2>4 DEF Fresh, TypeOK, PromiseStatus, Events
<1>4. r \in [Events -> PromiseStatus]
      /\ \A e \in Events : r[e] = IF e \in Evicted /\ promise[e] = "pending"
                                 THEN "rejected" ELSE promise[e]
  BY <1>3, SettleType DEF Settle, PromiseStatus
<1>5. \A e \in Events : e # calls + 1 => p[e] = r[e]
  BY <1>4
<1>6. p \in [Events -> PromiseStatus]
  BY <1>3, <1>4 DEF PromiseStatus
<1> HIDE DEF r
<1>7. accepted' \in 0..MaxEvents /\ accepted' \in Nat
  BY <1>1, <1>3
<1>8. 1..accepted \subseteq 1..accepted' /\ fresh \subseteq 1..accepted'
  BY <1>1, <1>3
<1>9. Elements(Pushed) \subseteq 1..accepted'
  BY <1>2, <1>3, <1>8
<1>10. Tidy(batch, Pushed, log, accepted')
  <2>1. Tidy(batch, queue, log, accepted)
    BY DEF SinkInv
  <2>2. \A x \in Elements(log) : x \in 1..accepted
    BY <2>1 DEF Tidy
  <2>3. \A x \in Elements(log), y \in fresh : x < y
    BY <2>2, <1>3
  <2> QED
    BY <2>1, <2>3, <1>2, <1>8 DEF Tidy
<1>11. Honest(p, Elements(batch) \cup Elements(Pushed), log, lost', accepted')
  <2> SUFFICES ASSUME NEW e \in 1..accepted'
               PROVE  /\ p[e] = "resolved" => e \in Elements(log)
                      /\ p[e] = "rejected" => e \in lost'
                      /\ p[e] = "pending" => e \in Elements(batch) \cup Elements(Pushed)
    BY DEF Honest
  <2>1. e \in Events
    BY <1>3, <1>7
  <2>2. CASE e = calls + 1
    <3>1. ~closed /\ promise[e] = "none"
      <4>1. ~closed
        BY <2>2, <1>1, <1>3
      <4>2. e > accepted
        BY <4>1, <2>2, <1>3
      <4> QED
        BY <4>1, <4>2, <2>1 DEF SinkInv, Unasked
    <3>2. e \in Elements(Pushed) /\ r[e] = "none"
      BY <3>1, <2>1, <2>2, <1>2, <1>4
    <3>3. p[e] \in {"none", "pending"}
      BY <3>2, <2>1, <2>2, <1>4 DEF r
    <3> QED
      BY <3>2, <3>3
  <2>3. CASE e # calls + 1
    <3>1. e \in 1..accepted
      BY <2>3, <1>1, <1>3
    <3>2. /\ promise[e] = "resolved" => e \in Elements(log)
          /\ promise[e] = "rejected" => e \in lost
          /\ promise[e] = "pending" => e \in Elements(batch) \cup Elements(queue)
      BY <3>1 DEF SinkInv, Honest, Pending
    <3>3. p[e] = IF e \in Evicted /\ promise[e] = "pending" THEN "rejected" ELSE promise[e]
      BY <2>1, <2>3, <1>4, <1>5
    <3> QED
      BY <3>2, <3>3, <1>1, <1>2
  <2> QED
    BY <2>2, <2>3
<1>12. ASSUME ~closed', NEW e \in Events, e > accepted' PROVE p[e] = "none"
  <2>1. e # calls + 1 /\ e > accepted /\ ~closed
    BY <1>12, <1>1, <1>3
  <2>2. promise[e] = "none"
    BY <2>1 DEF SinkInv, Unasked
  <2> QED
    BY <2>1, <2>2, <1>4, <1>5
<1>13. ASSUME result = "ok", NEW e \in Elements(batch) PROVE p[e] # "pending"
  <2>1. promise[e] # "pending"
    BY <1>13 DEF SinkInv, Answered
  <2>2. e \in 1..accepted /\ e \in Events /\ e # calls + 1
    BY <1>3
  <2> QED
    BY <2>1, <2>2, <1>4, <1>5
<1> QED
  BY <1>6, <1>7, <1>9, <1>10, <1>11, <1>12, <1>13 DEF Sound

(* Every step of the queue, its drain and its sink keeps the invariant. *)
LEMMA NextSink == IInv /\ SinkInv /\ [Next]_vars => SinkInv'
<1> SUFFICES ASSUME IInv, SinkInv, [Next]_vars PROVE SinkInv'
  OBVIOUS
<1>0. /\ TypeOK /\ DrainState /\ Flow(batch, queue)
      /\ promise \in [Events -> PromiseStatus] /\ accepted \in 0..MaxEvents
      /\ Elements(batch) \subseteq 1..accepted /\ Elements(queue) \subseteq 1..accepted
      /\ queue \in Seq(Events) /\ Increasing(queue)
  <2>1. TypeOK /\ DrainState /\ Flow(batch, queue) /\ Accounting
    BY DEF IInv
  <2>2. accepted \in 0..MaxEvents
    BY <2>1, CaptureAssumption DEF TypeOK
  <2> QED
    BY <2>1, <2>2 DEF TypeOK, PromiseStatus, Accounting, Pending, Flow
<1>s. Sound(batch, queue, promise, log, lost, accepted)
  BY DEF SinkInv, Sound, Pending
<1>e. ASSUME Sound(batch', queue', promise', log', lost', accepted'), Unasked', Answered'
      PROVE  SinkInv'
  BY <1>e DEF SinkInv, Sound, Pending
<1>1. CASE CaptureAsync
  <2>1. Enqueue /\ queue' = Pushed /\ UNCHANGED worker
        /\ promise' = Settle(promise, Evicted, "rejected")
    BY <1>1 DEF CaptureAsync
  <2>2. batch' = batch /\ result' = result /\ log' = log
    BY <2>1 DEF worker
  <2>3. /\ Sound(batch, Pushed, promise', log, lost', accepted')
        /\ ~closed' => \A e \in Events : e > accepted' => promise'[e] = "none"
        /\ result = "ok" => \A e \in Elements(batch) : promise'[e] # "pending"
    BY <2>1, PushKeeps
  <2> QED
    BY <2>1, <2>2, <2>3, <1>e DEF Unasked, Answered
<1>2. CASE CaptureSealed
  <2> DEFINE p == [Settle(promise, Evicted, "rejected") EXCEPT ![calls + 1] = "pending"]
  <2>1. Enqueue /\ Flush(Pushed, p)
    BY <1>2 DEF CaptureSealed
  <2>2. /\ p \in [Events -> PromiseStatus]
        /\ Sound(batch, Pushed, p, log, lost', accepted')
        /\ accepted' \in 0..MaxEvents /\ Elements(Pushed) \subseteq 1..accepted'
        /\ ~closed' => \A e \in Events : e > accepted' => p[e] = "none"
        /\ result = "ok" => \A e \in Elements(batch) : p[e] # "pending"
    BY <2>1, PushKeeps
  <2> HIDE DEF p
  <2>3. Flow(batch, Pushed)
    BY <2>1, PushStep DEF Enqueue
  <2>4. /\ Sound(batch', queue', promise', log', lost', accepted')
        /\ \A e \in Events : p[e] = "none" => promise'[e] = "none"
        /\ Answered'
    BY <2>1, <2>2, <2>3, <1>0, FlushKeeps
  <2> QED
    BY <2>2, <2>4, <1>e DEF Unasked
<1>3. CASE FlushCall \/ Close \/ TimerFires
  <2>1. Flush(queue, promise) /\ lost' = lost /\ accepted' = accepted /\ (~closed' => ~closed)
    BY <1>3 DEF FlushCall, Close, TimerFires
  <2>2. result = "ok" => \A e \in Elements(batch) : promise[e] # "pending"
    BY DEF SinkInv, Answered
  <2>3. /\ Sound(batch', queue', promise', log', lost, accepted)
        /\ \A e \in Events : promise[e] = "none" => promise'[e] = "none"
        /\ Answered'
    BY <2>1, <2>2, <1>0, <1>s, FlushKeeps
  <2> QED
    BY <2>1, <2>3, <1>e DEF SinkInv, Unasked
<1>4. CASE SendSucceeds
  <2>1. /\ result = "ok" /\ TakeBatch(queue, promise)
        /\ UNCHANGED <<lost, closed, accepted>>
    BY <1>4 DEF SendSucceeds
  <2>2. Sound(<<>>, queue, promise, log, lost, accepted)
    <3>1. \A e \in Elements(batch) : promise[e] # "pending"
      BY <2>1 DEF SinkInv, Answered
    <3>2. Behind(log, Elements(<<>>))
      BY EmptyFacts DEF Behind
    <3> QED
      BY <3>1, <3>2, <1>s, EmptyFacts DEF Sound, Tidy, Honest
  <2>3. /\ Sound(batch', queue', promise', log', lost, accepted)
        /\ \A e \in Events : promise[e] = "none" => promise'[e] = "none"
        /\ Answered'
    BY <2>1, <2>2, <1>0, TakeKeeps
  <2> QED
    BY <2>1, <2>3, <1>e DEF SinkInv, Unasked
<1>5. CASE SendGivesUp
  <2> DEFINE p == Settle(promise, Elements(batch), "rejected")
  <2>1. /\ TakeBatch(queue, p) /\ lost' = lost \cup Elements(batch)
        /\ UNCHANGED <<closed, accepted>>
    BY <1>5 DEF SendGivesUp
  <2>2. /\ p \in [Events -> PromiseStatus]
        /\ \A e \in Events : p[e] = IF e \in Elements(batch) /\ promise[e] = "pending"
                                   THEN "rejected" ELSE promise[e]
    BY <1>0, SettleType DEF Settle, PromiseStatus
  <2> HIDE DEF p
  <2>3. Sound(<<>>, queue, p, log, lost', accepted)
    <3>1. 1..accepted \subseteq Events
      BY <1>0, CaptureAssumption DEF Events
    <3>2. Behind(log, Elements(<<>>))
      BY EmptyFacts DEF Behind
    <3>3. Honest(p, Elements(<<>>) \cup Elements(queue), log, lost', accepted)
      <4> SUFFICES ASSUME NEW e \in 1..accepted
                   PROVE  /\ p[e] = "resolved" => e \in Elements(log)
                          /\ p[e] = "rejected" => e \in lost'
                          /\ p[e] = "pending" => e \in Elements(queue)
        BY EmptyFacts DEF Honest
      <4>1. /\ promise[e] = "resolved" => e \in Elements(log)
            /\ promise[e] = "rejected" => e \in lost
            /\ promise[e] = "pending" => e \in Elements(batch) \cup Elements(queue)
        BY <1>s DEF Sound, Honest
      <4> QED
        BY <4>1, <3>1, <2>1, <2>2
    <3> QED
      BY <3>2, <3>3, <1>s DEF Sound, Tidy
  <2>4. /\ Sound(batch', queue', promise', log', lost', accepted)
        /\ \A e \in Events : p[e] = "none" => promise'[e] = "none"
        /\ Answered'
    BY <2>1, <2>2, <2>3, <1>0, TakeKeeps
  <2>5. Unasked'
    BY <2>1, <2>2, <2>4 DEF SinkInv, Unasked
  <2> QED
    BY <2>1, <2>4, <2>5, <1>e
<1>6. CASE BackoffEnds
  <2>1. /\ Send(batch, promise)
        /\ UNCHANGED <<queue, batch, lost, closed, accepted>>
    BY <1>6 DEF BackoffEnds
  <2>2. /\ Sound(batch, queue, promise', log', lost, accepted)
        /\ \A e \in Events : promise[e] = "none" => promise'[e] = "none"
        /\ result' = "ok" => \A e \in Elements(batch) : promise'[e] # "pending"
    BY <2>1, <1>0, <1>s, SendKeeps
  <2> QED
    BY <2>1, <2>2, <1>e DEF SinkInv, Unasked, Answered
<1>7. CASE SendRetries \/ DrainFinally \/ UNCHANGED vars
  <2>1. /\ UNCHANGED <<queue, batch, log, promise, lost, closed, accepted>>
        /\ result' \in {result, "none"}
    BY <1>7 DEF SendRetries, DrainFinally, vars, worker, stats
  <2> QED
    BY <2>1, <1>s, <1>e DEF SinkInv, Unasked, Answered, Sound, Tidy, Honest
<1> QED
  BY <1>1, <1>2, <1>3, <1>4, <1>5, <1>6, <1>7 DEF Next

(* The invariant of the sink holds in every reachable state. *)
THEOREM SinkInvariance == Spec => []SinkInv
<1>1. Init => SinkInv
  <2> SUFFICES ASSUME Init PROVE SinkInv
    OBVIOUS
  <2>1. /\ log = <<>> /\ batch = <<>> /\ queue = <<>> /\ result = "none" /\ accepted = 0
        /\ \A e \in Events : promise[e] = "none"
    BY DEF Init
  <2>2. Tidy(batch, queue, log, accepted)
    BY <2>1, EmptyFacts DEF Tidy, InOrder, Behind
  <2>3. 1..accepted = {}
    BY <2>1
  <2> QED
    BY <2>1, <2>2, <2>3 DEF SinkInv, Honest, Unasked, Answered
<1> QED
  BY <1>1, NextSink, Invariance, PTL DEF Spec

(* Receipts are issued in capture order: an event is logged for the first  *)
(* time only after every earlier event that ever is, over batches, retries *)
(* of a half-sealed batch, evictions and close().                          *)
THEOREM SealedInOrderHolds == Spec => []SealedInOrder
<1>1. SinkInv => SealedInOrder
  BY DEF SinkInv, Tidy, InOrder, SealedInOrder
<1> QED
  BY <1>1, SinkInvariance, PTL

(* A captureSealed promise is resolved only when its receipt exists,       *)
(* rejected only when the event went to onDrop, and unsettled only while   *)
(* the event is queued or being sent, whatever the channel and sink do.    *)
THEOREM PromisesAgreeHolds == Spec => []PromisesAgree
<1>1. SinkInv => PromisesAgree
  BY DEF SinkInv, Honest, PromisesAgree
<1> QED
  BY <1>1, SinkInvariance, PTL

-----------------------------------------------------------------------------
(* Capture implements CaptureContract: under the invariant above every step *)
(* of the queue is a step of the contract on (accepted, Pending, delivered, *)
(* lost, ~closed) or leaves these unchanged.                                *)

(* The contract's variables, as the queue implements them. *)
Visible == <<accepted, Pending, delivered, lost, ~closed>>

(* The contract counts with the Cardinality of its own copy of FiniteSets. *)
LEMMA SameCardinality == \A S : Contract!Cardinality(S) = Cardinality(S)
BY DEF Contract!Cardinality, Cardinality

(* Handing a batch over to drain() leaves the pending events the same. *)
LEMMA PendingHandover ==
    ASSUME Handover(batch, queue)
    PROVE  Pending' = Pending
BY DEF Handover, Pending

(* A flush by itself is invisible. *)
LEMMA FlushInvisible ==
    ASSUME IInv, Flush(queue, promise)
    PROVE  Pending' = Pending
<1>1. promise \in [Events -> PromiseStatus] /\ Flow(batch, queue)
  BY DEF IInv, TypeOK, PromiseStatus
<1>2. Handover(batch, queue)
  BY <1>1, FlushHands
<1> QED
  BY <1>2, PendingHandover

(* A capture call on an open queue is Accept, on a closed one invisible. *)
LEMMA EnqueueAccepts ==
    ASSUME IInv, Enqueue, Handover(batch, Pushed)
    PROVE  Contract!Accept \/ UNCHANGED Visible
<1>1. /\ calls < MaxEvents /\ closed' = closed
      /\ accepted' = (IF closed THEN accepted ELSE accepted + 1)
      /\ lost' = lost \cup Evicted /\ delivered' = delivered
  BY DEF Enqueue
<1>2. /\ Flow(batch, Pushed) /\ Evicted \subseteq Elements(queue)
      /\ Elements(Pushed) =
            (Elements(queue) \ Evicted) \cup (IF closed THEN {} ELSE {calls + 1})
  BY <1>1, PushStep
<1>3. Elements(batch') \cup Elements(queue') = Elements(batch) \cup Elements(Pushed)
  BY DEF Handover
<1>4. TypeOK /\ Flow(batch, queue) /\ Fresh
  BY DEF IInv
<1>5. CASE closed
  <2>1. Evicted = {}
    BY <1>5 DEF Evicted
  <2>2. Pending' = Pending /\ lost' = lost
    BY <2>1, <1>1, <1>2, <1>3, <1>5 DEF Pending
  <2> QED
    BY <2>2, <1>1, <1>5 DEF Visible
<1>6. CASE ~closed
  <2>1. calls = accepted /\ accepted' = accepted + 1
    BY <1>1, <1>4, <1>6 DEF Fresh
  <2>2. Elements(batch) \cap Elements(queue) = {}
    <3> SUFFICES ASSUME NEW x \in Elements(batch), x \in Elements(queue) PROVE FALSE
      OBVIOUS
    <3>1. x < x
      BY <1>4 DEF Flow
    <3>2. x \in Int
      BY <1>4, ElementsType, EventsInt DEF Flow
    <3> QED
      BY <3>1, <3>2
  <2>3. CASE Evicted = {}
    <3>1. Pending' = Pending \cup {accepted'} /\ lost' = lost
      BY <2>1, <2>3, <1>1, <1>2, <1>3, <1>6 DEF Pending
    <3> QED
      BY <3>1, <2>1, <1>1, <1>6 DEF Contract!Accept
  <2>4. CASE Evicted # {}
    <3>1. Evicted = {Head(queue)} /\ Len(queue) >= MaxQueue
      BY <2>4, <1>6 DEF Evicted
    <3>2. Head(queue) \in Pending
      BY <3>1, <1>2 DEF Pending
    <3>3. Pending' = (Pending \ {Head(queue)}) \cup {accepted'}
      BY <3>1, <2>1, <2>2, <1>2, <1>3, <1>6 DEF Pending
    <3>4. Cardinality(Pending) >= MaxQueue
      <4>1. Elements(batch) \subseteq Events /\ Elements(queue) \subseteq Events
        BY <1>4, ElementsType DEF Flow
      <4>2. Cardinality(Pending) = Cardinality(Elements(batch)) + Cardinality(Elements(queue))
        BY <4>1, <2>2, CardDisjointUnion DEF Pending
      <4>3. Cardinality(Elements(queue)) = Len(queue)
        BY <1>4, CardElements DEF Flow
      <4>4. Cardinality(Elements(batch)) \in Nat
        BY <4>1, FiniteEvents
      <4>5. Len(queue) \in Nat /\ MaxQueue \in Nat
        BY <1>4, LenTypes, CaptureAssumption
      <4> DEFINE cb == Cardinality(Elements(batch))
                 cq == Cardinality(Elements(queue))
                 cp == Cardinality(Pending)
                 lq == Len(queue)
      <4>6. cp = cb + cq /\ cq = lq /\ cb \in Nat /\ lq \in Nat /\ MaxQueue \in Nat
            /\ lq >= MaxQueue
        BY <4>2, <4>3, <4>4, <4>5, <3>1
      <4> HIDE DEF cb, cq, cp, lq
      <4>7. cp >= MaxQueue
        BY <4>6
      <4> QED
        BY <4>7 DEF cp
    <3> QED
      BY <3>1, <3>2, <3>3, <3>4, <2>1, <1>1, <1>6, SameCardinality DEF Contract!Accept
  <2> QED
    BY <2>3, <2>4
<1> QED
  BY <1>5, <1>6

(* The batch that leaves the queue is an oldest one of the contract. *)
LEMMA BatchIsOldest ==
    ASSUME IInv, drain = "settling", Handover(<<>>, queue)
    PROVE  /\ Elements(batch) \in SUBSET Pending /\ Contract!Oldest(Elements(batch))
           /\ Pending' = Pending \ Elements(batch)
<1>1. Flow(batch, queue) /\ DrainState
  BY DEF IInv
<1>2. batch \in Seq(Events) /\ batch # <<>>
  BY <1>1 DEF Flow, DrainState
<1>3. Elements(batch) # {} /\ Elements(batch) \subseteq Events
  BY <1>2, ElementsType
<1>4. Cardinality(Elements(batch)) <= BatchSize
  BY <1>1, CardElements DEF Flow
<1>5. \A x \in Elements(batch), y \in Elements(queue) : x < y
  BY <1>1 DEF Flow
<1>6. Elements(batch) \cap Elements(queue) = {}
  <2> SUFFICES ASSUME NEW x \in Elements(batch), x \in Elements(queue) PROVE FALSE
    OBVIOUS
  <2>1. x < x
    BY <1>5
  <2>2. x \in Int
    BY <1>3, EventsInt
  <2> QED
    BY <2>1, <2>2
<1>7. Pending' = Elements(queue)
  BY EmptyFacts DEF Handover, Pending
<1>8. Pending' = Pending \ Elements(batch)
  BY <1>6, <1>7 DEF Pending
<1>9. Contract!Oldest(Elements(batch))
  <2>1. \A e \in Elements(batch), f \in Pending \ Elements(batch) : e < f
    BY <1>5 DEF Pending
  <2> QED
    BY <2>1, <1>3, <1>4, SameCardinality DEF Contract!Oldest, Pending
<1> QED
  BY <1>8, <1>9 DEF Pending

(* Under the invariant a step of the queue is a step of the contract or none. *)
LEMMA StepRefines == IInv /\ [Next]_vars => [Contract!Next]_Visible
<1> SUFFICES ASSUME IInv, [Next]_vars PROVE Contract!Next \/ UNCHANGED Visible
  OBVIOUS
<1>0. /\ promise \in [Events -> PromiseStatus]
      /\ \A S : Settle(promise, S, "rejected") \in [Events -> PromiseStatus]
      /\ Flow(batch, queue) /\ DrainState /\ WorkerType
  <2>1. promise \in [Events -> PromiseStatus] /\ Flow(batch, queue) /\ DrainState
        /\ WorkerType
    BY TypeParts DEF IInv, TypeOK, PromiseStatus
  <2> QED
    BY <2>1, SettleType DEF PromiseStatus
<1>1. CASE CaptureAsync
  <2>1. Enqueue /\ queue' = Pushed /\ UNCHANGED worker
        /\ promise' = Settle(promise, Evicted, "rejected")
    BY <1>1 DEF CaptureAsync
  <2>2. Flow(batch, Pushed)
    BY <2>1, PushStep DEF Enqueue
  <2>3. batch' = batch /\ inFlight' = inFlight /\ drain' = drain
        /\ attempt' = attempt /\ result' = result /\ log' = log
    BY <2>1 DEF worker
  <2>4. DrainState' /\ WorkerType'
    BY <2>1, <2>3, <1>0 DEF DrainState, WorkerType
  <2>5. Len(Pushed) \in Nat
    BY <2>2 DEF Flow
  <2>6. Handover(batch, Pushed)
    BY <2>1, <2>2, <2>3, <2>4, <2>5 DEF Handover
  <2> QED
    BY <2>1, <2>6, EnqueueAccepts DEF Contract!Next
<1>2. CASE CaptureSealed
  <2> DEFINE p == [Settle(promise, Evicted, "rejected") EXCEPT ![calls + 1] = "pending"]
  <2>1. Enqueue /\ Flush(Pushed, p)
    BY <1>2 DEF CaptureSealed
  <2>2. Flow(batch, Pushed)
    BY <2>1, PushStep DEF Enqueue
  <2>3. p \in [Events -> PromiseStatus]
    BY <1>0 DEF PromiseStatus
  <2> HIDE DEF p
  <2>4. Handover(batch, Pushed)
    BY <2>1, <2>2, <2>3, FlushHands
  <2> QED
    BY <2>1, <2>4, EnqueueAccepts DEF Contract!Next
<1>3. CASE FlushCall \/ TimerFires
  BY <1>3, FlushInvisible DEF FlushCall, TimerFires, Visible
<1>4. CASE Close
  <2>1. /\ Pending' = Pending /\ closed' = TRUE
        /\ UNCHANGED <<accepted, delivered, lost>>
    BY <1>4, FlushInvisible DEF Close
  <2> QED
    BY <2>1 DEF Contract!Next, Contract!Shut
<1>5. CASE SendSucceeds
  <2>1. /\ drain = "settling" /\ TakeBatch(queue, promise)
        /\ delivered' = delivered \cup Elements(batch)
        /\ UNCHANGED <<closed, lost, accepted>>
    BY <1>5 DEF SendSucceeds
  <2>2. Handover(<<>>, queue)
    BY <2>1, <1>0, TakeBatchHands
  <2>3. /\ Elements(batch) \in SUBSET Pending /\ Contract!Oldest(Elements(batch))
        /\ Pending' = Pending \ Elements(batch)
    BY <2>1, <2>2, BatchIsOldest
  <2>4. Contract!Deliver(Elements(batch))
    BY <2>1, <2>3 DEF Contract!Deliver
  <2> QED
    BY <2>3, <2>4 DEF Contract!Next
<1>6. CASE SendGivesUp
  <2>1. /\ drain = "settling"
        /\ TakeBatch(queue, Settle(promise, Elements(batch), "rejected"))
        /\ lost' = lost \cup Elements(batch)
        /\ UNCHANGED <<closed, delivered, accepted>>
    BY <1>6 DEF SendGivesUp
  <2>2. Handover(<<>>, queue)
    BY <2>1, <1>0, TakeBatchHands
  <2>3. /\ Elements(batch) \in SUBSET Pending /\ Contract!Oldest(Elements(batch))
        /\ Pending' = Pending \ Elements(batch)
    BY <2>1, <2>2, BatchIsOldest
  <2>4. Contract!GiveUp(Elements(batch))
    BY <2>1, <2>3 DEF Contract!GiveUp
  <2> QED
    BY <2>3, <2>4 DEF Contract!Next
<1>7. CASE SendRetries
  BY <1>7 DEF SendRetries, Visible, Pending
<1>8. CASE BackoffEnds
  BY <1>8 DEF BackoffEnds, Visible, Pending
<1>9. CASE DrainFinally
  BY <1>9 DEF DrainFinally, Visible, Pending
<1>10. CASE UNCHANGED vars
  BY <1>10 DEF vars, worker, stats, Visible, Pending
<1> QED
  BY <1>1, <1>2, <1>3, <1>4, <1>5, <1>6, <1>7, <1>8, <1>9, <1>10 DEF Next

(* The queue, its drain and its sink implement the contract: accepted      *)
(* events leave oldest first, in batches of at most batchSize, delivered or*)
(* lost once and for all, and only an eviction with maxQueue events pending*)
(* loses one out of turn.                                                  *)
THEOREM Refinement == Spec => ImplementsContract
<1>1. Init => Contract!Init
  <2>1. Init => Pending = {}
    BY EmptyFacts DEF Init, Pending
  <2> QED
    BY <2>1 DEF Init, Contract!Init
<1>2. IInv /\ [Next]_vars => [Contract!Next]_Contract!vars
  BY StepRefines DEF Visible, Contract!vars
<1> QED
  BY <1>1, <1>2, Invariance, PTL DEF Spec, ImplementsContract, Contract!Spec
-----------------------------------------------------------------------------
(* The CooL client starts and drives the queue only as the queue allows.   *)
LEMMA ClientStepsQueue == [CNext]_cvars => [Next]_vars
<1> SUFFICES ASSUME [CNext]_cvars PROVE [Next]_vars
  OBVIOUS
<1>1. CASE \E c \in Calls : Record(c)
  BY <1>1 DEF Record
<1>2. CASE \E c \in Calls : RecordResumes(c)
  BY <1>2 DEF RecordResumes, Next
<1>3. CASE OpenSucceeds \/ OpenFails
  BY <1>3 DEF OpenSucceeds, OpenFails
<1>4. CASE CoolClose
  BY <1>4 DEF CoolClose, Next
<1>5. CASE CoolFlush
  BY <1>5 DEF CoolFlush, Next
<1>6. CASE QueueStep
  BY <1>6 DEF QueueStep, Next
<1>7. CASE QueueFinally
  BY <1>7 DEF QueueFinally, Next
<1>8. CASE UNCHANGED cvars
  BY <1>8 DEF cvars
<1> QED
  BY <1>1, <1>2, <1>3, <1>4, <1>5, <1>6, <1>7, <1>8 DEF CNext

(* The queue of a CooL client is the queue of Capture: whatever is proved  *)
(* of Spec above holds under the shared connection, record() and close().  *)
THEOREM ClientKeepsQueue == CSpec => Spec
<1>1. CInit => Init
  BY DEF CInit
<1> QED
  BY <1>1, ClientStepsQueue, PTL DEF CSpec, Spec

(* A promise, once asked for, never becomes unasked, and calls are counted.*)
Asked == {e \in Events : promise[e] # "none"}

LEMMA SettleAsks ==
    ASSUME NEW p \in [Events -> PromiseStatus], NEW S, NEW status \in {"resolved", "rejected"},
           NEW e \in Events, p[e] # "none"
    PROVE  Settle(p, S, status)[e] # "none"
BY DEF Settle

LEMMA SendAsks ==
    ASSUME NEW b, NEW p \in [Events -> PromiseStatus], Send(b, p), NEW e \in Events, p[e] # "none"
    PROVE  promise'[e] # "none"
<1>1. CASE promise' = p
  BY <1>1
<1>2. CASE promise' = Settle(p, Elements(b), "resolved")
  BY <1>2, SettleAsks
<1>3. CASE \E k \in 0..(Len(b) - 1) : promise' = Settle(p, Elements(SubSeq(b, 1, k)), "resolved")
  BY <1>3, SettleAsks
<1> QED
  BY <1>1, <1>2, <1>3 DEF Send

LEMMA FlushAsks ==
    ASSUME NEW q, NEW p \in [Events -> PromiseStatus], Flush(q, p) \/ TakeBatch(q, p),
           NEW e \in Events, p[e] # "none"
    PROVE  promise'[e] # "none"
<1>1. promise' = p \/ Send(batch', p)
  BY DEF Flush, TakeBatch
<1> QED
  BY <1>1, SendAsks

LEMMA StaysAsked ==
    ASSUME IInv, [Next]_vars
    PROVE  /\ \A e \in Events : promise[e] # "none" => promise'[e] # "none"
           /\ calls' \in {calls, calls + 1}
<1>0. /\ promise \in [Events -> PromiseStatus] /\ calls \in 0..MaxEvents
  BY DEF IInv, TypeOK, PromiseStatus
<1>1. ASSUME NEW S, NEW status \in {"resolved", "rejected"}
      PROVE  Settle(promise, S, status) \in [Events -> PromiseStatus]
  BY <1>0 DEF Settle, PromiseStatus
<1>2. CASE CaptureAsync
  BY <1>0, <1>2, SettleAsks DEF CaptureAsync, Enqueue
<1>3. CASE CaptureSealed
  <2> DEFINE r == Settle(promise, Evicted, "rejected")
             p == [r EXCEPT ![calls + 1] = "pending"]
  <2>1. Enqueue /\ Flush(Pushed, p)
    BY <1>3 DEF CaptureSealed
  <2>2. r \in [Events -> PromiseStatus]
    BY <1>1
  <2>3. \A e \in Events : promise[e] # "none" => r[e] # "none"
    BY <1>0, SettleAsks
  <2> HIDE DEF r
  <2>4. p \in [Events -> PromiseStatus]
    BY <2>2 DEF PromiseStatus
  <2>5. \A e \in Events : r[e] # "none" => p[e] # "none"
    BY <2>2
  <2> HIDE DEF p
  <2>6. \A e \in Events : p[e] # "none" => promise'[e] # "none"
    BY <2>1, <2>4, FlushAsks
  <2> QED
    BY <2>1, <2>3, <2>5, <2>6 DEF Enqueue
<1>4. CASE FlushCall \/ TimerFires \/ Close
  <2>1. Flush(queue, promise) /\ calls' = calls
    BY <1>4 DEF FlushCall, TimerFires, Close
  <2> QED
    BY <1>0, <2>1, FlushAsks
<1>5. CASE SendSucceeds
  <2>1. TakeBatch(queue, promise) /\ calls' = calls
    BY <1>5 DEF SendSucceeds
  <2> QED
    BY <1>0, <2>1, FlushAsks
<1>6. CASE SendGivesUp
  <2> DEFINE p == Settle(promise, Elements(batch), "rejected")
  <2>1. TakeBatch(queue, p) /\ calls' = calls
    BY <1>6 DEF SendGivesUp
  <2>2. p \in [Events -> PromiseStatus] /\ \A e \in Events : promise[e] # "none" => p[e] # "none"
    BY <1>0, <1>1, SettleAsks
  <2> HIDE DEF p
  <2> QED
    BY <2>1, <2>2, FlushAsks
<1>7. CASE BackoffEnds
  <2>1. Send(batch, promise) /\ calls' = calls
    BY <1>7 DEF BackoffEnds
  <2> QED
    BY <1>0, <2>1, SendAsks
<1>8. CASE SendRetries \/ DrainFinally \/ UNCHANGED vars
  BY <1>8 DEF SendRetries, DrainFinally, vars
<1> QED
  BY <1>2, <1>3, <1>4, <1>5, <1>6, <1>7, <1>8 DEF Next

(* The call of captureSealed() has a promise of its own. *)
LEMMA SealedAsks ==
    ASSUME IInv, CaptureSealed
    PROVE  calls' = calls + 1 /\ calls + 1 \in Events /\ promise'[calls + 1] # "none"
<1> DEFINE r == Settle(promise, Evicted, "rejected")
           p == [r EXCEPT ![calls + 1] = "pending"]
<1>0. promise \in [Events -> PromiseStatus] /\ calls \in 0..MaxEvents
  BY DEF IInv, TypeOK, PromiseStatus
<1>1. Enqueue /\ Flush(Pushed, p)
  BY DEF CaptureSealed
<1>2. r \in [Events -> PromiseStatus]
  BY <1>0 DEF Settle, PromiseStatus
<1>3. calls' = calls + 1 /\ calls + 1 \in Events
  BY <1>0, <1>1, CaptureAssumption DEF Enqueue, Events
<1> HIDE DEF r
<1>4. p \in [Events -> PromiseStatus] /\ p[calls + 1] # "none"
  BY <1>2, <1>3 DEF PromiseStatus
<1> HIDE DEF p
<1> QED
  BY <1>1, <1>3, <1>4, FlushAsks

(***************************************************************************)
(* The inductive invariant of the client: the connection says whether there*)
(* is a tee, a call is where its connection allows, and one that records   *)
(* has asked for the promise of an event of its own.                       *)
(***************************************************************************)
Connected ==
    /\ connecting \in {"null", "opening", "open"} /\ (tee <=> connecting = "open")
    /\ call \in [Calls -> {"idle", "waiting", "ready", "recording", "rejected"}]
    /\ event \in [Calls -> 0..calls]
    /\ \A c \in Calls : call[c] = "waiting" => connecting = "opening"
    /\ \A c \in Calls : call[c] \in {"ready", "recording"} => connecting = "open"

Own ==
    /\ \A c \in Calls : call[c] = "recording" => event[c] \in Asked
    /\ \A c, d \in Calls :
          call[c] = "recording" /\ call[d] = "recording" /\ event[c] = event[d] => c = d

LEMMA ClientStarts == CInit => Connected /\ Own
BY CaptureAssumption DEF CInit, Init, Connected, Own

LEMMA ConnectedKept ==
    ASSUME IInv, Connected, [CNext]_cvars PROVE Connected'
<1>0. calls \in Nat /\ calls' \in {calls, calls + 1}
  BY ClientStepsQueue, StaysAsked, CaptureAssumption DEF IInv, TypeOK
<1>1. 0..calls \subseteq 0..calls'
  BY <1>0
<1>2. CASE \E c \in Calls : Record(c)
  <2> PICK c \in Calls : Record(c)
    BY <1>2
  <2>1. /\ call[c] = "idle" /\ UNCHANGED <<tee, event, calls>>
        /\ \/ call' = [call EXCEPT ![c] = "rejected"] /\ UNCHANGED connecting
           \/ tee /\ call' = [call EXCEPT ![c] = "ready"] /\ UNCHANGED connecting
           \/ ~tee /\ connecting # "null" /\ call' = [call EXCEPT ![c] = "waiting"] /\ UNCHANGED connecting
           \/ ~tee /\ connecting = "null" /\ call' = [call EXCEPT ![c] = "waiting"] /\ connecting' = "opening"
    BY DEF Record, Connect, vars
  <2> QED
    BY <2>1 DEF Connected
<1>3. CASE \E c \in Calls : RecordResumes(c)
  <2> PICK c \in Calls : RecordResumes(c)
    BY <1>3
  <2>1. /\ call[c] = "ready" /\ call' = [call EXCEPT ![c] = "recording"]
        /\ event' = [event EXCEPT ![c] = calls + 1] /\ UNCHANGED <<tee, connecting>>
        /\ calls' = calls + 1
    BY SealedAsks DEF RecordResumes
  <2>2. event' \in [Calls -> 0..calls']
    BY <2>1, <1>0, <1>1 DEF Connected
  <2> QED
    BY <2>1, <2>2 DEF Connected
<1>4. CASE OpenSucceeds
  <2>1. /\ connecting = "opening" /\ connecting' = "open" /\ tee' = TRUE
        /\ call' = Resumed("ready") /\ UNCHANGED <<event, calls>>
    BY <1>4 DEF OpenSucceeds, vars
  <2> QED
    BY <2>1 DEF Connected, Resumed
<1>5. CASE OpenFails
  <2>1. /\ connecting = "opening" /\ connecting' = "null" /\ UNCHANGED tee
        /\ call' = Resumed("rejected") /\ UNCHANGED <<event, calls>>
    BY <1>5 DEF OpenFails, vars
  <2> QED
    BY <2>1 DEF Connected, Resumed
<1>6. CASE CoolClose \/ CoolFlush \/ QueueStep \/ QueueFinally \/ UNCHANGED cvars
  <2>1. UNCHANGED <<tee, connecting, call, event>>
    BY <1>6 DEF CoolClose, CoolFlush, QueueStep, QueueFinally, cvars, client
  <2>2. event' \in [Calls -> 0..calls']
    BY <2>1, <1>1 DEF Connected
  <2> QED
    BY <2>1, <2>2 DEF Connected
<1> QED
  BY <1>2, <1>3, <1>4, <1>5, <1>6 DEF CNext

LEMMA OwnKept ==
    ASSUME IInv, Connected, Own, [CNext]_cvars PROVE Own'
<1>0. calls \in Nat /\ Asked \subseteq Asked'
  BY ClientStepsQueue, StaysAsked, CaptureAssumption DEF IInv, TypeOK, Asked
<1>1. ASSUME event' = event, \A c \in Calls : call'[c] = "recording" => call[c] = "recording"
      PROVE  Own'
  BY <1>0, <1>1 DEF Own
<1>2. CASE \E c \in Calls : Record(c)
  <2> PICK c \in Calls : Record(c)
    BY <1>2
  <2>1. event' = event /\ \E s \in {"rejected", "ready", "waiting"} : call' = [call EXCEPT ![c] = s]
    BY DEF Record, Connect
  <2>2. \A d \in Calls : call'[d] = "recording" => call[d] = "recording"
    BY <2>1 DEF Connected
  <2> QED
    BY <1>1, <2>1, <2>2
<1>3. CASE \E c \in Calls : RecordResumes(c)
  <2> PICK c \in Calls : RecordResumes(c)
    BY <1>3
  <2>1. /\ call' = [call EXCEPT ![c] = "recording"] /\ event' = [event EXCEPT ![c] = calls + 1]
        /\ calls + 1 \in Asked'
    BY SealedAsks DEF RecordResumes, Asked
  <2>2. /\ call'[c] = "recording" /\ event'[c] = calls + 1
        /\ \A d \in Calls \ {c} : call'[d] = call[d] /\ event'[d] = event[d]
    BY <2>1 DEF Connected
  <2>3. \A d \in Calls : event[d] # calls + 1
    BY <1>0 DEF Connected
  <2>4. ASSUME NEW d \in Calls, call'[d] = "recording" PROVE event'[d] \in Asked'
    BY <1>0, <2>1, <2>2, <2>4 DEF Own
  <2>5. ASSUME NEW d \in Calls, NEW e \in Calls, call'[d] = "recording", call'[e] = "recording",
               event'[d] = event'[e]
        PROVE  d = e
    BY <2>2, <2>3, <2>5 DEF Own
  <2> QED
    BY <2>4, <2>5 DEF Own
<1>4. CASE OpenSucceeds \/ OpenFails
  <2>1. event' = event /\ \E s \in {"ready", "rejected"} : call' = Resumed(s)
    BY <1>4 DEF OpenSucceeds, OpenFails
  <2>2. \A c \in Calls : call'[c] = "recording" => call[c] = "recording"
    BY <2>1 DEF Resumed
  <2> QED
    BY <1>1, <2>1, <2>2
<1>5. CASE CoolClose \/ CoolFlush \/ QueueStep \/ QueueFinally \/ UNCHANGED cvars
  <2>1. call' = call /\ event' = event
    BY <1>5 DEF CoolClose, CoolFlush, QueueStep, QueueFinally, cvars, client
  <2> QED
    BY <1>1, <2>1
<1> QED
  BY <1>2, <1>3, <1>4, <1>5 DEF CNext

(* What is pending is held by a drain, or a timer will start one. *)
LEMMA DrainComes ==
    ASSUME IInv, NEW e \in Pending PROVE timer \/ inFlight = "running" \/ closed
<1>1. e \in Elements(batch) => batch # <<>>
  BY EmptyFacts
<1>2. e \in Elements(queue) => queue # <<>>
  BY EmptyFacts
<1> QED
  BY <1>1, <1>2 DEF Pending, IInv, DrainState, NoStall

LEMMA CarriedOn ==
    ASSUME IInv, SinkInv, Connected, Own PROVE CallsCarriedOn
<1>0. /\ promise \in [Events -> PromiseStatus] /\ calls \in 0..MaxEvents /\ accepted \in 0..calls
  BY DEF IInv, TypeOK, PromiseStatus
<1>1. ASSUME NEW c \in Calls, InProgress(c), call[c] = "recording"
      PROVE  \/ event[c] \in Pending /\ (timer \/ inFlight = "running" \/ closed)
             \/ event[c] > accepted /\ closed
  <2>1. event[c] \in Events /\ promise[event[c]] # "none" /\ event[c] <= calls
    BY <1>0, <1>1 DEF Own, Asked, Connected
  <2>2. promise[event[c]] \notin {"resolved", "rejected"}
    BY <1>1 DEF InProgress, Settled
  <2>3. promise[event[c]] = "pending"
    BY <1>0, <2>1, <2>2 DEF PromiseStatus
  <2>4. CASE event[c] \in 1..accepted
    <3>1. event[c] \in Pending
      BY <2>3, <2>4 DEF SinkInv, Honest
    <3> QED
      BY <3>1, DrainComes
  <2>5. CASE event[c] > accepted
    <3>1. accepted # calls
      BY <1>0, <2>1, <2>5, CaptureAssumption DEF Events
    <3> QED
      BY <2>5, <3>1 DEF IInv, Fresh
  <2> QED
    BY <1>0, <2>1, <2>4, <2>5, CaptureAssumption DEF Events
<1>2. ASSUME NEW c \in Calls, InProgress(c)
      PROVE  call[c] \in {"waiting", "ready", "recording"}
  BY <1>2 DEF InProgress, Settled, Connected
<1>3. \A c \in Calls : /\ call[c] = "waiting" => connecting = "opening"
                       /\ call[c] = "ready" => tee
  BY DEF Connected
<1>4. \A c, d \in Calls :
          call[c] = "recording" /\ call[d] = "recording" /\ event[c] = event[d] => c = d
  BY DEF Own
<1> QED
  BY <1>1, <1>2, <1>3, <1>4 DEF CallsCarriedOn

(* Through shared, failed and repeated connections, retries, drops and     *)
(* close(), no record() call is forgotten: until it settles its connection *)
(* is being opened, its next step is due, or the queue holds an event of   *)
(* its own and will drain it.  Only close() leaves events behind.          *)
THEOREM CallsAlwaysCarriedOn == CSpec => []CallsCarriedOn
<1>1. IInv /\ Connected /\ Own /\ [CNext]_cvars => (Connected /\ Own)'
  BY ConnectedKept, OwnKept
<1>2. IInv /\ SinkInv /\ Connected /\ Own => CallsCarriedOn
  BY CarriedOn
<1> QED
  BY ClientStarts, <1>1, <1>2, ClientKeepsQueue, Invariance, SinkInvariance, PTL DEF CSpec
=============================================================================
