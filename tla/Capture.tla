------------------------------- MODULE Capture -------------------------------
(***************************************************************************)
(* The capture path of CoolTee: the bounded queue of phala/capture.ts,     *)
(* the drain that empties it in batches with retries, and the sink of      *)
(* phala/client.ts, reached through the attested channel of phala/ratls.ts,*)
(* that seals every event of a batch into the log.                         *)
(*                                                                         *)
(* A synchronous block of JavaScript is one action; the actions between    *)
(* two of them are what the event loop may run in between.  Capture calls  *)
(* are numbered 1, 2, ... in the order they are made, and an event is the  *)
(* number of its call.  Three facts about the event loop are used:         *)
(*   - flush() calls drain(), which runs synchronously up to its first     *)
(*     `await`; the sink is synchronous, so the whole batch is sealed in   *)
(*     the step that sends it and only the settlement comes later;         *)
(*   - `.finally` runs one microtask after drain() has returned.  In that  *)
(*     gap inFlight is still set although nobody drains ("ended");         *)
(*   - a timer never fires in the gap (microtasks run before timers), but  *)
(*     application code may, as a microtask of its own.                    *)
(* The application's callbacks onReceipt and onDrop do not call back into  *)
(* the queue, and onDrop does not throw.                                   *)
(***************************************************************************)
EXTENDS Integers, Sequences, FiniteSets

CONSTANTS
    MaxEvents,    \* bound: capture calls in a behaviour
    MaxQueue,     \* options.maxQueue
    BatchSize,    \* options.batchSize
    MaxRetries,   \* options.maxRetries
    ChannelOpen,  \* handshake.ok of the attested channel
    SealThrows,   \* the events whose plane.seal() can throw before log.append
    ReceiptThrows \* the events whose sink can throw after it: checkpoint, onReceipt

ASSUME CaptureAssumption ==
    /\ MaxEvents \in Nat
    /\ MaxQueue \in Nat \ {0}
    /\ BatchSize \in Nat \ {0}
    /\ MaxRetries \in Nat
    /\ ChannelOpen \in BOOLEAN
    /\ SealThrows \subseteq 1..MaxEvents
    /\ ReceiptThrows \subseteq 1..MaxEvents

VARIABLES
    queue,      \* this.queue
    timer,      \* this.timer !== null
    inFlight,   \* this.inFlight: "none", "running", or "ended" before .finally
    drain,      \* where drain() is suspended: "idle", "settling", "backoff"
    batch,      \* the batch drain() holds
    attempt,    \* its retry counter
    result,     \* how the send in progress is going to settle
    closed,     \* this.closed
    closing,    \* the promise of close(): "uncalled", "waiting", "returned"
    sent, dropped, failures, batches, highWater,  \* the counters of stats()
    delivered,  \* events handed to onSent
    lost,       \* events handed to onDrop
    log,        \* events sealed by the evidence plane, in order
    promise,    \* captureSealed's promise, per call
    calls,      \* capture calls made
    accepted    \* calls that passed the `closed` test

stats == <<sent, dropped, failures, batches, highWater>>
worker == <<inFlight, drain, batch, attempt, result, log>>
vars == <<queue, timer, worker, closed, closing, stats, delivered, lost,
          promise, calls, accepted>>

Events == 1..MaxEvents
Elements(s) == {s[i] : i \in 1..Len(s)}
Lesser(a, b) == IF a <= b THEN a ELSE b

(* Events accepted and neither sent nor dropped yet. *)
Pending == Elements(batch) \cup Elements(queue)

Init ==
    /\ queue = <<>> /\ timer = FALSE
    /\ inFlight = "none" /\ drain = "idle"
    /\ batch = <<>> /\ attempt = 0 /\ result = "none" /\ log = <<>>
    /\ closed = FALSE /\ closing = "uncalled"
    /\ sent = 0 /\ dropped = 0 /\ failures = 0 /\ batches = 0 /\ highWater = 0
    /\ delivered = {} /\ lost = {}
    /\ promise = [e \in Events |-> "none"]
    /\ calls = 0 /\ accepted = 0

-----------------------------------------------------------------------------
(* Definitions marked "Mutant" are plausible bugs, kept to show that the    *)
(* properties at the end of the module notice them; nothing uses them.     *)

(* Settling a promise that is already settled has no effect. *)
Settle(p, S, status) ==
    [e \in Events |-> IF e \in S /\ p[e] = "pending" THEN status ELSE p[e]]

(***************************************************************************)
(* channel.send(b): a channel that never attested throws at once.  An open *)
(* one runs the sink, which seals, remembers and reports each event and    *)
(* then resolves its promise.  When it throws at b[k+1], before the event  *)
(* is in the log or (a checkpoint that cannot be written, an onReceipt     *)
(* callback) after, the events before it stay sealed and their promises    *)
(* resolved, and the rest is not looked at.                                *)
(* p is the promise function before the call.                              *)
(***************************************************************************)
Send(b, p) ==
    \/ /\ ~ChannelOpen
       /\ result' = "fail" /\ promise' = p /\ UNCHANGED log
    \/ /\ ChannelOpen
       /\ result' = "ok"
       /\ log' = log \o b
       /\ promise' = Settle(p, Elements(b), "resolved")
    \/ /\ ChannelOpen
       /\ result' = "fail"
       /\ \E k \in 0..(Len(b) - 1) :
            /\ \/ b[k + 1] \in SealThrows /\ log' = log \o SubSeq(b, 1, k)
               \/ b[k + 1] \in ReceiptThrows /\ log' = log \o SubSeq(b, 1, k + 1)
            /\ promise' = Settle(p, Elements(SubSeq(b, 1, k)), "resolved")

(* The head of drain()'s loop, with queue q: take a batch or return. *)
TakeBatch(q, p) ==
    \/ /\ q = <<>>
       /\ inFlight' = "ended" /\ drain' = "idle"
       /\ batch' = <<>> /\ attempt' = 0 /\ result' = "none"
       /\ queue' = q /\ promise' = p /\ UNCHANGED log
    \/ /\ q # <<>>
       /\ inFlight' = "running" /\ drain' = "settling" /\ attempt' = 0
       /\ batch' = SubSeq(q, 1, Lesser(BatchSize, Len(q)))
       /\ queue' = SubSeq(q, BatchSize + 1, Len(q))
       /\ Send(batch', p)

(* flush(): share the drain in flight, or start one. *)
Flush(q, p) ==
    \/ /\ inFlight # "none"
       /\ queue' = q /\ promise' = p /\ UNCHANGED worker
    \/ /\ inFlight = "none"
       /\ TakeBatch(q, p)

(* Mutant: eviction one event too early. *)
EvictedEarly == IF ~closed /\ Len(queue) >= MaxQueue - 1 /\ queue # <<>>
                THEN {Head(queue)} ELSE {}

(* queue.capture() as call number calls + 1.  Full means drop the oldest. *)
Evicted == IF ~closed /\ Len(queue) >= MaxQueue THEN {Head(queue)} ELSE {}

Pushed ==
    CASE closed          -> queue
      [] Evicted # {}    -> Append(Tail(queue), calls + 1)
      [] OTHER           -> Append(queue, calls + 1)

(* Mutant: arm the timer only when no drain is in flight. *)
EnqueueTrustingDrain ==
    /\ calls < MaxEvents
    /\ calls' = calls + 1
    /\ accepted' = IF closed THEN accepted ELSE accepted + 1
    /\ timer' = (timer \/ (~closed /\ inFlight = "none"))
    /\ dropped' = dropped + Cardinality(Evicted)
    /\ lost' = lost \cup Evicted
    /\ highWater' = IF Len(Pushed) > highWater THEN Len(Pushed) ELSE highWater
    /\ UNCHANGED <<closed, closing, sent, failures, batches, delivered>>

Enqueue ==
    /\ calls < MaxEvents
    /\ calls' = calls + 1
    /\ accepted' = IF closed THEN accepted ELSE accepted + 1
    /\ timer' = (timer \/ ~closed)
    /\ dropped' = dropped + Cardinality(Evicted)
    /\ lost' = lost \cup Evicted
    /\ highWater' = IF Len(Pushed) > highWater THEN Len(Pushed) ELSE highWater
    /\ UNCHANGED <<closed, closing, sent, failures, batches, delivered>>

-----------------------------------------------------------------------------
(* CoolTee.capture(event): fire and forget. *)
CaptureAsync ==
    /\ Enqueue
    /\ queue' = Pushed
    /\ promise' = Settle(promise, Evicted, "rejected")
    /\ UNCHANGED worker

(* CoolTee.captureSealed(event): capture with a promise, then flush. *)
CaptureSealed ==
    /\ Enqueue
    /\ Flush(Pushed, [Settle(promise, Evicted, "rejected")
                        EXCEPT ![calls + 1] = "pending"])

(* CoolTee.flush(), called by the application. *)
FlushCall ==
    /\ Flush(queue, promise)
    /\ UNCHANGED <<timer, closed, closing, stats, delivered, lost, calls, accepted>>

(* The flushMs timer. *)
TimerFires ==
    /\ timer /\ inFlight # "ended"
    /\ timer' = FALSE
    /\ Flush(queue, promise)
    /\ UNCHANGED <<closed, closing, stats, delivered, lost, calls, accepted>>

(* Mutant: the drain loop stops once the queue is closed. *)
SendSucceedsUnlessClosed ==
    /\ drain = "settling" /\ result = "ok"
    /\ sent' = sent + Len(batch) /\ batches' = batches + 1
    /\ delivered' = delivered \cup Elements(batch)
    /\ IF closed
       THEN /\ inFlight' = "ended" /\ drain' = "idle" /\ batch' = <<>>
            /\ attempt' = 0 /\ result' = "none"
            /\ UNCHANGED <<queue, promise, log>>
       ELSE TakeBatch(queue, promise)
    /\ UNCHANGED <<timer, closed, closing, dropped, failures, highWater, lost,
                   calls, accepted>>

(* `await send(batch)` returns: count the batch as sent, go round the loop. *)
SendSucceeds ==
    /\ drain = "settling" /\ result = "ok"
    /\ sent' = sent + Len(batch) /\ batches' = batches + 1
    /\ delivered' = delivered \cup Elements(batch)
    /\ TakeBatch(queue, promise)
    /\ UNCHANGED <<timer, closed, closing, dropped, failures, highWater, lost,
                   calls, accepted>>

(* Mutant: a failed batch goes to the back of the queue instead of waiting. *)
SendRequeues ==
    /\ drain = "settling" /\ result = "fail" /\ attempt < MaxRetries
    /\ failures' = failures + 1
    /\ TakeBatch(queue \o batch, promise)
    /\ UNCHANGED <<timer, closed, closing, sent, dropped, batches, highWater,
                   delivered, lost, calls, accepted>>

(* Mutant: the retry counter is never advanced. *)
SendRetriesForEver ==
    /\ drain = "settling" /\ result = "fail" /\ attempt < MaxRetries
    /\ drain' = "backoff" /\ result' = "none"
    /\ UNCHANGED <<queue, timer, inFlight, batch, attempt, log, closed, closing,
                   stats, delivered, lost, promise, calls, accepted>>

(* It throws and a retry is left: wait flushMs * attempt. *)
SendRetries ==
    /\ drain = "settling" /\ result = "fail" /\ attempt < MaxRetries
    /\ failures' = failures + 1
    /\ attempt' = attempt + 1
    /\ drain' = "backoff" /\ result' = "none"
    /\ UNCHANGED <<queue, timer, inFlight, batch, log, closed, closing, sent,
                   dropped, batches, highWater, delivered, lost, promise,
                   calls, accepted>>

(* Mutant: dropping a batch counts as one drop. *)
SendGivesUpMiscounted ==
    /\ drain = "settling" /\ result = "fail" /\ attempt >= MaxRetries
    /\ failures' = failures + 1
    /\ dropped' = dropped + 1
    /\ lost' = lost \cup Elements(batch)
    /\ TakeBatch(queue, Settle(promise, Elements(batch), "rejected"))
    /\ UNCHANGED <<timer, closed, closing, sent, batches, highWater, delivered,
                   calls, accepted>>

(* Mutant: onDrop is not wired to the promises. *)
SendGivesUpSilently ==
    /\ drain = "settling" /\ result = "fail" /\ attempt >= MaxRetries
    /\ failures' = failures + 1
    /\ dropped' = dropped + Len(batch)
    /\ lost' = lost \cup Elements(batch)
    /\ TakeBatch(queue, promise)
    /\ UNCHANGED <<timer, closed, closing, sent, batches, highWater, delivered,
                   calls, accepted>>

(* It throws and none is left: drop the batch, reject its promises. *)
SendGivesUp ==
    /\ drain = "settling" /\ result = "fail" /\ attempt >= MaxRetries
    /\ failures' = failures + 1
    /\ dropped' = dropped + Len(batch)
    /\ lost' = lost \cup Elements(batch)
    /\ TakeBatch(queue, Settle(promise, Elements(batch), "rejected"))
    /\ UNCHANGED <<timer, closed, closing, sent, batches, highWater, delivered,
                   calls, accepted>>

(* The backoff timer fires: send the same batch again. *)
BackoffEnds ==
    /\ drain = "backoff"
    /\ drain' = "settling"
    /\ Send(batch, promise)
    /\ UNCHANGED <<queue, timer, inFlight, batch, attempt, closed, closing,
                   stats, delivered, lost, calls, accepted>>

(* `.finally`: forget the drain; a close() waiting on it returns. *)
DrainFinally ==
    /\ inFlight = "ended"
    /\ inFlight' = "none"
    /\ closing' = IF closing = "waiting" THEN "returned" ELSE closing
    /\ UNCHANGED <<queue, timer, drain, batch, attempt, result, log, closed,
                   stats, delivered, lost, promise, calls, accepted>>

(* close(): refuse further events, cancel the timer, await flush(). *)
Close ==
    /\ closing # "waiting"
    /\ closed' = TRUE /\ timer' = FALSE /\ closing' = "waiting"
    /\ Flush(queue, promise)
    /\ UNCHANGED <<stats, delivered, lost, calls, accepted>>

Next ==
    \/ CaptureAsync \/ CaptureSealed \/ FlushCall \/ Close
    \/ TimerFires \/ SendSucceeds \/ SendRetries \/ SendGivesUp
    \/ BackoffEnds \/ DrainFinally

Spec == Init /\ [][Next]_vars

(* The event loop runs every timer and every settled continuation. *)
Fairness ==
    /\ WF_vars(TimerFires)
    /\ WF_vars(SendSucceeds \/ SendRetries \/ SendGivesUp)
    /\ WF_vars(BackoffEnds)
    /\ WF_vars(DrainFinally)

FairSpec == Spec /\ Fairness

-----------------------------------------------------------------------------
(* The variables have their types and the queue never outgrows maxQueue,   *)
(* whatever the transport does (capture.ts, the eviction in capture()).    *)
TypeOK ==
    /\ queue \in Seq(Events) /\ Len(queue) <= highWater
    /\ batch \in Seq(Events) /\ Len(batch) <= BatchSize
    /\ log \in Seq(Events)
    /\ timer \in BOOLEAN /\ closed \in BOOLEAN
    /\ inFlight \in {"none", "running", "ended"}
    /\ drain \in {"idle", "settling", "backoff"}
    /\ attempt \in 0..MaxRetries
    /\ result \in {"none", "ok", "fail"}
    /\ closing \in {"uncalled", "waiting", "returned"}
    /\ sent \in Nat /\ dropped \in Nat /\ failures \in Nat /\ batches \in Nat
    /\ highWater \in 0..MaxQueue
    /\ delivered \subseteq Events /\ lost \subseteq Events
    /\ promise \in [Events -> {"none", "pending", "resolved", "rejected"}]
    /\ calls \in 0..MaxEvents /\ accepted \in 0..calls

(* The counters of stats() account for every accepted event: each one is   *)
(* sent, dropped, in the batch being sent or still queued, never in two    *)
(* of these places, and sent/dropped are the numbers of onSent/onDrop      *)
(* events (capture.ts: "dropped and counted", never silent).               *)
Accounting ==
    /\ sent + dropped + Len(batch) + Len(queue) = accepted
    /\ delivered \cup lost \cup Pending = 1..accepted
    /\ delivered \cap lost = {} /\ (delivered \cup lost) \cap Pending = {}
    /\ sent = Cardinality(delivered) /\ dropped = Cardinality(lost)

(* Nothing waits for a wake-up that is not coming: while the queue is open *)
(* and holds an event, a drain is running or the flush timer is armed.     *)
(* This is what makes it safe for capture() to arm no second timer, and    *)
(* for flush() to start no second drain.                                   *)
NoStall == queue # <<>> /\ ~closed /\ inFlight # "running" => timer

(* Receipts are issued in capture order: an event enters the log for the   *)
(* first time only after every earlier captured event that ever does, over *)
(* batches, retries of a half-sealed batch and evictions.                  *)
SealedInOrder ==
    \A i, j \in 1..Len(log) :
        i < j /\ log[j] < log[i] => \E h \in 1..(i - 1) : log[h] = log[j]

(* A captureSealed promise tells the truth: it is resolved only when a     *)
(* receipt exists, rejected only when the event was handed to onDrop, and  *)
(* unsettled only while the event is queued or being sent.                 *)
PromisesAgree ==
    \A e \in 1..accepted :
        /\ promise[e] = "resolved" => e \in Elements(log)
        /\ promise[e] = "rejected" => e \in lost
        /\ promise[e] = "pending" => e \in Pending

(***************************************************************************)
(* The queue, its drain and its sink implement the contract: hidden under  *)
(* timers, retries and the .finally gap, events leave oldest first, in     *)
(* batches, and only an eviction at a full queue loses one out of turn.    *)
(***************************************************************************)
Contract == INSTANCE CaptureContract WITH pending <- Pending, open <- ~closed

ImplementsContract == Contract!Spec

(* An accepted event is eventually sent or dropped unless the queue is     *)
(* closed first: no order of capture, flush, timer, retry and .finally     *)
(* leaves it waiting for ever.                                             *)
EventuallyAccounted ==
    \A e \in Events : e \in Pending ~> (e \notin Pending \/ closed)

(* Over a channel that did not attest, every accepted event is eventually  *)
(* reported to onDrop, and never sealed (ratls.ts, AttestedChannel.send).  *)
UnattestedIsReported ==
    \A e \in Events :
        ~ChannelOpen /\ e \in Pending ~> (e \in lost /\ log = <<>>) \/ closed

(* A drain that is running when close() is called finishes the whole queue.*)
CloseLetsDrainFinish ==
    closed /\ inFlight = "running" ~> queue = <<>> /\ inFlight = "none"
=============================================================================
