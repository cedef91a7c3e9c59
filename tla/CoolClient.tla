----------------------------- MODULE CoolClient -----------------------------
(***************************************************************************)
(* The CooL client of client.ts over one CoolTee: record() connects on     *)
(* first use, concurrent first calls share one openPlane(), a failed one   *)
(* is forgotten so that the next call tries again, and close() refuses     *)
(* further work and drains.  The queue, its drain and its sink are those   *)
(* of Capture, whose actions take part here unchanged.                     *)
(*                                                                         *)
(* record() suspends at `await this.connect()` and calls tee.record() in a *)
(* later microtask; everything else may run in between, close() included.  *)
(***************************************************************************)
EXTENDS Capture

CONSTANTS
    Calls,               \* the record() calls of the application
    RequireAttestation,  \* options.security.requireAttestation
    MaxOpens             \* bound: openPlane() runs in a behaviour

ASSUME ClientAssumption ==
    RequireAttestation \in BOOLEAN /\ MaxOpens \in Nat

VARIABLES
    tee,         \* this.tee is set
    connecting,  \* this.connecting: "null", "opening", "open"
    opens,       \* openPlane() runs so far
    shut,        \* this.closed of the client
    coolClosing, \* the promise of CooL.close(): "uncalled", "waiting", "returned"
    call,        \* per record(): "idle", "waiting", "ready", "recording", "rejected"
    event        \* per record(): its capture call, 0 before there is one

client == <<tee, connecting, opens, shut, coolClosing, call, event>>
cvars == <<vars, client>>

CInit ==
    /\ Init
    /\ tee = FALSE /\ connecting = "null" /\ opens = 0
    /\ shut = FALSE /\ coolClosing = "uncalled"
    /\ call = [c \in Calls |-> "idle"] /\ event = [c \in Calls |-> 0]

-----------------------------------------------------------------------------
(* connect(), as record() number c awaits it. *)
Connect(c) ==
    \/ /\ shut
       /\ call' = [call EXCEPT ![c] = "rejected"]
       /\ UNCHANGED <<connecting, opens>>
    \/ /\ ~shut /\ tee
       /\ call' = [call EXCEPT ![c] = "ready"]
       /\ UNCHANGED <<connecting, opens>>
    \/ /\ ~shut /\ ~tee /\ connecting # "null"
       /\ call' = [call EXCEPT ![c] = "waiting"]
       /\ UNCHANGED <<connecting, opens>>
    \/ /\ ~shut /\ ~tee /\ connecting = "null" /\ opens < MaxOpens
       /\ call' = [call EXCEPT ![c] = "waiting"]
       /\ connecting' = "opening" /\ opens' = opens + 1

(* record(input) up to its first await. *)
Record(c) ==
    /\ call[c] = "idle"
    /\ Connect(c)
    /\ UNCHANGED <<vars, tee, shut, coolClosing, event>>

Resumed(status) ==
    [c \in Calls |-> IF call[c] = "waiting" THEN status ELSE call[c]]

(***************************************************************************)
(* openPlane() resolves.  A handshake that did not pass is refused when    *)
(* attestation is required; otherwise the tee exists with a closed channel.*)
(***************************************************************************)
OpenSucceeds ==
    /\ connecting = "opening"
    /\ RequireAttestation => ChannelOpen
    /\ connecting' = "open" /\ tee' = TRUE
    /\ call' = Resumed("ready")
    /\ UNCHANGED <<vars, opens, shut, coolClosing, event>>

(* Mutant: a failed connection is remembered for ever. *)
OpenFailsForGood ==
    /\ connecting = "opening"
    /\ connecting' = "open"
    /\ call' = Resumed("rejected")
    /\ UNCHANGED <<vars, tee, opens, shut, coolClosing, event>>

(* openPlane() rejects: agent unreachable, or attestation required and missing. *)
OpenFails ==
    /\ connecting = "opening"
    /\ connecting' = "null"
    /\ call' = Resumed("rejected")
    /\ UNCHANGED <<vars, tee, opens, shut, coolClosing, event>>

(* record() after the await: tee.record(input), i.e. captureSealed. *)
RecordResumes(c) ==
    /\ call[c] = "ready"
    /\ CaptureSealed
    /\ call' = [call EXCEPT ![c] = "recording"]
    /\ event' = [event EXCEPT ![c] = calls + 1]
    /\ UNCHANGED <<tee, connecting, opens, shut, coolClosing>>

(* CooL.close(): with no tee there is nothing to await. *)
CoolClose ==
    /\ coolClosing # "waiting"
    /\ shut' = TRUE
    /\ \/ ~tee /\ coolClosing' = "returned" /\ UNCHANGED vars
       \/ tee /\ coolClosing' = "waiting" /\ Close
    /\ UNCHANGED <<tee, connecting, opens, call, event>>

CoolFlush == tee /\ FlushCall /\ UNCHANGED client

(* Steps of the queue that CooL does not start. *)
QueueStep ==
    /\ \/ TimerFires \/ SendSucceeds \/ SendRetries \/ SendGivesUp \/ BackoffEnds
    /\ UNCHANGED client

QueueFinally ==
    /\ DrainFinally
    /\ coolClosing' = IF coolClosing = "waiting" THEN "returned" ELSE coolClosing
    /\ UNCHANGED <<tee, connecting, opens, shut, call, event>>

CNext ==
    \/ \E c \in Calls : Record(c) \/ RecordResumes(c)
    \/ OpenSucceeds \/ OpenFails \/ CoolClose \/ CoolFlush
    \/ QueueStep \/ QueueFinally

CSpec == CInit /\ [][CNext]_cvars

(* openPlane() settles (its HTTP client times out), continuations and timers run. *)
CFairSpec ==
    /\ CSpec
    /\ WF_cvars(OpenSucceeds \/ OpenFails)
    /\ \A c \in Calls : WF_cvars(RecordResumes(c))
    /\ WF_cvars(QueueStep)
    /\ WF_cvars(QueueFinally)

-----------------------------------------------------------------------------
(* How record() c ended: its promise settles with that of its event. *)
Settled(c) ==
    \/ call[c] = "rejected"
    \/ call[c] = "recording" /\ promise[event[c]] \in {"resolved", "rejected"}

InProgress(c) == call[c] # "idle" /\ ~Settled(c)

(* No record() call in progress is forgotten, through shared and failed    *)
(* connections and connections that end after close(): one that waits has  *)
(* an openPlane() to wait for (connect(), catch), one that goes on has a   *)
(* tee, and one that records has an event of its own, which the queue holds*)
(* and is going to drain.  Only close() of the queue leaves events behind: *)
(* those captured after it and those in the queue as it ended.             *)
CallsCarriedOn ==
    /\ \A c \in Calls : InProgress(c) =>
          \/ call[c] = "waiting" /\ connecting = "opening"
          \/ call[c] = "ready" /\ tee
          \/ call[c] = "recording" /\ event[c] \in Pending
                /\ (timer \/ inFlight = "running" \/ closed)
          \/ call[c] = "recording" /\ event[c] > accepted /\ closed
    /\ \A c, d \in Calls :
          call[c] = "recording" /\ call[d] = "recording" /\ event[c] = event[d] => c = d

(* While the client stays open every record() call comes to an end, through*)
(* connection failures, retries of the connection and drops.               *)
RecordSettlesWhileOpen ==
    \A c \in Calls : InProgress(c) ~> (~InProgress(c) \/ shut)

(* Every record() call comes to an end, also when close() is called while  *)
(* it is suspended (docs/architecture.md: a drop is "never silent").       *)
RecordSettles == \A c \in Calls : InProgress(c) ~> ~InProgress(c)
=============================================================================
