------------------------------- MODULE Gateway -------------------------------
(***************************************************************************)
(* Tool gateways that share an audience and a nonce store (authz/gateway.ts*)
(* and the stores of authz/replay.ts and authz/replay-shared.ts).  An      *)
(* invocation offers a tool, a request, parameters, a decision and perhaps *)
(* a delegation chain, the policy and the facts.  invoke() reads the clock *)
(* and the revocations once, judges everything synchronously, then awaits  *)
(* nonces.consume(), the tool and the signer; other invocations, time,     *)
(* timeouts, notices of suspension or revocation and crashes of a gateway  *)
(* come in between.                                                        *)
(*                                                                         *)
(* Signatures and digests are ideal.  Of a principal's lifecycle only what *)
(* takes it out of use is here, and of a chain what its links rely on:     *)
(* Principals and Delegation have both in full, Authority the evaluator.   *)
(***************************************************************************)
EXTENDS Integers

CONSTANTS
    Gateways, Invocations, Requests, Nonces, Params, Principals, Delegations,
    Host,         \* the gateway an invocation is made on
    Audience,     \* options.audience, the same on every gateway
    Tool,         \* per registered tool: its action and the resources it covers
    Request,      \* per request: what createAuthorizationRequest() signed over
    Decisions,    \* decision records in circulation
    Chains,       \* delegation chains in circulation
    Offers,       \* what an invocation may be called with
    Directory,    \* a principal directory was configured
    Principal,    \* per principal: the window of its record
    Notices,      \* suspensions of principals and revocations of delegations
    Observed,     \* options.observedExecution()
    Skew,         \* how far a decision may predate its request
    Store,        \* "memory", "file" or "shared"
    TTL,          \* ttlMs of a shared store
    Timeout,      \* timeoutMs of a shared store
    SignerFails,  \* confirmations are signed by a KMS that may fail
    None,         \* absent
    MaxTime, MaxCrashes   \* bounds

ASSUME GatewayAssumption ==
    /\ "common" \notin Gateways /\ Principals \cap Delegations = {}
    /\ Host \in [Invocations -> Gateways]
    /\ \A r \in Requests :
          /\ Request[r].nonce \in Nonces /\ Request[r].params \in Params
          /\ Request[r].issued \in Nat /\ Request[r].expires \in Nat
          /\ Request[r].principal \in Principals
          /\ Request[r].delegation \in Delegations \cup {"none"}
          /\ Request[r].execution \in {"unbound", "planned", "other"}
    /\ \A d \in Decisions :
          /\ d.decided \in Nat /\ d.validUntil \in Nat /\ d.trusted \subseteq Nat
          /\ {d.value, d.again} \subseteq {"permit", "deny", "indeterminate", "error"}
    /\ \A c \in Chains : \A l \in c.links :
          /\ l.issued \in Nat /\ l.id \in Delegations
          /\ {l.delegator, l.delegate} \subseteq Principals
    /\ \A o \in Offers : /\ o.request \in Requests /\ o.decision \in Decisions
                         /\ o.chain \in Chains \cup {None}
    /\ \A n \in Notices : n.subject \in Principals \cup Delegations /\ n.at \in Nat
    /\ Observed \in {"planned", "other", "unknown"}
    /\ Store \in {"memory", "file", "shared"}
    /\ TTL \in Nat /\ Timeout \in Nat /\ MaxTime \in Nat /\ MaxCrashes \in Nat
    /\ SignerFails \in BOOLEAN

VARIABLES
    now,      \* the clock
    until,    \* per store and nonce: when the entry expires, -1 when absent
    pc,       \* per invocation, where invoke() is suspended
    inv,      \* what it was called with
    start,    \* `now` as read on its first line
    wire,     \* its consume: "none", "sent", "won", "lost"
    ran,      \* invocations whose tool was called
    called,   \* ... and when
    heard,    \* per gateway and notice: when its directory or list had it, or -1
    threw,    \* invocations whose tool threw
    outcome,  \* the signed confirmation: "none", "rejected", "completed", "failed"
    crashes

vars == <<now, until, pc, inv, start, wire, ran, called, heard, threw, outcome, crashes>>

Stores == Gateways \cup {"common"}
StoreOf(i) == IF Store = "memory" THEN Host[i] ELSE "common"

Init ==
    /\ now = 0 /\ crashes = 0
    /\ until = [s \in Stores |-> [n \in Nonces |-> -1]]
    /\ pc = [i \in Invocations |-> "idle"]
    /\ inv = [i \in Invocations |-> None] /\ start = [i \in Invocations |-> 0]
    /\ wire = [i \in Invocations |-> "none"]
    /\ ran = {} /\ threw = {} /\ called = [i \in Invocations |-> -1]
    /\ heard = [g \in Gateways |-> [n \in Notices |-> -1]]
    /\ outcome = [i \in Invocations |-> "none"]

-----------------------------------------------------------------------------
(* compareExecution: nothing planned is fine, planned and unobserved is not. *)
ExecutionAccepted(r) == r.execution \in {"unbound", Observed}

(* directory.check(): p was enrolled and in use at t, for all it was told. *)
Usable(told, p, t) ==
    /\ Principal[p].created <= t /\ t <= Principal[p].expires
    /\ \A n \in told : n.subject = p => t < n.at

(* A link in force at t, by the directory and the revocation list. *)
LinkUsable(told, l, t) ==
    /\ Usable(told, l.delegator, l.issued)
    /\ Usable(told, l.delegator, t) /\ Usable(told, l.delegate, t)
    /\ \A n \in told : n.subject # l.id
    /\ l.from <= t /\ t <= l.until

(***************************************************************************)
(* The chain's leaf is the delegation the request names, the chain is sound*)
(* (signatures, root, depth, no cycle, every link within its parent),      *)
(* every link was in force when the decision was made, and the leaf grants *)
(* the request with the amount of these parameters.                        *)
(***************************************************************************)
Delegated(told, o) ==
    /\ o.chain # None
    /\ o.chain.leaf = Request[o.request].delegation
    /\ o.chain.sound /\ <<o.request, o.params>> \in o.chain.grants
    /\ \A l \in o.chain.links : LinkUsable(told, l, o.decision.decided)

(* The replay: tried with both the policy and the facts, if by this engine. *)
Reproduced(r, o) ==
    LET d == o.decision IN
    /\ d.supported
    /\ o.policy # None /\ o.facts # None =>
          /\ o.facts = d.facts
          /\ d.value = IF d.decided > r.expires THEN "deny" ELSE d.again

(***************************************************************************)
(* verifyDecision() in mode "enforcement" and the test of what blocks: all *)
(* checks pass or do not apply, and only those of the policy and the replay*)
(* may be left out.                                                        *)
(***************************************************************************)
DecisionAccepted(told, o, t) ==
    LET r == Request[o.request]  d == o.decision IN
    /\ t \in d.trusted
    /\ d.request = o.request
    /\ o.policy # None => o.policy = d.policy
    /\ Reproduced(r, o)
    /\ d.decided >= r.issued - Skew /\ d.validUntil <= r.expires /\ t <= d.validUntil
    /\ Directory /\ Usable(told, r.principal, d.decided)
    /\ r.delegation # "none" => Delegated(told, o)

(* Everything invoke() checks before it consumes the nonce. *)
Acceptable(told, o, t) ==
    LET r == Request[o.request] IN
    /\ o.tool \in DOMAIN Tool
    /\ Tool[o.tool].action = r.action /\ r.resource \in Tool[o.tool].covers
    /\ r.audience = Audience
    /\ o.params = r.params
    /\ DecisionAccepted(told, o, t)
    /\ r.delegation # "none" => Delegated(told, o)
    /\ o.decision.value = "permit"
    /\ ExecutionAccepted(r)

(* Mutant: the revocation list is the one the gateway was built with. *)
KnownAtSetUp(g) == {n \in Notices : heard[g][n] >= 0 /\ n.subject \in Principals}

(* What the directory and the revocation list of a gateway hold by now. *)
Known(g) == {n \in Notices : heard[g][n] >= 0}

(* A shared store forgets an entry after its TTL, the local ones never do. *)
Live(s, n) == until[s][n] >= 0 /\ (Store = "shared" => now <= until[s][n])

(* insert-if-absent, atomic: Map.set, O_EXCL, SET NX, ON CONFLICT, ... *)
Insert(i, r) ==
    LET n == Request[r].nonce IN
    \/ /\ Live(StoreOf(i), n)
       /\ wire' = [wire EXCEPT ![i] = "lost"]
       /\ UNCHANGED until
    \/ /\ ~Live(StoreOf(i), n)
       /\ until' = [until EXCEPT ![StoreOf(i)][n] = now + TTL]
       /\ wire' = [wire EXCEPT ![i] = "won"]

(***************************************************************************)
(* invoke() up to its first await.  A local store answers synchronously;   *)
(* a file that cannot be created is "unavailable" and leaves no entry.     *)
(***************************************************************************)
Invoke(i, o) ==
    LET accepted == Acceptable(Known(Host[i]), o, now) IN
    /\ pc[i] = "idle" /\ Request[o.request].issued <= now
    /\ inv' = [inv EXCEPT ![i] = o]
    /\ start' = [start EXCEPT ![i] = now]
    /\ \/ /\ ~accepted
          /\ pc' = [pc EXCEPT ![i] = "rejecting"]
          /\ UNCHANGED <<until, wire>>
       \/ /\ accepted /\ Store = "shared"
          /\ pc' = [pc EXCEPT ![i] = "consuming"]
          /\ wire' = [wire EXCEPT ![i] = "sent"] /\ UNCHANGED until
       \/ /\ accepted /\ Store # "shared"
          /\ pc' = [pc EXCEPT ![i] = "consuming"]
          /\ Insert(i, o.request)
       \/ /\ accepted /\ Store = "file"
          /\ pc' = [pc EXCEPT ![i] = "rejecting"]
          /\ UNCHANGED <<until, wire>>
    /\ UNCHANGED <<now, ran, called, heard, threw, outcome, crashes>>

(* The backend executes an insert, perhaps long after its client gave up. *)
Apply(i) ==
    /\ wire[i] = "sent"
    /\ Insert(i, inv[i].request)
    /\ UNCHANGED <<now, pc, inv, start, ran, called, heard, threw, outcome, crashes>>

(* The answer arrives, for a shared store no later than its timeout. *)
InTime(i) == Store = "shared" => now <= start[i] + Timeout

Consumed(i) ==
    /\ pc[i] = "consuming" /\ wire[i] = "won" /\ InTime(i)
    /\ pc' = [pc EXCEPT ![i] = "executing"]
    /\ ran' = ran \cup {i} /\ called' = [called EXCEPT ![i] = now]
    /\ UNCHANGED <<now, until, inv, start, wire, heard, threw, outcome, crashes>>

Replayed(i) ==
    /\ pc[i] = "consuming" /\ wire[i] = "lost" /\ InTime(i)
    /\ pc' = [pc EXCEPT ![i] = "rejecting"]
    /\ UNCHANGED <<now, until, inv, start, wire, ran, called, heard, threw, outcome, crashes>>

(* Mutant: no answer is taken for a first use. *)
UnavailablePermits(i) ==
    /\ pc[i] = "consuming" /\ Store # "memory"
    /\ pc' = [pc EXCEPT ![i] = "executing"]
    /\ ran' = ran \cup {i} /\ called' = [called EXCEPT ![i] = now]
    /\ UNCHANGED <<now, until, inv, start, wire, heard, threw, outcome, crashes>>

(***************************************************************************)
(* A timeout or a broken connection, whatever the backend does with the    *)
(* insert; in FileNonceStore, a write that fails after the create.         *)
(***************************************************************************)
Unavailable(i) ==
    /\ pc[i] = "consuming"
    /\ Store = "shared" \/ (Store = "file" /\ wire[i] = "won")
    /\ pc' = [pc EXCEPT ![i] = "rejecting"]
    /\ UNCHANGED <<now, until, inv, start, wire, ran, called, heard, threw, outcome, crashes>>

ToolReturns(i) ==
    /\ pc[i] = "executing"
    /\ pc' = [pc EXCEPT ![i] = "completing"]
    /\ UNCHANGED <<now, until, inv, start, wire, ran, called, heard, threw, outcome, crashes>>

(* Mutant: an error of the tool is taken for its answer. *)
ToolThrowsUnnoticed(i) ==
    /\ pc[i] = "executing"
    /\ threw' = threw \cup {i}
    /\ pc' = [pc EXCEPT ![i] = "completing"]
    /\ UNCHANGED <<now, until, inv, start, wire, ran, called, heard, outcome, crashes>>

ToolThrows(i) ==
    /\ pc[i] = "executing"
    /\ threw' = threw \cup {i}
    /\ pc' = [pc EXCEPT ![i] = "failing"]
    /\ UNCHANGED <<now, until, inv, start, wire, ran, called, heard, outcome, crashes>>

(* #confirm resolves: the outcome that was being confirmed is signed. *)
Confirm(i) ==
    /\ pc[i] \in {"rejecting", "completing", "failing"}
    /\ outcome' = [outcome EXCEPT ![i] =
            CASE pc[i] = "rejecting"  -> "rejected"
              [] pc[i] = "completing" -> "completed"
              [] pc[i] = "failing"    -> "failed"]
    /\ pc' = [pc EXCEPT ![i] = "done"]
    /\ UNCHANGED <<now, until, inv, start, wire, ran, called, heard, threw, crashes>>

(***************************************************************************)
(* #confirm rejects.  Inside the try block that is caught like an error of *)
(* the tool; outside it invoke() itself rejects, with no confirmation.     *)
(***************************************************************************)
ConfirmThrows(i) ==
    /\ SignerFails
    /\ \/ pc[i] = "completing" /\ pc' = [pc EXCEPT ![i] = "failing"]
       \/ pc[i] \in {"rejecting", "failing"} /\ pc' = [pc EXCEPT ![i] = "done"]
    /\ UNCHANGED <<now, until, inv, start, wire, ran, called, heard, threw, outcome, crashes>>

(* A gateway process dies; an in-memory store dies with it, and a directory *)
(* is built again from what it had been told.                              *)
Crash(g) ==
    /\ crashes < MaxCrashes
    /\ crashes' = crashes + 1
    /\ pc' = [i \in Invocations |->
                IF Host[i] = g /\ pc[i] # "idle" THEN "done" ELSE pc[i]]
    /\ until' = [until EXCEPT ![g] = [n \in Nonces |-> -1]]
    /\ UNCHANGED <<now, inv, start, wire, ran, called, heard, threw, outcome>>

(* directory.apply() or a new entry of the revocation list, on one gateway. *)
Hear(g, n) ==
    /\ heard[g][n] = -1
    /\ heard' = [heard EXCEPT ![g][n] = now]
    /\ UNCHANGED <<now, until, pc, inv, start, wire, ran, called, threw, outcome, crashes>>

Tick ==
    /\ now < MaxTime
    /\ now' = now + 1
    /\ UNCHANGED <<until, pc, inv, start, wire, ran, called, heard, threw, outcome, crashes>>

Step(i) ==
    \/ Apply(i) \/ Consumed(i) \/ Replayed(i) \/ Unavailable(i)
    \/ ToolReturns(i) \/ ToolThrows(i) \/ Confirm(i) \/ ConfirmThrows(i)

Next ==
    \/ \E i \in Invocations, o \in Offers : Invoke(i, o)
    \/ \E i \in Invocations : Step(i)
    \/ \E g \in Gateways : Crash(g)
    \/ \E g \in Gateways, n \in Notices : Hear(g, n)
    \/ Tick

Spec == Init /\ [][Next]_vars

-----------------------------------------------------------------------------
(* Type correctness. *)
TypeOK ==
    /\ now \in 0..MaxTime /\ crashes \in 0..MaxCrashes
    /\ until \in [Stores -> [Nonces -> Nat \cup {-1}]]
    /\ pc \in [Invocations -> {"idle", "consuming", "executing", "rejecting",
                               "completing", "failing", "done"}]
    /\ inv \in [Invocations -> Offers \cup {None}]
    /\ start \in [Invocations -> 0..MaxTime]
    /\ wire \in [Invocations -> {"none", "sent", "won", "lost"}]
    /\ ran \subseteq Invocations /\ threw \subseteq Invocations
    /\ called \in [Invocations -> Nat \cup {-1}]
    /\ heard \in [Gateways -> [Notices -> Nat \cup {-1}]]
    /\ outcome \in [Invocations -> {"none", "rejected", "completed", "failed"}]

(* The configuration under which a shared store may forget nonces: its TTL *)
(* covers the validity window of every request and one store timeout.      *)
TTLCovers ==
    Store = "shared" =>
        \A r \in Requests : Request[r].issued + TTL >= Request[r].expires + Timeout

(* A request is executed at most once, over all gateways, concurrent and   *)
(* later submissions, slow stores, timeouts, late inserts and crashes      *)
(* (docs/guarantees.md: "a nonce is consumed at most once at the boundary")*)
AtMostOnce == \A i, j \in ran : inv[i].request = inv[j].request => i = j

(* What a gateway had been told for longer than the store may take when it *)
(* called the tool; a local store does not bound the time it takes.        *)
LongTold(i) ==
    {n \in Notices :
        LET h == heard[Host[i]][n] IN
        h >= 0 /\ IF Store = "shared" THEN h + Timeout < called[i] ELSE h < start[i]}

(* The tool that runs is one for the request's action and resource, called *)
(* with the committed parameters, on the planned workload, for a permit of *)
(* a trusted evaluator on this very request.  What invoke() established is *)
(* one store timeout old at most when the tool is called: the request has  *)
(* not expired for longer, and no suspension of a principal (of a time when*)
(* the decision relied on it) or revocation of a link has been known for   *)
(* longer, whatever was heard, decided or delayed meanwhile (gateway.ts,   *)
(* header, 1 to 6).                                                        *)
RunsOnlyWhatWasPermitted ==
    \A i \in ran :
        LET o == inv[i]  r == Request[o.request]  d == o.decision IN
        /\ Tool[o.tool].action = r.action /\ r.resource \in Tool[o.tool].covers
        /\ o.params = r.params /\ r.audience = Audience
        /\ r.execution \in {"unbound", Observed}
        /\ d.value = "permit" /\ d.request = o.request
        /\ Store = "shared" => called[i] <= r.expires + Timeout
        /\ Usable(LongTold(i), r.principal, d.decided)
        /\ r.delegation # "none" =>
              /\ <<o.request, o.params>> \in o.chain.grants
              /\ \A l \in o.chain.links : LinkUsable(LongTold(i), l, d.decided)

(* "Rejected" means the tool did not run, and a completion is never claimed*)
(* for a tool that did not run to its end (gateway.ts, header).            *)
ConfirmationsHonest ==
    \A i \in Invocations :
        /\ outcome[i] = "rejected" => i \notin ran
        /\ outcome[i] = "completed" => i \in ran \ threw
        /\ outcome[i] = "failed" => i \in ran
=============================================================================
