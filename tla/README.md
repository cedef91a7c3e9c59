# A TLA+ model of the CooL SDK

CooL records evidence of what an AI system does: events are captured off the
application's hot path, sealed inside an attested enclave into an append-only
log, and can be verified offline.  A second half of the SDK authorises agent
actions: signed requests and decisions are enforced by a tool gateway that
executes each request at most once.  A platform layer
signs envelopes, publishes them to a transparency log, judges keys by trust
snapshots and verifies the attestation of several kinds of hardware.  This
directory models the parts of the SDK whose correctness depends on the order in
which things happen, together with the verifiers that judge what they leave
behind, checks them with TLC and proves their main properties with TLAPS.

## 1. The system

| Component | Source | State | Operations | What makes it correct |
|---|---|---|---|---|
| Capture queue | `phala/capture.ts` | `queue`, `timer`, `inFlight`, `closed`, counters | `capture`, `flush`, `drain`, `schedule`, `close` | no event is lost without being counted; no missed wake-up; order; bounded memory |
| CoolTee | `phala/client.ts`, `phala/ratls.ts` | the queue, the attested channel, retained receipts | `capture`, `captureSealed`, `record`, `change`, the sink | a promise is settled once and tells the truth; nothing leaves over an unattested channel |
| CooL client | `client.ts` | `connecting`, `tee`, `closed` | `connect`, `openPlane`, `record`, `flush`, `close` | a failed connection is retried; every call settles; nothing after `close` |
| Evidence plane | `phala/engine.ts`, `phala/log.ts`, `phala/policy.ts` | sequence number, log, keys, the enclave's info | `start`, `seal`, `currentSTH` | one leaf per receipt, tree heads grow, a receipt says what the enclave was |
| Transparency log | `merkle.ts`, `log-memory.ts`, `phala/log-file.ts`, `platform/transparency.ts`, `phala/witness.ts`, `phala/consistency.ts` | leaves, checkpoint | append, proofs, replay, co-sign | proofs verify against the root; restart continues the same tree; a fork is noticed |
| Anchoring | `phala/anchor.ts`, `cli/anchor.ts` | pending and complete proofs | stamp, upgrade, verify | a proof belongs to its own head and only improves |
| Attestation | `phala/dstack.ts`, `quote.ts`, `kms.ts`, `runtime.ts`, `unix.ts` | the answers of the guest agent | info, keys, quotes, handshake | only silicon counts as hardware |
| Verifier | `phala/verify.ts`, `structure.ts`, `disclose.ts`, `pack.ts` | - | check a receipt | a verdict follows from its checks |
| Tool gateway | `authz/gateway.ts` | registered tools | `invoke`, `register` | at most once; only what was permitted; confirmations tell the real outcome |
| Replay stores | `authz/replay.ts`, `authz/replay-shared.ts` | used nonces, with a TTL in shared stores | `consume` | exactly one winner; no answer is no permission |
| Redis client | `authz/replay-shared.ts` | `#socket`, `#ready`, `#pending`, `#buf` | `command`, `#connect`, `#send`, `#fail`, `close` | a reply goes to its own command |
| Principals, delegation, decisions | `authz/principal.ts`, `delegation.ts`, `request.ts`, `decision.ts`, `platform/policy.ts` | a directory per verifier | enroll, apply, decide, verify | verifiers agree; authority only narrows; decisions replay |
| Platform envelopes and trust | `platform/envelope.ts`, `payloads.ts`, `trust.ts`, `bundle.ts`, `outcome.ts`, `status.ts`, `timestamp.ts` | trust snapshot | sign, verify, export | a withdrawn key is not believed for long; what was published stays good; bundles show gaps |
| Nitro enclaves | `nitro/attestation.ts`, `kit.ts`, `receipt.ts`, `normalize.ts` | `starting`, `sealer`, sequence | hello, register, seal, collect | one key per instance; only attested keys are trusted |
| SEV-SNP, NVIDIA, TEE adapters | `snp/`, `nvidia/`, `platform/tee.ts` | - | verify | the evidence is about one guest and one run |
| Command line | `cli/workspace.ts`, `commands.ts`, `evidence.ts`, `anchor.ts` | the files under `.cool/` | open, seal, witness, anchor | files stay valid receipts |
| Console | `cli/ui/*` | watcher baseline, timers | watch, seal | no change goes unrecorded |
| Encodings and crypto | `canonical.ts`, `codec.ts`, `hash.ts`, `sign.ts`, ... | - | - | - |

How they interact: `CooL.record` awaits `connect`, then calls `CoolTee.record`,
which puts an envelope with `resolve`/`reject` into the queue and flushes.  The
drain hands batches to `AttestedChannel.send`, whose sink seals each event in
the evidence plane (append to the log, signed tree head), reports it to
`onReceipt` and resolves its promise; the queue's `onDrop` rejects it.
The command line opens the same plane over a guest agent, a simulator or
nothing, and keeps its receipts as files which later commands co-sign and
anchor.  `ToolGateway.invoke` verifies a decision, consumes the request's nonce
in a replay store, runs the tool and signs a confirmation.  Envelopes of the
platform are signed by a service or by an enclave, published to a log, and
judged offline against a trust snapshot, by themselves or in a bundle.

What is hard: all of it is asynchronous JavaScript.  A synchronous block is
atomic, but state read before an `await` is used after it, `.finally` runs a
microtask after the promise it follows, and timers, callbacks and `close()`
come in between.  Several gateway processes share a store that may answer late
or never; a gateway may die between two steps.  Files are written by processes
that crash, run out of disk in the middle of a line, or have them open at the
same time.  Evidence is judged by others, later, with keys that have been
rotated or revoked meanwhile, and may be put together from parts of different
answers.  A machine may be replaced between two questions to it.  The list of
hazards, each at its line, is in `PROJECT.json`.

## 2. Modules

| Module | Models |
|---|---|
| `Capture` | queue, drain and sink |
| `CaptureContract` | what the queue promises its caller, with no timer, drain or retry |
| `CoolClient` | the CooL client; extends `Capture`, whose steps take part unchanged |
| `Gateway` | gateways, invocations and a replay store |
| `RedisClient` | the RESP connection under `RedisNonceStore` |
| `EvidenceLog` | the file log and its checkpoint, the processes that seal into it, the witness command and the receipt-set check |
| `Checks`, `Trust` | results of checks and how they are folded into an outcome; trust snapshots and signed objects |
| `Principals`, `Delegation`, `Policy`, `Authority` | directories and lifecycle events; chains; the platform's policy engine; requests, decisions and their verification (extends the other three) |
| `Anchor`, `Receipts`, `Plane` | OpenTimestamps proofs; receipts and their verifier; `start()` and `seal()` of the plane with the governance policy |
| `Workspace`, `Console` | the receipts directory and the commands over it; the console and its watcher next to them |
| `Hardware` | how a workspace is opened against a guest agent |
| `Merkle`, `TransparencyLog` | RFC 6962 roots, audit paths, consistency proofs and their verification; the in-process log over them |
| `Nitro`, `Snp`, `Nvidia`, `Tee`, `Timestamp` | the platform verifiers, the adapters over them, and RFC 3161 stamps |
| `Envelope`, `Bundle`, `Enclave` | envelopes and their verification; bundles; the enclave kit |
| `Fleet` | what guests, chips, GPU services and time-stamping authorities do (external) |
| `Evidence` | the platform over time: composes `Enclave`, `TransparencyLog`, `Bundle`, `Fleet` and a service key that is withdrawn |
| `CaptureProof`, `GatewayProof`, `EvidenceLogProof`, `AuthorityProof`, `ConsoleProof`, `HardwareProof`, `MerkleProof`, `EvidenceProof` | theorems about the modules each extends |
| `MC...` | instances for TLC |

**Capture.**  A capture call is numbered by the order of calls and an event is
its number.  `queue`, `timer`, `inFlight`, `closed` and the counters are the
fields of `CaptureQueue`; `drain`, `batch`, `attempt` and `result` say where
`drain()` is suspended.  `inFlight` has a third value, `"ended"`: `drain()` has
returned and `.finally` has not run.  The sink contains no `await`, so a batch
is sealed in the step that sends it, and the settlement of the promise is a
step of its own (`SendSucceeds`, `SendRetries`, `SendGivesUp`).  A sink that
throws at an event does so before the leaf is appended (`SealThrows`) or after
it (`ReceiptThrows`: the checkpoint of a file log cannot be written, or
`onReceipt` throws).  Event content, latency samples, `lastError` and the list
of retained receipts are left out.  The callbacks do not call back into the
queue and `onDrop` does not throw.

**CoolClient.**  `openPlane()` succeeds or fails as one step; what matters is
that other calls and `close()` run while it is open.  With `requireAttestation`
it cannot succeed unless the handshake passed.

**Gateway.**  An invocation offers a tool, a request, parameters, a decision and
perhaps a chain, the policy and the facts (`Offers`).  `Acceptable` has the checks
of `invoke()` in their order; `DecisionAccepted` is `verifyDecision()` in mode
"enforcement" with the test of what blocks, check by check: the evaluator
(`trusted`, the times at which its signature counts), the request, the policy, the
replay (`Reproduced`), freshness, the principal at the time of the decision
(`Usable`) and the chain (`Delegated`).  Signatures and digests are ideal.  Of a
chain its links are here, with what each relies on; `sound` and `grants` stand for
what does not change with time (signatures, root, depth, cycles, scopes), which
`Delegation` has in full, and of a principal's lifecycle what takes it out of use
(`Principals` has the rest).  What `evaluatePolicy` gives on replay is the field
`again`; `Authority` has the evaluator.  Suspensions and revocations (`Notices`)
reach a gateway at any time (`Hear`); `start` is the one reading of the clock, and
what is `Known` then the one reading of directory and revocation list.  A shared
store executes an insert at any later time (`Apply`), also after its
client has given up; the answer counts only within `Timeout` of the start.
A crash ends the invocations of one gateway and empties its in-process store.
`SignerFails` lets the (asynchronous, possibly remote) signer reject.

**RedisClient.**  Replies are named after the command they answer.  Handlers
of sockets and timers are macrotasks and do not run while a command that was
told `#ready` is about to send; application calls may.  An ended socket may
still deliver, a destroyed one may not.  `auth` says whether the client has a
password to send first; it is chosen in `Init`.

**EvidenceLog.**  `lines` is `leaves.log` (a leaf per line, 0 for a line that is
no digest), `loose` a last line without its newline, `checkpoint` the tree in
`sth.json`.  A process has its own `mem`, the leaves it replayed and appended,
and signs heads over it.  `seal()` is synchronous; its append and its two
checkpoint steps (truncate, write) are separate only because other processes
and crashes come between them.  A write may stop anywhere: a line may be
written without its newline, replays as a whole leaf, and is spoilt by the next
append.  A tree is the list of its leaves; the hashing is in `Merkle`.
`overlapped` is a history variable: two processes had the log open at once.
`Crash` stands for an ordinary exit too.

**Principals, Delegation, Policy, Authority.**  Every verifier has its own
directory (`entries`, `events`) and its own trust snapshot.  `enroll` and
`apply` take signed objects that are in circulation, in any order and any
number of times, some of them not by the principal's issuer or altered.
`Inserted` is the push and the stable sort by time; `stateAt`, `keyAt` and
`checkPrincipal` are read off it.  A resource is a sequence of symbols and a
pattern such a sequence with or without a final wildcard; `Symbols` is the
alphabet.  A three-valued
condition evaluates to the set of truth values that are still possible.  The
evaluator makes one request and one decision in a behaviour; `verifyDecision`
returns every check of the code, and the properties ask it at every later time,
of every verifier.

**Anchor, Receipts, Plane, Workspace, Console.**  A proof file is a sequence of
items (operations, attestations, the fork byte); reading, writing, merging and
checking are the code's recursive functions over them, and hashing appends to a
message.  The recursion runs over places in the file and over paths into a
timestamp (`Node`, `Paths`), so that it can be written as recursive functions.  A receipt keeps the code's fields; its optional parts are sets of at
most one element, a tree head's root is the sequence of its leaves.  A command
is a process: it loads all receipts when it starts and rewrites files one by
one, each in two steps (`Truncate`, `Fill`), between which it may be killed and
others may read.  A process that seals has a log of its own (`log`): it is replayed
from the file (`lines`) when the workspace is opened, `SealCommand` for a command
and `Start` for the console, and appended to by that process alone; a record is
appended to both (`Record`), its head is over the process's own, and the head is
written to the checkpoint before the receipt is (`Checkpoint`).  So a console that
stays open beside commands, or two commands that overlap, fork the log (`forked`).
Files are ordered by the record's ULID, which is the order of the appends.
`cool anchor submit` takes the head in the checkpoint, `storedAnchors` one anchor per
size, and `Reattach` ends where `attachAnchor` throws (`Attachable`).
`EvidenceLog` has the log file itself, with torn lines and failing writes, which are
left out here.  Calendars promise a commitment at once and aggregate it into a
block later (`Mine`).  The console is one more process: `Save` and `Commit`
change the watched file and its version at HEAD, `Settle` is the debounce timer,
`SealChange` seals from the changes under way and `SealFails` loses one.  `git()`
trims what it prints, and the model keeps that.  The commands that only read
(`verify`, `pack`, `disclose`, `anchor verify` and `anchor export`) are
operators over the files, and the invariants say what they answer in every
state the writing commands can leave behind.

**Hardware.**  Opening a workspace is the sequence of its fifteen questions to
the guest agent, several of them at once; each answer is good (`Answered`),
good HTTP with parts missing (`AnsweredSoftly`, replaced by the parser's
fallbacks) or an error (`Unanswered`), and the image may be replaced between any
two (`Deploy`).  A configuration says which variables and sockets exist and what
is behind them: a confidential machine, a simulator that speaks its protocol, or
nothing.

**Merkle, TransparencyLog.**  A hash is a term, so hashes are equal exactly when
their inputs are.  `Climb` and `ClimbBoth` are the loops of
`rootFromInclusionProof` and `verifyConsistency`, an element of the path a step
(`Hashed`, `HashedBoth`), with the inner loop of both in `Ascend` and the first loop
of `verifyConsistency` in `Raised`; a `RangeError` is the value
`Malformed`.  `TransparencyLog` publishes by digest and hands out
checkpoints; `Keep` is a holder who compares an old one with today's log.

**Nitro, Enclave, Snp, Nvidia, Tee, Timestamp, Fleet.**  A certificate says who
issued it, which key it holds and which key signed it; a document, report or
token is the record of what its bytes hold, or one that does not decode.  The
verifiers return every check of the code, in its order of precedence.  In
`Enclave` the collectors verify with the options of `kit.ts`, so certificates are
judged at the moment of verification.  Each collector has a connection with one frame on it; the answer of
the NSM, a restart and the other connections come between a hello and its
registration.  `Fleet` is external: it makes the evidence verifiers are given,
and the properties let a verifier be handed any combination of its parts.

**Envelope, Bundle, Evidence.**  An envelope is verified as in
`verifyEnvelope`: schema, digest, signature, inclusion in a checkpoint, trust in
the log and its witnesses, the time the checkpoint proves, trust in the signer,
attestation.  In `Evidence` the service signs at any time and states any earlier
one, its key is withdrawn with effect from now or from an earlier time, and the
verifier refreshes its snapshot now and then.

Definitions whose comment says *Mutant* are plausible bugs of the definition
that follows; they are used by nothing and serve to show that the properties
notice them.

## 3. Runs

| Run | Result | What it shows |
|---|---|---|
| `capture` | holds | `Accounting`, `NoStall`, `SealedInOrder`, `PromisesAgree`, refinement of `CaptureContract`, `EventuallyAccounted`, `CloseLetsDrainFinish` |
| `client` | holds | `CallsCarriedOn`: no call in progress is forgotten; no poisoned connection, every call settles while the client is open; over a channel that does not attest every event is reported lost |
| `client_hang` | violated | a `record()` overtaken by `close()` never settles |
| `gateway` | holds | over a shared store with TTL, timeouts and late inserts a request runs at most once; only what was permitted runs, and nothing it rests on (expiry, suspensions, revocations) has been out of date for longer than the store's timeout; there and over the file store confirmations are honest |
| `redis` | holds | until `close()` no command is given the reply to another; every command settles |
| `redis_close` | violated | after `close()` a reply goes to another command |
| `log` | holds | one tree until two processes have the log open; no signed leaf is papered over; the checkpoint is never behind; the receipt-set check accepts exactly the unforked sets |
| `authority` | holds | verifiers with the same events agree unless two carry one time; revocation is final; an accepted chain authorises no more than each of its links; decisions replay at any later time; a permit of a policy that denies on missing input survives every further fact |
| `workspace_corrupt` | violated | a receipt file cut short by a killed command is passed over by `cool verify all`, which exits 0 |
| `workspace` | holds | whatever commands overlap or die, and where the log has forked, a readable file is a valid receipt of its record, an audit pack of the files is complete and what was committed can be disclosed; anchors tell the truth about their own head and read back as written; while the log has not forked no anchor is out of sight; nothing saved is lost until commands overlap; the watcher's changes join up |
| `evidence` | holds | checkpoints fit their own envelope only and old heads stay provable prefixes; a withdrawn key is believed no longer than a snapshot may be old; publication outlives withdrawal; one key per enclave instance, whose receipts are good exactly while the certificates are in date; bundles show what is missing; reports, GPU results and stamps fit their own challenge, run and request only |
| `hardware` | holds | a workspace that says REAL, or was opened with hardware required, talks to silicon; its receipts verify for a strict auditor |

Each violated run states what a document or comment of the repository says;
`PROJECT.json` quotes it.

**Behaviours met while modelling.**  The models contain these, and the
conditions in the properties' statements exclude or bound them:

- `close()` in the gap between the end of a drain and its `.finally` awaits the
  finished drain and returns with an event queued, although `capture.ts:203`
  says "flush whatever is already queued".
- A batch that failed half way is sealed again from its beginning on a retry.
- `close()` during the first connection returns before the waiting `record()`
  calls are sealed.
- A signer that fails after the tool succeeded makes `invoke()` sign "failed"
  (`ConfirmationsHonest` asks of "failed" only that the tool was started).
- A TTL above the validity window, which is what `replay-shared.ts:20` asks
  for, is too short by one store timeout: an insert may reach the store that
  much after the check (`TTLCovers` is the assumption the proof needs).
- Two processes with one log open sign two roots of one size; `cosign()` keeps
  no memory and co-signs both, although `docs/attestation.md:134` speaks of a
  `Witness` that "observes before it signs".
- Two lifecycle events of one time: the one received later counts, and verifiers
  may differ.
- Submitting a confirmed head again replaces its anchor; `anchors/<size>.json` is
  never read back; a failed anchor does not make `cool verify` fail; a witness
  listed twice counts twice.
- On a forked log two receipts have one index and one size under different roots;
  each verifies, `storedAnchors()` keeps one anchor per size, so that one of the two
  branches is out of sight of `cool anchor upgrade`, `verify` and `export`
  (`ProofsStable` asks that of unforked logs), and the checkpoint is of whichever
  process sealed last.
- The revocations and the clock are read once at the start of `invoke()`: what is
  revoked while the nonce is being consumed is not seen
  (`RunsOnlyWhatWasPermitted` bounds how stale it may be by the store's timeout).  A
  local store bounds nothing; there the property speaks of what was known at the start.
- The kit verifies every receipt against the present clock, so a collection that
  outlasts the leaf certificate of the NSM goes on and its receipts fail.
- A seal that fails in the console loses the change, and the trailing newline
  that `git()` trims is missing from the first "before".
- The log's key is judged at `now`, so a rotated log key invalidates old
  checkpoints; a checkpoint fetched again after a rotation proves a later time.
- The sealer takes a number before the payload is validated, so a refused
  payload leaves a permanent gap; bundles tell sequences apart by epoch only, and
  the collector always assigns epoch 1; a rejected `start()` leaves `starting`
  set, so that the instance must be restarted.
- The measurement in a record, the ids of the keys and the quotes come from
  separate calls; a redeployment between them goes unnoticed
  (`RealReceiptsVerify` asks for one measurement throughout).  An empty
  `DSTACK_ENDPOINT` hides the socket.
- The TDX adapter's outcome is never "verified", since a receipt says nothing
  about freshness; a GPU result binds the guest's REPORT_DATA, not its report.

**Bounds.**  Capture: 4 calls, a queue of 2 and batches of 2 with one retry are
the smallest values at which an eviction happens behind a batch that is being
retried, a batch is sealed in part, and events are captured in the `.finally`
gap.  Client: three calls and two connections, so that one call starts, one
shares and one comes after a failure.  Gateway: three submissions of one
request, two of them at the same gateway, validity 2, TTL 3, timeout 1 and
clock up to 4: the entry expires within the run and a third submission can
still be in flight.  That is the first of three cases of `MCGateway`.  The second has
two invocations, fourteen offers (good
ones with and without the replay, and one for each check to fail), a chain of two
links of which one ends at 1, a revocation of a link and a suspension, and clock up
to 3, so that each may be heard before, during and after the consumption.  The third
is over the file store, with a second request, wrong parameters and a denial; there
time goes no further than a store timeout after the last request has expired.  The in-process store is in the model but in no run
and excluded from the proof: it forgets its nonces when its process dies.
Redis: three connections and three commands, with and without a password, so
that a timeout, a reconnection and pipelined replies overlap.  Log: two
processes, four seals and two failures, enough for a torn line to be replayed,
spoilt by the next append and met by a third start, and for a fork with
receipts on both sides.  Authority: two verifiers that trust the issuers
differently, three principals, two events each out of six (tied, forged and
altered ones among them), a chain of two links, times 0 to 2.  Workspace:
three processes (two command lines and the console), two records, two calendars,
one block and one crash; a behaviour has one of the budgets in `MCConsole` (four
overlapping commands; three of which one is killed; two commands, or one that is
killed, beside a console; a console over three saves and two sessions), and two
records are enough for a fork with a head on each branch.  The violated run has one
command line, one calendar and the same budgets.  Evidence: each
behaviour has one of seven budgets, each large where one question lies: seven
leaves (every shape of the right edge), certificates that run out within the run,
four moments and one envelope while the
key is withdrawn, two instances under two collectors, three numbers of one
sealer, firmware updates under reports, two appraisals of two guests' reports,
two requests with two answers.  The parts interact only through time and the log,
and the budgets keep those together that do.  Hardware: one bad answer, one
redeployment, two sessions and two records in each of the environments of
`MCHardware`.  Envelopes are signed and published in order (`InOrder`), which
loses nothing because they are interchangeable.  Deadlock is not checked where
calls are bounded and a run ends when all are done.  Symmetry is used only in
runs without liveness, over invocations of the same gateway or over processes.

**Fairness.**  The event loop runs every timer and every settled continuation:
weak fairness of `TimerFires`, of the settlement of a send, of `BackoffEnds`
and of `DrainFinally`; of the resumption of `record()`, and of `openPlane()`
settling, because the HTTP client of `phala/unix.ts` has a timeout.  In the Redis
client only the command timers and microtasks are fair.  Nothing is assumed of
callers: captures, flushes and `close()` are never forced.  The other modules claim
no liveness: that an invocation of the gateway ends would rest on the tool of the
application, and the others' actors are people, remote services and machines.

## 4. Proofs

All theorems hold for every value of the constants under the named
assumptions of the modules.

**Capture** (`CaptureProof`).  `TypeCorrect`, `AccountingHolds` and
`NoStallHolds`: the invariant `IInv` adds to the three properties that `drain()`
holds a batch exactly while it runs (`DrainState`), that batch and queue are
increasing and the batch is older than the queue (`Flow`), and that events still
to come are nowhere yet (`Fresh`).  Without them `Accounting` is not inductive,
since it needs that a batch and the queue share no event and that a counter
grows by the size of a set that was disjoint from it.  `SealedInOrderHolds` and
`PromisesAgreeHolds` rest on a second invariant, `SinkInv`: nothing queued has
been sealed, and a batch that is sent again is a batch whose first part was
sealed before, in order; a sink that returned has settled all of its batch, and
the event of a pending promise is still in the batch or the queue.  `Refinement`: `Capture` implements `CaptureContract` on (accepted,
pending, delivered, lost, open); under `IInv` every step is a step of the
contract or changes none of these.
The same module proves `CoolClient`: every step of the client is one of its queue
or leaves the queue alone (`ClientKeepsQueue`), so all of the above holds of it.
`CallsAlwaysCarriedOn` adds what the client knows: there is a tee exactly when the
connection is open and calls wait only while it opens (`Connected`), and a call that
records has asked for the promise of an event no other call has (`Own`).  With the
invariants of the queue, a promise that has not settled is one whose event is queued
or being sent, unless the queue refused it after `close()`.

**Gateway** (`GatewayProof`).  `AtMostOnceHolds` assumes `Durable`: the store is
not the in-process one and its TTL covers the validity of every request *and one
store timeout* (`TTLCovers`).  A nonce may be won twice, once its entry has
expired; the invariant says that every winner passed the checks when it started,
that its entry lives at least until a timeout after the request expired, and that
therefore one of two winners is too late to be believed.  With a TTL that only
exceeds the validity, as the code documents, the property does not hold;
the run `gateway` satisfies the assumption.  `OnlyPermittedRun` and
`ConfirmationsAreHonest` need no assumption about the store.  The first keeps what
was judged, by what the gateway had been told before its clock was read (`Judged`):
a later notice cannot enter that set, a notice heard a timeout before the call is in
it, because a call comes no later than a timeout after the start (`CalledInTime`), and
who was told less objects to less (`ToldLess`).  The second follows from what each
suspended invocation has already done (`HInv`).

**Redis client** (`GatewayProof`, beside the gateway whose shared store it serves).  `RedisTypeCorrect`, `InStepHolds`
(`#pending` is what the server has not answered, so that replies go to who asked) and
`OwnReplyHolds`.  The invariant adds that only the current connection can still
deliver and that a command about to send finds a socket; both hold until
`close()`.

**File log** (`EvidenceLogProof`).  `LogTypeCorrect`, `OneTreeHolds`,
`NothingForgottenHolds` and `NewestCheckpointHolds`, for any number of processes,
seals and failures.  While no two processes have the log open, the memory of the
open process covers every signed head, and the file, if it is readable, covers
that memory and equals it when its last newline is in place; this is what a
restart relies on.  The conclusion is conditional on `~overlapped` because the
code does not lock the log.  `CheckExactHolds` is about forked histories too, and
receipt sets of any size: a receipt is for the last leaf of its tree and no tree
is longer than there were seals (`Sized`), so a complete set names every leaf of
the history it is compared with.

**Authority** (`AuthorityProof`).  `DirectoriesOrdered`: events stay ordered by
time however they arrive, which makes "the last event up to a time" the greatest
place with that time (`GreatestNat`), also where the code folds over the list.
From it `RevokedForGoodHolds` and `SameAnswerHolds`, for histories of any length.
`DecisionsReplayHolds`: a decision was made from the very facts and policy it
carries (`Replayable`).  `AuthorityNarrowsHolds`: `within` is transitive and
`covers` follows it for patterns of any length over any alphabet, and being
within the parent at every link gives being within every ancestor.
`PermitSurvivesFactsHolds`: a condition that is certainly true stays so under
every completion of the facts, for condition trees of any finite depth.  The
trees are given as a finite set of conditions with a depth
(`PolicyAssumption`), which is what JSON input is; the induction runs over depths.
The property asks that conditions reached from a rule contain no `exists`, which
is true or false of what is missing now.

**Workspace and console** (`ConsoleProof`).  `HistoryJoinsUpHolds` by `WatchInv`:
sealed and unsealed changes are one history that leads to the baseline, and the
baseline is the file unless a timer is running or nothing has been noticed yet.
`KeptUntilDisturbedHolds` by `KeepInv`: files and the jobs of the commands are
proper (a job holds receipts of the records it is about to rewrite), and as long
as nothing is disturbed at most one command is busy and what it is about to write
has everything that was earned before it (`Undisturbed`).  `ConsoleAssumption`
says that the console is one of the processes over the directory; it calls the
same functions as the commands.
`ReceiptsStayValidHolds` by `SoundInv`: every file, and every receipt a command
is about to write, is the record of the log with its number as `seal()` made it, at
the end of whatever branch its process remembered,
with co-signatures of its own head by witnesses whose keys are in its directory,
and anchors of some tree size (`Whole`).  It has to speak of the jobs as well as
of the files, since a command writes what it loaded before others wrote.  The
rest follows without a further step of the system: a whole receipt passes
`validateReceiptV2Shape` and each domain of `verifyReceiptV2` with as many
witnesses as it lists (`WholeVerifies`), `loadReceipts` returns exactly what is
in the files and in their order (`LoadedAll`, by induction over the library's
`FlattenSeq`), and a disclosure checks exactly if the value was committed to
(`DisclosedExactly`).  `EventsAssumption` says that a change has at most one
previous content; `NamesAssumption` limits the names of witnesses to those that
`witnessId` is written out for, which include the one that collides with the
id of the record key unless it is prefixed.

**Opening a workspace** (`HardwareProof`).  `HardwareInv` has three parts.  The
answers so far are of one client, each quote binds the record key and repeats an
answer of its own, and its bytes come from what the client talks to
(`AnswersInv`); it survives partial answers and redeployments because neither
changes the client.  An open workspace is as good as its status says
(`SpaceInv`), by going through `attestEndpoint` and `assessRuntime`.  Every
receipt carries the quote of its session (`ReceiptsInv`).  `HardwareOrNothingHolds`
and `RealReceiptsVerifyHolds` follow by evaluating `verifyReceiptV2` on what
`seal()` makes, in both directions: refused without silicon, accepted with it.

**Evidence** (`EvidenceProof`).  `KeysPerInstance` by `EnclaveInvariant`: a key's
id is the instance and the nonce it was made for, and all ids there are, made,
under way or trusted, differ in their instance (`IdsUnique`); a registration
under way has the key made for the current nonce of its collector (`WireType`);
and a key a collector trusts is trusted from a time no later than anything sealed
with it, with an attestation that names it (`Trusting`).  With that last part
every receipt passes where it arrives exactly if the certificates are in date: the
proof goes through `verifyEnvelope` and `verifyNitroAttestation` check by check, in
both directions.  `BundlesComplete` adds that what is
sealed is finite and numbered below a bound (`SealedFew`), so that any selection
in the order of its numbers is a bundle, and follows `verifyBundle` to the end.
`ExposureLimited` by `ExposureInv`: the key's entry is the active one until it is
withdrawn and does not change after that; a snapshot has this entry or the active
one, and a time; and every checkpoint is of a time at which its envelope had been
signed (`Dated`).  `TrustStore.evaluate` is then evaluated for both entries, and
nothing passes as signed before the withdrawal without a checkpoint
(`CheckpointRequired`).
`StampsAlwaysHold` by `StampInv`: every answer of the time-stamping authority is a
rejection or the token for one of the requests, whose nonce is its number, under
a certificate it then used.  `StampVerdict` evaluates `verifyTimestampToken` on such
a token in both directions, down to the loop of `buildChain()` (`ChainReaches`:
the recursive function exists for the authority's certificates, and from its own
it reaches the root exactly through the CA); that an outcome is "verified" exactly
when every required check is good is `VerifiedIff`.
`AdaptersStayTruthful` by `FleetInv`: every report is what the guest's chip signs for
its workload, key and challenge, after the challenge was issued, and every
appraisal consists of tokens about one such report, made after it.  For SEV-SNP
`SnpVerdict` evaluates `verifySnpReport` on any such report and any certificate of
the key service, in both directions, an altered body included.  For NVIDIA
`NrasChecks` reduces `verifyNrasResult` to its nine checks, which are then shown to
hold for a whole appraisal (`NrasBackward`); conversely (`NrasForward`) the digests in
the overall token, with the count, leave no token of another appraisal, the nonce
leaves one guest and one challenge, and the certificate leaves the period of one
key.  `NitroReduced` holds for any document and any options: the four claims are a
pass exactly when no check of the verifier fails or is left open.
`CheckpointsExact` by `LogInv`: the log is a sequence of envelopes without
repetitions, the index gives each its place, and a checkpoint is the root, the
place and the audit path as of some size the log has had.  What these say is a
fact about `Merkle` for trees of every size, in two directions.  Completeness
(`PathReaches`): the root of a list is the root of the list of its pairs' hashes
(`RootPairs`), the audit path is the sibling followed by the path in that shorter
list (`PathPairs`), and one step of the loop goes from the one to the other
(`GoesUp`); a last leaf without a sibling is passed up unhashed, by as many levels as
`Ascend` climbs at once (`ClimbLone`).  Soundness (`PathProves`): a path that
reaches the root has the length of the true one (`RunLength`, `LastShortest`), and since different
terms hash differently each level determines the one below it.  The recursive
functions exist, and agree with their own equations, by induction over sets of
numbers (`AllNat`), which needs no operator for a parameter.
`HeadsStayConsistent` follows from `LogInv` too: a head that was kept is the root of
the first leaves of today's log.  That its consistency proof verifies
(`ConsistencyReaches`), and no other older root does (`ConsistencyProves`), is proved
in `MerkleProof` over the same levels.  While the number of older leaves is even, the
proof, the first loop and both roots are those of the two lists of pairs
(`ProofPairs`, `RaisedUp`).  Once it is odd, the proof is the last older node and its
audit path (`ProofOdd`), and over that path the second loop climbs to both roots at
once (`BothReach`).  When one older node is left, the start of the climb is the older
root itself, so no other start is accepted (`FirstOnly`).  That a changed leaf changes
the root is `RootsTell`.
`PublicationHolds` takes what the invariants before it say together with
`OutliveInv`: what the service signs satisfies the schema, states a time no later
than that of its signing and carries no attestation, and every checkpoint held is
signed by the log.  `verifyEnvelope` is then followed check by check for a verifier
who asks for a checkpoint: the head is trusted (`HeadTrusted`), the inclusion is the
one of `CheckpointsExact`, and the key passes in both entries a snapshot may have,
since the time that counts is the proven one (`ServiceTrusted`).
Six assumptions have names: `CertificateDates` (certificates have dates),
`MaxAgeStated` (the code
reads a bound of 0 as none), `KeysApart` (the log signs with a key of its own: a
trust store has one record per key id, and with one for both either purpose
would be missing), `WitnessesFinite` (the witnesses are given as an array),
`EventsApart` (the events a kit makes for
validation are none of the application's) and `FleetAssumption` (the pinned workload
is one of the workloads, and there are finitely many GPUs, at least one, beside a
guest).  The budgets of the runs play no part
in these proofs.

Constants are assumed to be of their kind only: bounds are naturals, names are
distinct, requests and events have their fields.  TLC evaluates every assumption
on the instances it checks.

Only model-checked: everything about liveness (fairness is out of the prover's
reach), and with it that calls of the CooL client settle; and `AnchorsTruthful` and
`ProofsStable` of the run `workspace` (they say what recursive reading and
writing of proof files compute, over timestamps of any depth).

## 5. Not modelled, and the plan

Left out for good: byte-level encodings and cryptography (`canonical.ts`,
`codec.ts`, `sign.ts`, DER, CBOR, JOSE, the layout of quotes and reports),
HTTP and sockets, presentation (`cli/tty.ts`, `help.ts`, `docs.ts`,
`walkthrough.ts`, the pages of the console), the update of the tool, and
read-only views over single receipts (`diff.ts`, `query.ts`).
The verifier of the older record format (`verify.ts`), the connectors and
capability lists of the platform and the ledger of used nonces have no
concurrent or temporal behaviour of their own and are not modelled.  Callbacks
that re-enter the capture queue, or throw in `onDrop`, are not modelled either.
A loss of power is not modelled: the log never calls `fsync`, so what the
operating system was given counts as written.

What remains is to prove what proof files of any depth are read and written as
(`AnchorsTruthful`, `ProofsStable`).
