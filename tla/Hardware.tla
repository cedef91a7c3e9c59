------------------------------ MODULE Hardware ------------------------------
(***************************************************************************)
(* How a workspace is opened: openWorkspace() of cli/workspace.ts with the *)
(* clients of phala/dstack.ts, the sealed keys of phala/kms.ts, start() of *)
(* phala/engine.ts, the handshake of phala/ratls.ts and the status of      *)
(* phala/runtime.ts.  Opening asks the guest agent fifteen times, some of  *)
(* it at once; every answer may be good, unusable, or good HTTP with parts *)
(* missing, and the machine behind the endpoint may be replaced between    *)
(* two of them.  A register's value is a tuple, ZERO the parser's fallback.*)
(***************************************************************************)
EXTENDS Plane

CONSTANTS
    Configs,    \* the environments a workspace may be opened in
    Images,     \* what may be deployed
    Event,      \* the change that is recorded
    MaxFaults, MaxDeploys, MaxSessions, MaxRecords   \* bounds

ASSUME HardwareAssumption == {MaxFaults, MaxDeploys, MaxSessions, MaxRecords} \subseteq Nat

VARIABLES
    config,     \* the environment of this session
    phase,      \* closed, opening, open
    client,     \* what the session talks to
    image,      \* what is deployed now
    got,        \* the answers so far: call -> answer
    space,      \* the open workspace
    leaves,     \* the log of the project
    receipts,   \* receipts saved, with what their session was like
    left        \* what is left of the bounds

vars == <<config, phase, client, image, got, space, leaves, receipts, left>>

REGISTERS == {"mrtd", "rtmr0", "rtmr1", "rtmr2", "rtmr3"}
ZERO == <<"zero">>

(* The registers of an image; the firmware, the kernel and its command     *)
(* line do not move with it.                                               *)
measurement(i) ==
    [r \in REGISTERS |-> IF r \in {"mrtd", "rtmr3"} THEN <<r, i>> ELSE <<r, "os">>]

-----------------------------------------------------------------------------
(* The answers of an agent.  External: what Info says of an image; any of  *)
(* its parts may be missing, and tcb_info may be text that does not parse. *)
FullInfo(i) ==
    [app_id |-> {"app"}, instance_id |-> {"instance"},
     tcb_info |-> [form |-> "text", registers |-> measurement(i)]]
SoftInfos(i) ==
    {[FullInfo(i) EXCEPT !.tcb_info.form = "broken"],
     [FullInfo(i) EXCEPT !.tcb_info.registers = [r \in REGISTERS \ {"rtmr3"} |-> @[r]]],
     [FullInfo(i) EXCEPT !.app_id = {}]}

(* parseTcbInfo(): no block, or one that does not parse, is an empty one. *)
parseTcbInfo(raw) == IF raw.form = "broken" THEN <<>> ELSE raw.registers

hexField(tcb, r) == IF r \in DOMAIN tcb THEN tcb[r] ELSE ZERO

(* HttpDstackClient.info() *)
httpInfo(raw) ==
    LET tcb == parseTcbInfo(raw.tcb_info)
    IN  [appId |-> IF raw.app_id = {} THEN "unknown" ELSE Some(raw.app_id),
         instanceId |-> IF raw.instance_id = {} THEN "unknown" ELSE Some(raw.instance_id),
         vendor |-> "intel-tdx", mode |-> "hardware",
         measurement |-> [r \in REGISTERS |-> hexField(tcb, r)]]

(* SimulatedDstackClient.info() *)
simulatedInfo(i) ==
    [appId |-> "app", instanceId |-> "instance", vendor |-> "intel-tdx",
     mode |-> "simulated", measurement |-> measurement(i)]

(* HttpDstackClient.getQuote(): the body is filled in from a call of       *)
(* info() of its own, the bytes say what the machine really is.            *)
httpQuote(info, data, issuer) ==
    [root |-> "intel-dcap", signature |-> {},
     raw |-> {[issuer |-> issuer, measured |-> measurement(image), report_data |-> data]},
     body |-> [vendor |-> info.vendor, measurement |-> info.measurement,
               report_data |-> data]]

(* SimulatedDstackClient.getQuote() *)
simulatedQuote(info, data) ==
    LET body == [vendor |-> info.vendor, measurement |-> info.measurement,
                 report_data |-> data]
    IN  [root |-> "cool-sim-root", signature |-> {signed(<<"sim">>, <<"sim-root">>, body)},
         raw |-> {}, body |-> body]

(* deriveKey(): the simulator's seed follows the measurement, the agent's  *)
(* what its key service knows, which is the app and the path.              *)
simulatedSeed(i, path) == <<"sim", measurement(i)["mrtd"], measurement(i)["rtmr3"], path>>
httpSeed(issuer, path) == <<issuer, "app", path>>

directory == IF client.kind = "sim" THEN [id \in {<<"sim-root">>} |-> <<"sim">>] ELSE <<>>

(* The calls of an opening and the answers each has to wait for: info(),   *)
(* the keys of the log, then start() with its own keys and quote, then the *)
(* handshake with a second quote.  Promise.all lets two keys overlap.      *)
waitsFor ==
    [info0 |-> {},
     seedA_record |-> {"info0"}, idA_record |-> {"seedA_record"},
     seedA_log |-> {"info0"}, idA_log |-> {"seedA_log"},
     info1 |-> {"idA_record", "idA_log"},
     seedB_record |-> {"info1"}, idB_record |-> {"seedB_record"},
     seedB_log |-> {"info1"}, idB_log |-> {"seedB_log"},
     quoteInfo1 |-> {"idB_record", "idB_log"}, quote1 |-> {"quoteInfo1"},
     info2 |-> {"quote1"},
     quoteInfo2 |-> {"info2"}, quote2 |-> {"quoteInfo2"}]
Infos == {"info0", "idA_record", "idA_log", "info1", "idB_record", "idB_log",
          "quoteInfo1", "info2", "quoteInfo2"}
RecordSeeds == {"seedA_record", "seedB_record"}
LogSeeds == {"seedA_log", "seedB_log"}

KEY_PATH == [record |-> "record/v2", log |-> "log/v2"]

(* sealedKeypair() and sealedKeyset(): the seed, and an id that names the  *)
(* role and the image as a call of info() of its own reports it.           *)
sealedKeypair(role, seed, info) == [id |-> <<role, info.measurement["mrtd"]>>, entry |-> seed]
keysetA == [record |-> sealedKeypair("enclave", got.seedA_record, got.idA_record),
            log |-> sealedKeypair("log", got.seedA_log, got.idA_log)]
keysetB == [record |-> sealedKeypair("enclave", got.seedB_record, got.idB_record),
            log |-> sealedKeypair("log", got.seedB_log, got.idB_log)]

(* The answer to a call; info is what Info says now. *)
answer(call, info) ==
    LET sim  == client.kind = "sim"
        seed(path) == IF sim THEN simulatedSeed(client.image, path)
                      ELSE httpSeed(client.kind, path)
        quote(known, data) == IF sim THEN simulatedQuote(known, data)
                              ELSE httpQuote(known, data, client.kind)
    IN  CASE call \in Infos -> info
          [] call \in RecordSeeds -> seed(KEY_PATH.record)
          [] call \in LogSeeds -> seed(KEY_PATH.log)
          [] call = "quote1" -> quote(got.quoteInfo1, reportData(keysetB))
          [] call = "quote2" -> quote(got.quoteInfo2,
                                      enclaveReportData(keysetB.record.entry))

-----------------------------------------------------------------------------
(* isZeroRegister(), measurementIssues() and hardwareEvidenceIssues(). *)
measurementIssues(m) == {r \in REGISTERS : m[r] = ZERO}
hardwareEvidenceIssues(info) ==
    measurementIssues(info.measurement)
    \cup (IF info.appId = "unknown" THEN {"app_id"} ELSE {})
    \cup (IF info.instanceId = "unknown" THEN {"instance_id"} ELSE {})

(* The verdict of the service about the bytes of a quote, {} when it does  *)
(* not answer.  External: it vouches for what silicon has issued.          *)
vouched(quote) == {b \in quote.raw : b.issuer = "cvm"}

(* attestEndpoint(): every step is taken, the channel opens if all hold. *)
attestEndpoint(info, quote, policy, genuine) ==
    LET simulated == quote.root = "cool-sim-root"
        asked == policy.verifier /\ (simulated => policy.allowSimulated)
        verified == asked /\ remoteQuoteVerifier(quote, genuine)
        steps ==
          [evidence |-> info.mode = "hardware" => hardwareEvidenceIssues(info) = {},
           structure |-> checkQuoteStructure(quote),
           root |-> IF simulated /\ ~policy.allowSimulated THEN FALSE
                    ELSE IF policy.verifier THEN verified
                    ELSE IF simulated THEN simulatedQuoteVerifier(directory, quote)
                    ELSE ~policy.requireVerifiedRoot,
           vendor |-> policy.requireVendor = {} \/ quote.body.vendor \in policy.requireVendor,
           pin |-> policy.expectedMeasurement = quote.body.measurement,
           binding |-> quote.body.report_data = enclaveReportData(keysetB.record.entry)]
    IN  [ok |-> \A s \in DOMAIN steps : steps[s], quote |-> quote,
         rootVerified |-> verified /\ ~simulated]

(* assessRuntime() *)
assessRuntime(info, handshake) ==
    IF info.mode = "simulated" \/ handshake.quote.root = "cool-sim-root" THEN "simulated"
    ELSE IF hardwareEvidenceIssues(info) # {} THEN "failed"
    ELSE IF ~handshake.ok THEN "failed"
    ELSE IF ~handshake.rootVerified THEN "unverified" ELSE "real"

-----------------------------------------------------------------------------
(* The endpoint [form, agent]: a variable that is set wins, even one set   *)
(* to nothing, which then hides the socket.                                *)
endpoint(c) ==
    LET explicit == IF c.DSTACK_ENDPOINT # {} THEN c.DSTACK_ENDPOINT
                    ELSE c.DSTACK_SIMULATOR_ENDPOINT
    IN  {e \in (IF explicit # {} THEN explicit ELSE c.socket) : e.form # "empty"}

None == [kind |-> "none", image |-> "none"]

Init ==
    /\ config \in Configs /\ phase = "closed" /\ client = None /\ image \in Images
    /\ got = <<>> /\ space = <<>> /\ leaves = <<>> /\ receipts = {}
    /\ left = [faults |-> MaxFaults, deploys |-> MaxDeploys, sessions |-> MaxSessions]

(* openWorkspace() refuses at once, or begins to ask. *)
Open ==
    /\ phase = "closed" /\ left.sessions > 0
    /\ config.required => endpoint(config) # {} /\ config.verifier
    /\ phase' = "opening" /\ left' = [left EXCEPT !.sessions = @ - 1]
    /\ client' = IF endpoint(config) = {} THEN [kind |-> "sim", image |-> image]
                 ELSE [kind |-> Some(endpoint(config)).agent, image |-> "live"]
    /\ UNCHANGED <<config, image, got, space, leaves, receipts>>

(* readPin(): all registers have to be there. *)
readPin(c) == \A p \in c.pin : DOMAIN p = REGISTERS

(* The calls that are out; a malformed pin stops after the log's keys. *)
Pending == {c \in DOMAIN waitsFor \ DOMAIN got :
               waitsFor[c] \subseteq DOMAIN got /\ (c = "info1" => readPin(config))}

Noted(call, a) == [c \in DOMAIN got \cup {call} |-> IF c = call THEN a ELSE got[c]]

(* rpc() resolves. *)
Answered ==
    /\ phase = "opening"
    /\ \E call \in Pending :
          LET info == IF client.kind = "sim" THEN simulatedInfo(client.image)
                      ELSE httpInfo(FullInfo(image))
          IN  got' = Noted(call, answer(call, info))
    /\ UNCHANGED <<config, phase, client, image, space, leaves, receipts, left>>

(* info() with parts missing: the client degrades, it does not throw. *)
AnsweredSoftly ==
    /\ phase = "opening" /\ client.kind # "sim" /\ left.faults > 0
    /\ \E call \in Pending \cap Infos, raw \in SoftInfos(image) :
          got' = Noted(call, httpInfo(raw))
    /\ left' = [left EXCEPT !.faults = @ - 1]
    /\ UNCHANGED <<config, phase, client, image, space, leaves, receipts>>

(* How a request may end: over a socket one that is not answered for ten   *)
(* seconds fails, fetch() waits.                                           *)
isSocketPath(e) == e.form = "path"
unixFetch == {"response", "timeout", "error"}
transportFor(e) == IF isSocketPath(e) THEN unixFetch ELSE {"response", "error"}

(* rpc() rejects, or the answer holds no quote or key: the opening fails,  *)
(* it never goes on with the simulator.                                    *)
Unanswered ==
    /\ phase = "opening" /\ client.kind # "sim" /\ Pending # {} /\ left.faults > 0
    /\ \E e \in endpoint(config) : \E outcome \in transportFor(e) : outcome # "response"
    /\ phase' = "closed" /\ got' = <<>> /\ client' = None
    /\ left' = [left EXCEPT !.faults = @ - 1]
    /\ UNCHANGED <<config, image, space, leaves, receipts>>

(* The pin is read, and refused, once the log's keys are there. *)
BadPin ==
    /\ phase = "opening" /\ ~readPin(config) /\ waitsFor.info1 \subseteq DOMAIN got
    /\ phase' = "closed" /\ got' = <<>> /\ client' = None
    /\ UNCHANGED <<config, image, space, leaves, receipts, left>>

(* The pin: what the environment says, else what info() said at first. *)
pin == IF config.pin # {} THEN Some(config.pin) ELSE got.info0.measurement

(* What openWorkspace() makes of connect(): the plane, the channel, and    *)
(* the status; hardware that is required and not real closes it again.     *)
Connected ==
    /\ phase = "opening" /\ DOMAIN got = DOMAIN waitsFor
    /\ \E reached \in BOOLEAN :
          LET policy == [expectedMeasurement |-> pin, verifier |-> config.verifier,
                         allowSimulated |-> ~config.required,
                         requireVendor |-> IF config.required THEN {got.info0.vendor} ELSE {},
                         requireVerifiedRoot |-> config.verifier \/ config.required]
              plane == start(got.info1, keysetB, got.quote1, {pin}, directory)
              handshake == attestEndpoint(got.info2, got.quote2, policy,
                                          IF reached THEN vouched(got.quote2) ELSE {})
              runtime == assessRuntime(plane.info, handshake)
          IN  /\ reached \/ (config.verifier /\ left.faults > 0)
              /\ left' = [left EXCEPT !.faults = IF reached THEN @ ELSE @ - 1]
              /\ IF config.required /\ runtime # "real"
                 THEN phase' = "closed" /\ client' = None /\ UNCHANGED space
                 ELSE /\ phase' = "open" /\ UNCHANGED client
                      /\ space' = [plane |-> plane, logKey |-> keysetA.log, pin |-> pin,
                                   handshake |-> handshake, runtime |-> runtime,
                                   said |-> {got[c].measurement : c \in Infos}]
    /\ got' = <<>>
    /\ UNCHANGED <<config, image, leaves, receipts>>

(* change() through AttestedChannel.send(), which throws on a channel that *)
(* is not open; the receipt is saved.                                      *)
Change ==
    LET core == changeCore(space.plane, Len(leaves) + 1, Event, {DEFAULT_POLICY})
    IN  /\ phase = "open" /\ space.handshake.ok /\ Len(leaves) < MaxRecords
        /\ leaves' = Append(leaves, core)
        /\ receipts' = receipts \cup
             {[receipt |-> seal(space.plane, space.logKey, leaves, core), pin |-> space.pin,
               runtime |-> space.runtime, said |-> space.said, kind |-> client.kind]}
        /\ UNCHANGED <<config, phase, client, image, got, space, left>>

Close ==
    /\ phase = "open" /\ phase' = "closed" /\ client' = None /\ space' = <<>>
    /\ UNCHANGED <<config, image, got, leaves, receipts, left>>

(* External: another image is deployed behind the endpoint. *)
Deploy ==
    /\ left.deploys > 0 /\ left' = [left EXCEPT !.deploys = @ - 1]
    /\ image' \in Images \ {image}
    /\ UNCHANGED <<config, phase, client, got, space, leaves, receipts>>

Next == Open \/ Answered \/ AnsweredSoftly \/ Unanswered \/ BadPin \/ Connected
        \/ Change \/ Close \/ Deploy

Spec == Init /\ [][Next]_vars

-----------------------------------------------------------------------------
Adapters == INSTANCE Tee

(* An auditor who insists on hardware, with this pin. *)
Auditor(r, m) ==
    [quoteVerifier |-> {UNION {vouched(q) : q \in r.attestation.quote}},
     expectedMeasurement |-> {m}, blockHeaders |-> {}, requireHardware |-> TRUE,
     witnessThreshold |-> 0]

(* A workspace that says REAL, and any that was opened with hardware       *)
(* required, talks to silicon: whatever was configured, answered badly or  *)
(* replaced on the way, the quote of its handshake was issued by silicon   *)
(* for the very key that signs its records, every register its records     *)
(* will carry is there, and the machine reported the pinned measurement.   *)
(* And no receipt sealed without silicon passes an auditor who insists, nor*)
(* does the TDX adapter turn a simulated quote into a claim that passes    *)
(* (normalize.ts: "None of them can ever become pass").                    *)
HardwareOrNothing ==
    /\ phase = "open" /\ (config.required \/ space.runtime = "real") =>
          /\ \E bytes \in space.handshake.quote.raw :
                /\ bytes.issuer = "cvm"
                /\ bytes.report_data = enclaveReportData(space.plane.keys.record.entry)
          /\ ZERO \notin {space.plane.info.measurement[r] : r \in REGISTERS}
          /\ space.handshake.quote.body.measurement = space.pin
    /\ \A s \in receipts : s.kind # "cvm" =>
          LET verdict == verifyReceiptV2(s.receipt, Auditor(s.receipt, s.pin))
          IN  /\ ~verdict.ok
              /\ \A n \in Adapters!tdxAdapter(verdict).normalized :
                    n.claims.platform_attestation.status # "pass"

(* A receipt sealed in a session that says REAL verifies for an auditor    *)
(* who insists on hardware and on the session's pin, also after a redeploy *)
(* and after later sessions, provided the agent told the session one       *)
(* measurement throughout.  (It is asked nine times, and the keys' ids, the*)
(* record and the two quotes each believe an answer of their own.)         *)
RealReceiptsVerify ==
    \A s \in receipts : s.runtime = "real" /\ Cardinality(s.said) = 1 =>
        verifyReceiptV2(s.receipt, Auditor(s.receipt, s.pin)).ok
=============================================================================
