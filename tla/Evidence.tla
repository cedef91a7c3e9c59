------------------------------ MODULE Evidence ------------------------------
(***************************************************************************)
(* The platform's evidence over time.  A service signs envelopes with a    *)
(* key that may be rotated, revoked or found compromised, an enclave seals *)
(* receipts (Enclave), both are published to the log (TransparencyLog); a  *)
(* verifier holds a trust snapshot it refreshes now and then, and bundles  *)
(* of receipts are verified offline (Bundle).  A withdrawn key may go on   *)
(* being used, and a signer states any earlier time as observed_at.  Beside*)
(* them are the guests, GPUs and stamps of Fleet, which share only time.   *)
(***************************************************************************)
EXTENDS Enclave, Fleet

CONSTANTS
    Service,    \* the service's signer, [id, key]
    MaxAge,     \* max_age of the verifier's snapshots
    Budgets     \* what may happen in a behaviour: records of bounds

(* A snapshot that states no max_age never gets stale: the constructor of  *)
(* TrustStore takes 0 for none.                                            *)
ASSUME MaxAgeStated == MaxAge \in Nat \ {0}

(* The log has a key of its own: a trust store keeps one record per key id.*)
ASSUME KeysApart == Service.id # LogKey.id

VARIABLES
    signed,     \* the service's envelopes, each with the time it was really signed
    key,        \* the trust record of the service's key, as its owner keeps it
    snapshot,   \* the verifier's trust snapshot
    budget      \* the bounds of this behaviour

vars == <<now, logVars, enclaveVars, fleetVars, signed, key, snapshot, budget>>

evidenceVars == <<signed, key, snapshot>>

-----------------------------------------------------------------------------
Active(k, purpose) ==
    [key |-> k, purposes |-> {purpose}, valid_from |-> 0, valid_until |-> Never,
     status |-> "active", since |-> Never]

(* A trust snapshot with the service's key as it is recorded now. *)
Snapshot(service, t) ==
    [keys |-> [id \in {Service.id, LogKey.id} \cup {w.id : w \in Witnesses} |->
        IF id = Service.id THEN service
        ELSE IF id = LogKey.id THEN Active(LogKey.key, "log")
        ELSE Active((CHOOSE w \in Witnesses : w.id = id).key, "witness")],
     as_of |-> t, max_age |-> MaxAge]

Init ==
    /\ now = 1 /\ LogInit /\ EnclaveInit
    /\ signed = {} /\ key = Active(Service.key, "evidence")
    /\ snapshot = Snapshot(key, 1) /\ budget \in Budgets
    /\ FleetInit(budget.firmware)

(* The service signs an event and states when it observed it. *)
SignEvent(event, observed) ==
    /\ signed' = signed \cup {[at |-> now, env |-> env] : env \in
         {signEnvelope(core, <<Service>>) : core \in
             createEnvelope(InputOf(event, FALSE, observed), standard)}}
    /\ UNCHANGED <<key, snapshot>>

(* The key's owner rotates or revokes it, or finds out since when it may be*)
(* in other hands.                                                         *)
Withdraw(status, since) ==
    /\ key.status = "active"
    /\ key' = [key EXCEPT !.status = status, !.since = since]
    /\ UNCHANGED <<signed, snapshot>>

(* The verifier fetches a new snapshot. *)
Refresh == snapshot' = Snapshot(key, now) /\ UNCHANGED <<signed, key>>

Tick == /\ now < budget.time /\ now' = now + 1
        /\ UNCHANGED <<logVars, enclaveVars, fleetVars, evidenceVars>>

Nexts == {s.env : s \in signed}

LogStep ==
    /\ \/ \E env \in Nexts \cup delivered :
            /\ \/ Len(leaves) < budget.leaves \/ Published(env.digest)
            /\ Publish(env)
       \/ \E env \in Nexts \cup delivered, ws \in SUBSET Witnesses :
            budget.leaves > 0 /\ Fetch(env, ws)
       \/ Keep
    /\ UNCHANGED <<now, enclaveVars, fleetVars, evidenceVars>>

EnclaveStep ==
    /\ \/ \E image \in Images : enclave.instance < budget.instances /\ Boot(image)
       \/ \E h \in Hosts :
            \/ OnHello(h) \/ OnRegister(h) \/ OnReceipt(h)
            \/ \E outcome \in {"document", "garbage", "failed"} : OnAttest(h, outcome, now)
            \/ Cardinality({g \in Hosts : host[g].pc # "idle"}) < budget.hosts /\ Connect(h)
            \/ HostOnRegister(h, now) \/ HostOnAck(h, now) \/ HostOnReceipt(h, now)
            \/ HostFails(h)
            \/ host[h].runs < budget.runs /\ HostAgain(h)
       \/ \E event \in Events, seen \in BOOLEAN :
            /\ \A s \in enclave.sealer :
                  s.next < budget.seals \/ \E e \in s.issued : e.core.event_id = event
            /\ SealFor(event, seen, now)
    /\ UNCHANGED <<now, logVars, fleetVars, evidenceVars>>

KeyStep ==
    /\ \/ \E event \in 1..budget.signs, observed \in 1..now :
            (\A s \in signed : s.env.core.event_id # event) /\ SignEvent(event, observed)
       \/ budget.withdraw
            /\ \/ \E status \in {"rotated", "revoked"} : Withdraw(status, now)
               \/ \E since \in 1..now : Withdraw("compromised", since)
       \/ budget.withdraw /\ Refresh
    /\ UNCHANGED <<now, logVars, enclaveVars, fleetVars>>

FleetStep ==
    /\ \/ \E c \in Chips : budget.updates /\ UpdateFirmware(c)
       \/ Len(asked) < budget.asks /\ Challenge(now)
       \/ \E c \in Chips, w \in Workloads, debug \in BOOLEAN, k \in GuestKeys,
             n \in DOMAIN asked :
            /\ Cardinality(reports) < budget.reports
            /\ budget.reports > 1 => /\ w = Pinned /\ ~debug /\ c = CHOOSE x \in Chips : TRUE
                                    /\ \A s \in reports : s.challenge # n
            /\ GuestReports(c, w, debug, k, n, now)
       \/ \E s \in reports, good \in {Gpus} \cup {Gpus \ {g} : g \in Gpus} :
            Len(appraisals) < budget.appraisals /\ Appraise(s, good, now)
       \/ \E d \in Digests : Len(requests) < budget.requests /\ requestTimestamp(d)
       \/ \E i \in DOMAIN requests :
            /\ Cardinality(stamps) < budget.stamps
            /\ \/ \E renewed, complete \in BOOLEAN : TsaAnswers(i, renewed, complete, now)
               \/ TsaRejects(i, now)
    /\ UNCHANGED <<now, logVars, enclaveVars, evidenceVars>>

Next == (Tick \/ LogStep \/ EnclaveStep \/ KeyStep \/ FleetStep) /\ UNCHANGED budget

Spec == Init /\ [][Next]_vars

-----------------------------------------------------------------------------
(* The report of a verifier who asks for a checkpoint. *)
Report(env) ==
    verifyEnvelope(env, [VerifyOptions(snapshot, {}, now) EXCEPT !.requireCheckpoint = TRUE])

SignedAt(env) == (CHOOSE s \in signed : s.env.digest = env.digest).at

ByService == {env \in Held : \E s \in signed : s.env.digest = env.digest}

(* The time a verifier may go on accepting what is signed with a withdrawn *)
(* key is bounded: whatever the signer states about the time, an envelope  *)
(* really signed after the key was withdrawn is accepted only by a snapshot*)
(* older than the withdrawal, and no longer than its max_age               *)
(* (TrustStore.evaluate and provenBefore of verifyEnvelope).               *)
ExposureBounded ==
    \A env \in ByService :
        /\ key.status # "active" /\ SignedAt(env) > key.since
        /\ Report(env).overall = "pass"
        => snapshot.keys[Service.id].status = "active" /\ now - snapshot.as_of <= MaxAge

(* Withdrawing a key takes nothing back: an envelope held with a checkpoint*)
(* from before the withdrawal is accepted for ever after, by every snapshot*)
(* that is not stale (provenSignedBefore).                                 *)
PublicationOutlives ==
    \A env \in ByService :
        /\ key.status = "active" \/ The(env.checkpoint).timestamp < key.since
        /\ now - snapshot.as_of <= MaxAge
        => Report(env).overall = "pass"

(* The NSM's certificates may be used: a leaf lives for hours. *)
InDate(t) == \A c \in {AwsRoot, NsmCert} : c.from <= t /\ t <= c.to

TrustedKeys == UNION {host[h].key : h \in Hosts}

(* A collector trusts a key only when an enclave made it for that          *)
(* collector's challenge, and no instance gets two keys trusted            *)
(* (serveEnclave: "ONE key per enclave instance").  A receipt that comes   *)
(* under a trusted key is good exactly when the NSM's certificates are     *)
(* still in date as it is verified: trust in the key is for good, the      *)
(* receipts of a collection that outlasts the leaf are not (kit.ts verifies*)
(* each against the clock and not at the time of the document).            *)
OneKeyPerInstance ==
    /\ \A k, l \in TrustedKeys : k.id[1] = l.id[1] => k = l
    /\ \A h \in Hosts : \A k \in host[h].key : k.id[2] \in host[h].nonce
    /\ \A h \in Hosts : \A i \in 1..Len(host[h].receipts) :
          host[h].receipts[i].good <=> InDate(host[h].receipts[i].at)

(* Bundles show what is missing: a bundle of an instance's receipts passes *)
(* exactly when it holds every receipt numbered below its last one and the *)
(* NSM's certificates are in date, so a lost, dropped or refused one shows *)
(* as soon as a later one is there, and a retry shows nothing (seal() and  *)
(* the sequence check of verifyBundle).                                    *)
BundlesTellAll ==
    \A h \in Hosts : \A k \in host[h].key, trust \in host[h].trust :
        LET mine == {e \in delivered : e.signatures[1].key_id = k.id} IN
        \A S \in (SUBSET mine) \ {{}} :
            LET number(e) == The(e.core.sequence).number
                last   == CHOOSE n \in {number(e) : e \in S} : \A e \in S : number(e) <= n
                before == {e \in sealed : e.signatures[1].key_id = k.id /\ number(e) < last}
                bundle == exportBundle(SetToSeq(S), <<>>, <<>>, trust, Service)
            IN  (verifyBundle(bundle, VerifyOptions(trust, k.id[2], now), {trust}).overall
                     = "pass")
                <=> before \subseteq S /\ Cardinality(before) = last /\ InDate(now)

-----------------------------------------------------------------------------
SnpOptions(cert, k, n) ==
    [certificate |-> cert, product |-> {}, expectedMeasurement |-> {Pinned},
     expectedReportData |-> {<<k, n>>}, minimumTcb |-> {[snp |-> Floor]},
     expectedVmpl |-> {0}, allowDebug |-> FALSE, revokedSerials |-> {}, now |-> now]

NrasOptions(k, n, fetched) ==
    [jwks |-> JwksAt(fetched), expectedNonce |-> {cpuBindingNonce(<<k, n>>)},
     anchors |-> {NrasAnchor}, issuer |-> NRAS_ISSUER,
     expectedGpuCount |-> {Cardinality(Gpus)}, cpuReportData |-> {<<k, n>>},
     now |-> now, skew |-> 0]

(* The adapters speak of one guest and one run: a report is verified for a *)
(* key and a challenge exactly when the pinned workload made it, in answer *)
(* to that challenge, with that key, without debugging, on firmware at or  *)
(* above the floor, and the certificate is the one of that chip and that   *)
(* firmware; with it, a GPU result exactly when it is one whole, unexpired *)
(* appraisal made for that guest and challenge in which every GPU passed.  *)
(* So no answer to another challenge, no part of an earlier appraisal and  *)
(* no other chip's certificate fits (tee.ts, snp/index.ts, nvidia/index.ts)*)
(* and the four claims Nitro is reduced to hide no failed check.           *)
AdaptersTruthful ==
    /\ \A s \in reports, k \in GuestKeys, n \in DOMAIN asked, cert \in Vceks :
        LET verified(report) == snpAdapter(report, SnpOptions(cert, k, n)).outcome = "verified"
        IN  /\ verified(s.report) <=>
                  /\ s.workload = Pinned /\ ~s.debug /\ k = KeyOf(s.chip, Pinned)
                  /\ s.challenge = n /\ asked[n] <= s.at /\ s.level >= Floor
                  /\ cert = Vcek(s.chip, s.level) /\ now <= cert.to
            /\ s.workload # Pinned => ~verified([s.report EXCEPT !.body.measurement = Pinned])
            /\ verified(s.report) =>
                  \A result \in Assemblies, fetched \in 1..now :
                      (nvidiaAdapter(result, NrasOptions(k, n, fetched)).outcome = "verified")
                      <=> \E i \in DOMAIN appraisals : LET a == appraisals[i] IN
                            /\ result.overall = a.overall /\ result.gpus = a.gpus
                            /\ a.about.key = k /\ a.about.challenge = n /\ a.at >= asked[n]
                            /\ a.good = Gpus /\ now <= a.at + 1
                            /\ NrasKid(fetched) = NrasKid(a.at)
    /\ \A h \in Hosts : \A m \in Reply(h, "register") : \A reg \in m.body :
        LET options == [NitroOptions(The(host[h].nonce), now) EXCEPT !.now = now]
                       @@ [receiptKey |-> {[id |-> reg.key.id, entry |-> reg.key.key]}]
        IN  (nitroAdapter(reg.attestation, options).outcome = "verified")
            <=> verifyNitroAttestation(reg.attestation, options).overall = "pass"

StampOptions(d, nonce, intermediates) ==
    [digest |-> d, trustAnchors |-> {TsaRoot}, nonce |-> nonce,
     intermediates |-> intermediates, maxBytes |-> 1]

(* A stamp holds for good and for one request: whatever late or repeated   *)
(* answers there are and however often the authority renews its           *)
(* certificate, an answer is verified for a request exactly when it was    *)
(* granted for that request, under a certificate valid when it was granted,*)
(* with the CA at hand, and it goes on being verified when that certificate*)
(* has expired (verifyTimestampToken: "valid at genTime").  Without the    *)
(* nonce any grant for the same digest will do.                            *)
StampsHold ==
    \A i \in DOMAIN requests, s \in stamps, helped \in BOOLEAN :
        LET verified(nonce) ==
                verifyTimestampToken(s.token, StampOptions(requests[i].digest, nonce,
                    IF helped THEN {TsaCa} ELSE {})).outcome = "verified"
            granted == /\ s.token.status = {0}
                       /\ s.cert.from <= s.at /\ s.at <= s.cert.to
                       /\ helped \/ \E c \in s.token.content : TsaCa \in c.certs
        IN  /\ verified({requests[i].nonce}) <=> granted /\ s.request = i
            /\ verified({}) <=> granted /\ requests[s.request].digest = requests[i].digest
=============================================================================
