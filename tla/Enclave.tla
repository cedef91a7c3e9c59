------------------------------ MODULE Enclave ------------------------------
(***************************************************************************)
(* The Nitro enclave kit: the server in the enclave and its sealer         *)
(* (nitro/kit.ts serveEnclave, nitro/receipt.ts) with the collectors that  *)
(* challenge it from the host (collectFromEnclave).  Every collector has a *)
(* connection of its own and one request on it at a time; a request waits  *)
(* at the NSM while others are handled, an enclave may be restarted, a     *)
(* request or an answer may come too late.  Framing is left out.           *)
(***************************************************************************)
EXTENDS TransparencyLog

CONSTANTS
    Hosts,          \* collectors
    Images,         \* enclave images; an image is its measurements, PCR0 to 2
    Approved,       \* the image the collectors' PCR policy names
    AwsRoot,        \* the certificate of the trust bundle
    NsmCert,        \* the NSM's leaf certificate
    Events,         \* application events sealed over other connections
    BadEvents,      \* those with a payload its schema refuses
    Count           \* receipts a collector asks for

ASSUME CountPositive == Count \in Nat \ {0}

ASSUME CertificateDates ==
    \A c \in {AwsRoot, NsmCert} : c.from \in Nat /\ c.to \in Nat

(* No application calls an event nitro-validation-i. *)
ASSUME EventsApart == \A e \in Events, i \in 0..Count : e # <<"nitro-validation", i>>

VARIABLES
    enclave,    \* the running instance
    host,       \* the collectors
    wire,       \* the request or answer under way on each connection
    sealed,     \* every receipt any instance has sealed
    delivered   \* the receipts that reached their application

enclaveVars == <<enclave, host, wire, sealed, delivered>>

(* `starting` and `sealer` of serveEnclave; starts are the calls of start()*)
(* that wait for the NSM.                                                  *)
NoInstance == [instance |-> 0, image |-> Approved, starting |-> FALSE, starts |-> {},
               sealer |-> {}]

IdleHost == [pc |-> "idle", nonce |-> {}, instance |-> 0, key |-> {}, trust |-> {}, at |-> 0,
             receipts |-> <<>>, passed |-> FALSE, runs |-> 0]

EnclaveInit ==
    /\ enclave = NoInstance
    /\ host = [h \in Hosts |-> IdleHost] /\ wire = [h \in Hosts |-> {}]
    /\ sealed = {} /\ delivered = {}

-----------------------------------------------------------------------------
(* The policy of the collectors, and the options they verify with: they    *)
(* leave certificateTime at its default, so the certificates have to be in *)
(* date whenever something is verified.                                    *)
PcrPolicy == [pcrs |-> [i \in 0..2 |-> Approved], pcr8 |-> "not_applicable",
              publicKey |-> "receipt_key"]

NitroOptions(nonce, t) ==
    [trustBundle |-> trustBundleFromDer("aws", {AwsRoot}, Never), policy |-> {PcrPolicy},
     freshness |-> {[mode |-> "nonce", expected |-> nonce, ledger |-> {}]}, now |-> t,
     certificateTime |-> "now"]

(* What the NSM signs; not every document a helper returns is one. *)
Document(image, key, nonce, t) ==
    [decodes |-> TRUE, timestamp |-> t, pcrs |-> [i \in 0..2 |-> image],
     cabundle |-> <<AwsRoot>>, certificate |-> NsmCert, signedBy |-> NsmCert.key,
     user_data |-> {keyBindingUserData(key.id, key.key)},
     public_key |-> {ed25519Spki(key.key)}, nonce |-> {nonce}]

Garbage(doc) == [doc EXCEPT !.decodes = FALSE]

(* What a validation event or an application's event holds. *)
Payload(bad) ==
    [f \in {"model", "model_version", "input_commitment", "output_commitment"} |->
        IF bad /\ f = "output_commitment" THEN {"string"} ELSE {"string", "digest"}]

InputOf(event, bad, t) ==
    [event_id |-> event, event_type |-> "ai_inference", payload_schema |-> {},
     payload |-> Payload(bad), occurred_at |-> t, observed_at |-> t, refs |-> {},
     policy |-> {}, sequence |-> {}, attestation |-> {}]

-----------------------------------------------------------------------------
(* A restart: a new instance, which knows nothing of the one before.       *)
Boot(image) ==
    /\ enclave' = [NoInstance EXCEPT !.instance = enclave.instance + 1, !.image = image]
    /\ UNCHANGED <<host, wire, sealed, delivered>>

Send(h, type, body) ==
    wire' = [wire EXCEPT ![h] =
        {[to |-> "enclave", instance |-> host'[h].instance, type |-> type, body |-> body]}]

Answer(h, type, body) ==
    wire' = [wire EXCEPT ![h] = {[to |-> "host", type |-> type, body |-> body]}]

(* The request on h's connection, when it is one to this instance. *)
Request(h, type) ==
    {m \in wire[h] : m.to = "enclave" /\ m.type = type /\ m.instance = enclave.instance}

(* Mutant: a hello is refused once there is a sealer, not once it starts. *)
OnHelloLate(h) ==
    \E m \in Request(h, "hello") :
        IF enclave.sealer # {}
        THEN Answer(h, "error", {}) /\ UNCHANGED <<enclave, host, sealed, delivered>>
        ELSE /\ enclave' = [enclave EXCEPT !.starting = TRUE,
                   !.starts = @ \cup {[host |-> h, nonce |-> The(m.body)]}]
             /\ wire' = [wire EXCEPT ![h] = {}]
             /\ UNCHANGED <<host, sealed, delivered>>

(* hello: the first one starts the sealer, later ones are refused. *)
OnHello(h) ==
    \E m \in Request(h, "hello") :
        IF enclave.starting
        THEN Answer(h, "error", {}) /\ UNCHANGED <<enclave, host, sealed, delivered>>
        ELSE /\ enclave' = [enclave EXCEPT !.starting = TRUE,
                   !.starts = @ \cup {[host |-> h, nonce |-> The(m.body)]}]
             /\ wire' = [wire EXCEPT ![h] = {}]
             /\ UNCHANGED <<host, sealed, delivered>>

(* start() has made a fresh key and the NSM answers with a document, or the*)
(* helper returns something else (garbage), or fails.  A start that fails  *)
(* leaves `starting` set.                                                  *)
OnAttest(h, outcome, t) ==
    \E s \in enclave.starts :
        /\ s.host = h
        /\ LET key == [id |-> <<enclave.instance, s.nonce>>, key |-> <<enclave.instance, s.nonce>>]
               doc == Document(enclave.image, key, s.nonce, t)
               attestation == IF outcome = "garbage" THEN Garbage(doc) ELSE doc
               here == host[h].pc = "hello" /\ host[h].nonce = {s.nonce}
           IN  IF outcome = "failed"
               THEN /\ enclave' = [enclave EXCEPT !.starts = @ \ {s}]
                    /\ IF here THEN Answer(h, "error", {}) ELSE UNCHANGED wire
               ELSE /\ enclave' = [enclave EXCEPT !.starts = @ \ {s},
                           !.sealer = {[key |-> key, attestation |-> attestation, epoch |-> {},
                                        next |-> 0, issued |-> {}]}]
                    /\ IF here THEN Answer(h, "register", {[key |-> key, attestation |-> attestation]})
                       ELSE UNCHANGED wire
        /\ UNCHANGED <<host, sealed, delivered>>

(* register: acceptEpoch() takes an epoch once. *)
OnRegister(h) ==
    \E m \in Request(h, "register") :
        IF \E s \in enclave.sealer : s.epoch \subseteq m.body
        THEN /\ enclave' = [enclave EXCEPT !.sealer = {[s EXCEPT !.epoch = m.body] : s \in @}]
             /\ Answer(h, "ack", m.body) /\ UNCHANGED <<host, sealed, delivered>>
        ELSE Answer(h, "error", {}) /\ UNCHANGED <<enclave, host, sealed, delivered>>

(* seal(): idempotent by event id; a number is taken before the envelope   *)
(* is built, and stays taken when that throws.  Its result is the sealer   *)
(* afterwards and the envelope, if any.                                    *)
seal(s, input) ==
    LET prior == {e \in s.issued : e.core.event_id = input.event_id}
        core  == createEnvelope([input EXCEPT
                    !.sequence = {[epoch |-> The(s.epoch), number |-> s.next]},
                    !.attestation = {s.attestation}], standard)
        env   == {signEnvelope(c, <<s.key>>) : c \in core}
    IN  IF s.epoch = {} THEN [sealer |-> s, env |-> {}]
        ELSE IF prior # {} THEN [sealer |-> s, env |-> prior]
        ELSE [sealer |-> [s EXCEPT !.next = @ + 1, !.issued = @ \cup env], env |-> env]

(* receipt, from a collector. *)
OnReceipt(h) ==
    \E m \in Request(h, "receipt") :
        IF enclave.sealer = {}
        THEN Answer(h, "error", {}) /\ UNCHANGED <<enclave, host, sealed, delivered>>
        ELSE LET result == seal(The(enclave.sealer), The(m.body))
             IN  /\ enclave' = [enclave EXCEPT !.sealer = {result.sealer}]
                 /\ sealed' = sealed \cup result.env
                 /\ Answer(h, IF result.env = {} THEN "error" ELSE "receipt", result.env)
                 /\ UNCHANGED <<host, delivered>>

(* receipt, from an application, which may never see the answer and asks   *)
(* again.  An error answer changes nothing.                                *)
SealFor(event, seen, t) ==
    /\ enclave.sealer # {}
    /\ LET result == seal(The(enclave.sealer), InputOf(event, event \in BadEvents, t))
       IN  /\ enclave' = [enclave EXCEPT !.sealer = {result.sealer}]
           /\ sealed' = sealed \cup result.env
           /\ delivered' = IF seen THEN delivered \cup result.env ELSE delivered
    /\ UNCHANGED <<host, wire>>

-----------------------------------------------------------------------------
(* collectFromEnclave(): connect and send a challenge nobody has used. *)
Connect(h) ==
    /\ host[h].pc = "idle" /\ enclave.instance > 0
    /\ LET nonce == <<h, host[h].runs>>
       IN  /\ host' = [host EXCEPT ![h].pc = "hello", ![h].nonce = {nonce},
                                   ![h].instance = enclave.instance]
           /\ Send(h, "hello", {nonce})
    /\ UNCHANGED <<enclave, sealed, delivered>>

Reply(h, type) == {m \in wire[h] : m.to = "host" /\ m.type = type}

(* The trust store of a collector holds the attested key and nothing else;  *)
(* it is made once, when the document has passed.                          *)
AttestedTrust(key, t) ==
    [keys |-> [id \in {key.id} |->
        [key |-> key.key, purposes |-> {"evidence"}, valid_from |-> t - 1,
         valid_until |-> Never, status |-> "active", since |-> Never]],
     as_of |-> t, max_age |-> 0]

(* The key is trusted once its document has passed every check. *)
HostOnRegister(h, t) ==
    \E m \in Reply(h, "register") : \E reg \in m.body :
        LET options == NitroOptions(The(host[h].nonce), t)
            report  == verifyNitroAttestation(reg.attestation,
                [trustBundle |-> options.trustBundle, policy |-> options.policy,
                 receiptKey |-> {[id |-> reg.key.id, entry |-> reg.key.key]},
                 freshness |-> options.freshness, now |-> t,
                 certificateTime |-> options.certificateTime])
        IN  /\ host[h].pc = "hello"
            /\ IF report.overall = "pass"
               THEN /\ host' = [host EXCEPT ![h].pc = "register", ![h].key = {reg.key},
                                            ![h].trust = {AttestedTrust(reg.key, t)}]
                    /\ Send(h, "register", {1})
               ELSE /\ host' = [host EXCEPT ![h].pc = "done"]
                    /\ wire' = [wire EXCEPT ![h] = {}]
            /\ UNCHANGED <<enclave, sealed, delivered>>

(* VALIDATION_EVENTS(), all of them dated when the epoch is acknowledged. *)
ValidationEvent(i, t) == InputOf(<<"nitro-validation", i>>, FALSE, t)

HostOnAck(h, t) ==
    \E m \in Reply(h, "ack") :
        /\ host[h].pc = "register"
        /\ host' = [host EXCEPT ![h].pc = "receipt", ![h].at = t]
        /\ Send(h, "receipt", {ValidationEvent(0, t)})
        /\ UNCHANGED <<enclave, sealed, delivered>>

VerifyOptions(trust, nonce, t) ==
    [registry |-> standard, trust |-> trust, purpose |-> "evidence", now |-> t, skew |-> 1,
     requireCheckpoint |-> FALSE, maxCheckpointAge |-> Never, witnessThreshold |-> 0,
     requireAttestation |-> FALSE, nitro |-> NitroOptions(nonce, t), authorize |-> {},
     resolve |-> {}]

HostOnReceipt(h, t) ==
    /\ host[h].pc = "receipt"
    /\ \E m \in Reply(h, "receipt") : \E env \in m.body :
       \E good \in {verifyEnvelope(env, VerifyOptions(The(host[h].trust), The(host[h].nonce), t))
                        .overall = "pass"} :
         LET receipts == Append(host[h].receipts, [env |-> env, good |-> good, at |-> t])
             done == Len(receipts) = Count
         IN  /\ host' = [host EXCEPT ![h].receipts = receipts,
                           ![h].pc = IF done THEN "done" ELSE "receipt",
                           ![h].passed = done /\ \A i \in 1..Len(receipts) : receipts[i].good]
             /\ IF done THEN wire' = [wire EXCEPT ![h] = {}]
                ELSE Send(h, "receipt", {ValidationEvent(Len(receipts), host[h].at)})
             /\ UNCHANGED <<enclave, sealed, delivered>>

(* An error answer, or none in time: the collection throws and the         *)
(* connection is destroyed.  A request already sent may still arrive.      *)
HostFails(h) ==
    /\ host[h].pc \in {"hello", "register", "receipt"}
    /\ host' = [host EXCEPT ![h].pc = "failed"]
    /\ wire' = [wire EXCEPT ![h] = {m \in @ : m.to = "enclave"}]
    /\ UNCHANGED <<enclave, sealed, delivered>>

(* A collector is run again. *)
HostAgain(h) ==
    /\ host[h].pc = "failed"
    /\ host' = [host EXCEPT ![h] = [IdleHost EXCEPT !.runs = host[h].runs + 1]]
    /\ UNCHANGED <<enclave, wire, sealed, delivered>>
=============================================================================
