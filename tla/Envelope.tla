------------------------------ MODULE Envelope ------------------------------
(***************************************************************************)
(* The platform envelope: payload schemas (platform/payloads.ts), building *)
(* and signing an envelope and verifying it (platform/envelope.ts).        *)
(*                                                                         *)
(* Hashes and signatures are ideal: the digest of a core is a term over it,*)
(* a signature says which private key made it and over what, a public key  *)
(* is the name of its private key.  A field value is the set of the field  *)
(* types it satisfies.  An optional value is a set of at most one element. *)
(***************************************************************************)
EXTENDS Nitro, Merkle

Given(option) == option # {}
The(option) == CHOOSE x \in option : TRUE

-----------------------------------------------------------------------------
(* FAMILIES: the event types the model seals, and their fields.            *)
r(type) == [type |-> type, required |-> TRUE]
o(type) == [type |-> type, required |-> FALSE]

FAMILIES ==
    [ai_inference |->
        [model |-> r("string"), model_version |-> r("string"),
         weights_digest |-> o("digest"), input_commitment |-> r("digest"),
         output_commitment |-> r("digest"), params_digest |-> o("digest")]]

SENSITIVE_NAME == {"secret", "password", "token", "private_key", "credential"}

(* A registry maps a schema id, its event type and version, to its fields. *)
standard == [id \in {<<t, 1>> : t \in DOMAIN FAMILIES} |-> FAMILIES[id[1]]]

(* schemaFor(): the highest version registered for the event type. *)
schemaFor(registry, eventType) ==
    LET ids == {id \in DOMAIN registry : id[1] = eventType}
    IN  {id \in ids : \A other \in ids : other[2] <= id[2]}

(* validate(): no unexpected field, every required one, each of its type,  *)
(* and anything named like a secret only as a digest.                      *)
validate(registry, id, payload) ==
    /\ id \in DOMAIN registry
    /\ DOMAIN payload \subseteq DOMAIN registry[id]
    /\ \A f \in DOMAIN registry[id] :
          IF f \in DOMAIN payload
          THEN /\ registry[id][f].type \in payload[f]
               /\ f \in SENSITIVE_NAME => "digest" \in payload[f]
          ELSE ~registry[id][f].required

-----------------------------------------------------------------------------
(* createEnvelope(): the core, or none when it throws.  refs are those of  *)
(* the provenance and of the relations; the source, actor, action and      *)
(* resource are left out.                                                  *)
createEnvelope(input, registry) ==
    LET id == IF Given(input.payload_schema) THEN input.payload_schema
              ELSE schemaFor(registry, input.event_type)
    IN  IF /\ Given(id) /\ The(id) \in DOMAIN registry /\ The(id)[1] = input.event_type
           /\ validate(registry, The(id), input.payload)
        THEN {[event_id |-> input.event_id, event_type |-> input.event_type,
               payload_schema |-> The(id), payload |-> input.payload,
               occurred_at |-> input.occurred_at, observed_at |-> input.observed_at,
               refs |-> input.refs, policy |-> input.policy,
               sequence |-> input.sequence, attestation_ref |-> input.attestation]}
        ELSE {}

canonicalize(core) == <<"cbor-cde", core>>
commit(bytes) == <<"cool.envelope.v1", bytes>>
signatureMessage(digest) == <<"cool.envelope.sig.v1", digest>>
envelopeLeaf(env) == env.digest

(* Signer, localSigner() and asSigner(): a key signs under its own id. *)
sign(signer, message) ==
    [key_id |-> signer.id, signedBy |-> signer.key, over |-> message]

(* signEnvelope() and signEnvelopeAsync(), for a sequence of signers. *)
signEnvelope(core, signers) ==
    LET digest == commit(canonicalize(core))
    IN  [core |-> core, core_cbor |-> canonicalize(core), digest |-> digest,
         signatures |-> [i \in 1..Len(signers) |->
                            sign(signers[i], signatureMessage(digest))],
         key_directory |-> [id \in {signers[i].id : i \in 1..Len(signers)} |->
             (CHOOSE s \in {signers[i] : i \in 1..Len(signers)} : s.id = id).key],
         attestation |-> core.attestation_ref, checkpoint |-> {}]

(* withCheckpoint() *)
withCheckpoint(env, cp) == [env EXCEPT !.checkpoint = {cp}]

-----------------------------------------------------------------------------
(* The message of a signed tree head, sthSigningMessage(sthCore(sth)). *)
sthMessage(cp) == <<"sth", cp.size, cp.root, cp.timestamp>>

(* The checks of verifyEnvelope(), one operator each, in its order. *)
schemaCheck(env, opt) ==
    IF /\ env.core.payload_schema \in DOMAIN opt.registry
       /\ env.core.payload_schema[1] = env.core.event_type
       /\ validate(opt.registry, env.core.payload_schema, env.core.payload)
    THEN pass ELSE fail("payload_invalid")

canonicalCheck(env) ==
    firstOf(<<<<env.core_cbor[1] # "cbor-cde", fail("non_canonical_encoding")>>,
              <<canonicalize(env.core) # env.core_cbor, fail("core_mismatch")>>,
              <<TRUE, pass>> >>)

digestCheck(env) ==
    firstOf(<<<<canonicalCheck(env).status # "pass", notChecked>>,
              <<commit(env.core_cbor) # env.digest, fail("digest_mismatch")>>,
              <<TRUE, pass>> >>)

hybridVerify(message, sig, entry) == sig.signedBy = entry /\ sig.over = message

(* Every signature verifies with the key that travels under its id. *)
signatureCheck(env) ==
    firstOf(<<
        <<digestCheck(env).status # "pass", notChecked>>,
        <<env.signatures = <<>>, fail("unsigned")>>,
        <<\E i \in 1..Len(env.signatures) : LET s == env.signatures[i] IN
            \/ s.key_id \notin DOMAIN env.key_directory
            \/ ~hybridVerify(signatureMessage(env.digest), s, env.key_directory[s.key_id]),
            fail("signature_invalid")>>,
        <<TRUE, pass>> >>)

noCheckpoint(opt) ==
    IF opt.requireCheckpoint THEN fail("checkpoint_required")
    ELSE check("not_checked", "no_checkpoint")

inclusionCheck(env, opt) ==
    IF ~Given(env.checkpoint) THEN noCheckpoint(opt)
    ELSE IF digestCheck(env).status # "pass" THEN notChecked
    ELSE LET cp == The(env.checkpoint)
         IN  IF verifyInclusion(leafHash(envelopeLeaf(env)), cp.index, cp.size,
                                cp.path, cp.root)
             THEN pass ELSE fail("inclusion_invalid")

(* The witnesses on a head that the verifier trusts and that verify. *)
witnessKeys(cp, opt) ==
    {i \in 1..Len(cp.witnesses) : LET w == cp.witnesses[i] IN
        /\ w.external /\ Known(opt.trust, w.key_id)
        /\ evaluate(opt.trust, w.key_id, "witness", opt.now, Never, Never).status = "pass"
        /\ hybridVerify(sthMessage(cp), w.signature, opt.trust.keys[w.key_id].key)}

(* The head: its signature, the log's key as it is trusted now, its age    *)
(* and its witnesses.                                                      *)
checkpointCheck(env, opt) ==
    IF ~Given(env.checkpoint) THEN noCheckpoint(opt)
    ELSE IF digestCheck(env).status # "pass" THEN notChecked
    ELSE LET cp  == The(env.checkpoint)
             id  == cp.signature.key_id
             log == evaluate(opt.trust, id, "log", opt.now, Never, Never)
         IN  firstOf(<<
                <<~Known(opt.trust, id)
                    \/ ~hybridVerify(sthMessage(cp), cp.signature, opt.trust.keys[id].key),
                    fail("checkpoint_signature_invalid")>>,
                <<log.status # "pass", log>>,
                <<opt.maxCheckpointAge # Never /\ opt.now - cp.timestamp > opt.maxCheckpointAge,
                    check("unknown", "checkpoint_stale")>>,
                <<Cardinality(witnessKeys(cp, opt)) < opt.witnessThreshold,
                    fail("insufficient_witnesses")>>,
                <<TRUE, pass>> >>)

(* Mutant: the stated time counts once there is a checkpoint. *)
provenBeforeStated(env, opt) ==
    IF checkpointCheck(env, opt).status = "pass" THEN env.core.observed_at ELSE Never

(* Mutant: the time of verification counts once there is a checkpoint. *)
provenBeforeNow(env, opt) ==
    IF checkpointCheck(env, opt).status = "pass" THEN opt.now ELSE Never

(* A trusted checkpoint that includes the envelope proves when it existed. *)
provenBefore(env, opt) ==
    IF /\ checkpointCheck(env, opt).status = "pass"
       /\ inclusionCheck(env, opt).status = "pass"
    THEN The(env.checkpoint).timestamp ELSE Never

(* The first answer that fails, else the first that is unknown, else the   *)
(* first.                                                                  *)
worstOf(results) ==
    LET having(status) == {i \in DOMAIN results : results[i].status = status}
        first(S) == CHOOSE i \in S : \A j \in S : i <= j
    IN  IF having("fail") # {} THEN results[first(having("fail"))]
        ELSE IF having("unknown") # {} THEN results[first(having("unknown"))]
        ELSE results[1]

(* Every signer is trusted; the worst answer counts. *)
trustedCheck(env, opt) ==
    LET result(i) == evaluate(opt.trust, env.signatures[i].key_id, opt.purpose, opt.now,
                              env.core.observed_at, provenBefore(env, opt))
    IN  IF signatureCheck(env).status # "pass" THEN notChecked
        ELSE worstOf([i \in 1..Len(env.signatures) |-> result(i)])

(* authorize is the caller's policy: it maps a signer's key id to a check. *)
authorizedCheck(env, opt) ==
    firstOf(<<<<~Given(opt.authorize), check("not_checked", "no_policy_context")>>,
              <<trustedCheck(env, opt).status # "pass", notChecked>>,
              <<TRUE, LET id == env.signatures[1].key_id IN
                      IF \E f \in opt.authorize : id \in DOMAIN f
                      THEN The(opt.authorize)[id] ELSE fail("not_authorized")>> >>)

timestampCheck(env, opt) ==
    LET c == env.core IN
    firstOf(<<
        <<c.occurred_at > c.observed_at + opt.skew, fail("occurred_after_observed")>>,
        <<c.observed_at > opt.now + opt.skew, fail("time_in_future")>>,
        <<Given(env.checkpoint) /\ checkpointCheck(env, opt).status = "pass"
            /\ c.observed_at > The(env.checkpoint).timestamp + opt.skew,
            fail("observed_after_checkpoint")>>,
        <<TRUE, pass>> >>)

(* The attached document is the one the core names, and it attests the     *)
(* first signer's key.                                                     *)
attestationCheck(env, opt) ==
    IF ~Given(env.attestation)
    THEN IF opt.requireAttestation THEN fail("attestation_required")
         ELSE check("not_applicable", "no_attestation")
    ELSE IF signatureCheck(env).status # "pass" THEN notChecked
    ELSE IF env.attestation # env.core.attestation_ref THEN fail("attestation_not_bound")
    ELSE LET id      == env.signatures[1].key_id
             options == [trustBundle |-> opt.nitro.trustBundle, policy |-> opt.nitro.policy,
                         receiptKey |-> {[id |-> id, entry |-> env.key_directory[id]]},
                         freshness |-> opt.nitro.freshness, now |-> opt.nitro.now,
                         certificateTime |-> opt.nitro.certificateTime]
             overall == verifyNitroAttestation(The(env.attestation), options).overall
         IN  IF overall = "pass" THEN pass ELSE check(overall, "attestation_not_valid")

(* resolve is the caller's store of evidence: a set of digests. *)
completeCheck(env, opt) ==
    firstOf(<<<<~Given(opt.resolve), check("not_checked", "no_resolver")>>,
              <<\E store \in opt.resolve : ~(env.core.refs \subseteq store), fail("missing_evidence")>>,
              <<TRUE, pass>> >>)

ENVELOPE_CHECKS == {"schema_valid", "canonical_encoding_valid", "digest_valid",
    "signature_valid", "signer_trusted", "signer_authorized", "timestamp_valid",
    "inclusion_proof_valid", "checkpoint_trusted", "attestation_valid", "evidence_complete"}

(* verifyEnvelope(): an envelope of an invalid schema is not looked into.  *)
verifyEnvelope(env, opt) ==
    LET schema   == schemaCheck(env, opt)
        checks   ==
            IF schema.status = "fail"
            THEN [n \in ENVELOPE_CHECKS |-> IF n = "schema_valid" THEN schema ELSE notChecked]
            ELSE [schema_valid |-> schema, canonical_encoding_valid |-> canonicalCheck(env),
                  digest_valid |-> digestCheck(env), signature_valid |-> signatureCheck(env),
                  signer_trusted |-> trustedCheck(env, opt),
                  signer_authorized |-> authorizedCheck(env, opt),
                  timestamp_valid |-> timestampCheck(env, opt),
                  inclusion_proof_valid |-> inclusionCheck(env, opt),
                  checkpoint_trusted |-> checkpointCheck(env, opt),
                  attestation_valid |-> attestationCheck(env, opt),
                  evidence_complete |-> completeCheck(env, opt)]
        required ==
            IF schema.status = "fail" THEN {"schema_valid"}
            ELSE ENVELOPE_CHECKS \
                 ((IF Given(env.checkpoint) \/ opt.requireCheckpoint THEN {}
                   ELSE {"inclusion_proof_valid", "checkpoint_trusted"})
                  \cup (IF Given(opt.authorize) THEN {} ELSE {"signer_authorized"})
                  \cup (IF Given(opt.resolve) THEN {} ELSE {"evidence_complete"}))
    IN  verdictOf(checks, required)
=============================================================================
