------------------------------- MODULE Nitro -------------------------------
(***************************************************************************)
(* The verifier of AWS Nitro attestation documents, nitro/attestation.ts,  *)
(* with the trust bundle of nitro/trust-root.ts.  A document is what its   *)
(* CBOR holds, or one that does not decode; a certificate says who is its  *)
(* subject and issuer, which key it holds and which key signed it.  The    *)
(* P-384 and DER encodings are left out.                                   *)
(***************************************************************************)
EXTENDS Trust

REQUIRED == {"structure", "trust_root", "certificate_chain", "cose_signature", "debug_mode",
             "pcr_policy", "pcr8_signing", "key_binding", "public_key", "freshness"}

Zero == "zero"   \* 48 zero bytes

keyBindingUserData(keyId, entry) == <<"cool.nitro.key-binding.v1", keyId, entry>>
ed25519Spki(entry) == <<"spki", entry>>

(* trustBundleFromDer(): the roots a verifier chains to, and until when.   *)
trustBundleFromDer(id, roots, expiresAt) == [id |-> id, roots |-> roots, expiresAt |-> expiresAt]

(* decodeDocument(): it decodes, and every field is there and well formed. *)
decodeDocument(doc) ==
    /\ doc.decodes /\ doc.timestamp > 0
    /\ DOMAIN doc.pcrs # {} /\ DOMAIN doc.pcrs \subseteq 0..31
    /\ doc.cabundle # <<>>

(* verifyChain(): from the root to the leaf, each certificate is valid at  *)
(* the time and issued and signed by the CA before it.                     *)
verifyChain(doc, at) ==
    LET chain == Append(doc.cabundle, doc.certificate)
        problem(i) ==
            LET c == chain[i] IN firstOf(<<
                <<at < c.from, "certificate_not_yet_valid">>,
                <<at > c.to, "certificate_expired">>,
                <<i > 1 /\ ~chain[i - 1].ca, "ca_flag_missing">>,
                <<i > 1 /\ c.issuer # chain[i - 1].subject, "chain_issuer_mismatch">>,
                <<i > 1 /\ c.signedBy # chain[i - 1].key, "chain_signature_invalid">>,
                <<TRUE, "none">> >>)
        bad == {i \in 1..Len(chain) : problem(i) # "none"}
    IN  IF bad # {} THEN fail(problem(CHOOSE i \in bad : \A j \in bad : i <= j))
        ELSE IF doc.certificate.ca THEN fail("leaf_is_ca") ELSE pass

(* verifyCoseSignature(): over the payload, by the leaf's key. *)
verifyCoseSignature(doc) ==
    IF doc.signedBy = doc.certificate.key THEN pass ELSE fail("signature_invalid")

(* verifyDebug() *)
verifyDebug(doc) ==
    IF \A i \in 0..2 : i \in DOMAIN doc.pcrs /\ doc.pcrs[i] = Zero
    THEN fail("debug_enclave") ELSE pass

(* verifyPcrs(): policy is {} or {the policy}. *)
verifyPcrs(doc, policy) ==
    IF policy = {} THEN check("not_checked", "no_policy")
    ELSE LET p == CHOOSE p \in policy : TRUE
         IN  firstOf(<<
                <<~(0..2 \subseteq DOMAIN p.pcrs), check("unknown", "policy_incomplete")>>,
                <<~(DOMAIN p.pcrs \subseteq DOMAIN doc.pcrs), fail("pcr_missing")>>,
                <<\E i \in DOMAIN p.pcrs \cap DOMAIN doc.pcrs : doc.pcrs[i] # p.pcrs[i], fail("pcr_mismatch")>>,
                <<TRUE, pass>> >>)

(* PCR8 names the certificate the image was signed with. *)
verifyPcr8(doc, policy) ==
    IF policy = {} THEN check("not_checked", "no_policy")
    ELSE LET p == CHOOSE p \in policy : TRUE
         IN  firstOf(<<
                <<~(0..2 \subseteq DOMAIN p.pcrs), check("unknown", "policy_incomplete")>>,
                <<p.pcr8 = "not_applicable", check("not_applicable", "image_not_signed")>>,
                <<8 \notin DOMAIN doc.pcrs, fail("pcr_missing")>>,
                <<8 \in DOMAIN doc.pcrs /\ doc.pcrs[8] # p.pcr8, fail("pcr8_mismatch")>>,
                <<TRUE, pass>> >>)

(* verifyBinding(): user_data binds the key; key is {} or {[id, entry]}. *)
verifyBinding(doc, key) ==
    IF key = {} THEN check("not_checked", "no_receipt_key")
    ELSE LET k == CHOOSE k \in key : TRUE
         IN  firstOf(<<<<doc.user_data = {}, fail("user_data_absent")>>,
                       <<doc.user_data # {keyBindingUserData(k.id, k.entry)},
                            fail("key_binding_mismatch")>>,
                       <<TRUE, pass>> >>)

(* The public_key field, unless the policy has another use for it. *)
verifyPublicKey(doc, policy, key) ==
    firstOf(<<<<\E p \in policy : p.publicKey = "unused",
                  check("not_applicable", "public_key_unused")>>,
              <<key = {}, check("not_checked", "no_receipt_key")>>,
              <<doc.public_key = {}, fail("public_key_absent")>>,
              <<\A k \in key : doc.public_key # {ed25519Spki(k.entry)},
                  fail("public_key_mismatch")>>,
              <<TRUE, pass>> >>)

(* verifyFreshness(): the challenge that was issued and not yet used, or a *)
(* document that is young enough; f is {} or {the rule}.                   *)
verifyFreshness(doc, freshness, now) ==
    IF freshness = {} THEN check("not_checked", "freshness_policy_absent")
    ELSE LET f   == CHOOSE f \in freshness : TRUE
             age == now - doc.timestamp
         IN  IF f.mode = "nonce"
             THEN firstOf(<<<<doc.nonce = {}, fail("nonce_absent")>>,
                            <<doc.nonce # {f.expected}, fail("nonce_mismatch")>>,
                            <<f.expected \in f.ledger, fail("nonce_replayed")>>,
                            <<TRUE, pass>> >>)
             ELSE firstOf(<<<<age < -f.skew, fail("timestamp_in_future")>>,
                            <<age > f.maxAge, fail("attestation_stale")>>,
                            <<TRUE, pass>> >>)

(* verifyNitroAttestation(): no claim is looked at before root, chain and  *)
(* signature have passed.                                                  *)
verifyNitroAttestation(doc, o) ==
    LET skipped   == check("not_checked", "structure_invalid")
        unclaimed == check("not_checked", "claims_unverified")
        root == firstOf(<<
            <<doc.cabundle[1] \notin o.trustBundle.roots, fail("untrusted_root")>>,
            <<o.trustBundle.expiresAt # Never /\ o.now > o.trustBundle.expiresAt,
                check("unknown", "trust_bundle_stale")>>,
            <<TRUE, pass>> >>)
        chain == verifyChain(doc, IF o.certificateTime = "now" THEN o.now ELSE doc.timestamp)
        sig   == verifyCoseSignature(doc)
        verified == {root.status, chain.status, sig.status} = {"pass"}
        claim(c) == IF verified THEN c ELSE unclaimed
        checks == IF ~decodeDocument(doc)
                  THEN [n \in REQUIRED |->
                          IF n = "structure" THEN fail("malformed") ELSE skipped]
                  ELSE [structure |-> pass, trust_root |-> root, certificate_chain |-> chain,
                        cose_signature |-> sig, debug_mode |-> claim(verifyDebug(doc)),
                        pcr_policy |-> claim(verifyPcrs(doc, o.policy)),
                        pcr8_signing |-> claim(verifyPcr8(doc, o.policy)),
                        key_binding |-> claim(verifyBinding(doc, o.receiptKey)),
                        public_key |-> claim(verifyPublicKey(doc, o.policy, o.receiptKey)),
                        freshness |-> claim(verifyFreshness(doc, o.freshness, o.now))]
    IN  [checks |-> checks, overall |-> overallOf(checks, REQUIRED)]
=============================================================================
