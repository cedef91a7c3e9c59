-------------------------------- MODULE Trust --------------------------------
(***************************************************************************)
(* The trust snapshot of platform/trust.ts and the signed objects of       *)
(* authz/signed.ts.  Signatures and digests are ideal: a public key is the *)
(* name of its owner's private key, an object says which private key signed*)
(* it, which public key travels with it and which key id it names.         *)
(* Times are integers, Never stands for a time that is not given.          *)
(***************************************************************************)
EXTENDS Checks

Never == -1

(* A snapshot: a record per trusted key id, its as_of time, its max_age. *)
Known(trust, id) == id \in DOMAIN trust.keys

(* evaluate(): is the key trusted for the purpose?  claimed is the signing *)
(* time the evidence states, proven the one a trusted checkpoint proves.   *)
evaluate(trust, id, purpose, now, claimed, proven) ==
    IF ~Known(trust, id) THEN fail("untrusted_key")
    ELSE
    LET k     == trust.keys[id]
        at    == IF proven # Never THEN proven ELSE IF claimed # Never THEN claimed ELSE now
        since == IF k.since # Never THEN k.since ELSE k.valid_from
        unproven == proven = Never \/ proven >= since
    IN  firstOf(<<
          <<purpose \notin k.purposes, fail("wrong_key_purpose")>>,
          <<at < k.valid_from, fail("key_not_yet_valid")>>,
          <<k.valid_until # Never /\ at > k.valid_until, fail("key_expired")>>,
          <<k.status = "compromised" /\ unproven, fail("key_compromised")>>,
          <<k.status = "revoked" /\ unproven, fail("key_revoked")>>,
          <<k.status = "rotated" /\ k.since # Never /\ at > k.since, fail("key_rotated")>>,
          <<trust.max_age > 0 /\ now - trust.as_of > trust.max_age,
              check("unknown", "trust_snapshot_stale")>>,
          <<TRUE, pass>> >>)

-----------------------------------------------------------------------------
(* signObject(): the body, its digest, a signature and the public key. *)
signObject(body, id, key) ==
    [body |-> body, digested |-> body, id |-> id, signedBy |-> key, carried |-> key]

(* verifyIntegrity(): expected is the public key the verifier knows, if any. *)
verifyIntegrity(s, expected) ==
    LET intact    == s.body = s.digested
        key       == IF expected = {} THEN s.carried ELSE CHOOSE k \in expected : TRUE
        signature == firstOf(<<
            <<~intact, notChecked>>,
            <<key # s.carried, fail("key_substitution")>>,
            <<s.signedBy # key, fail("signature_invalid")>>,
            <<TRUE, pass>> >>)
    IN  [integrity |-> IF intact THEN pass ELSE fail("digest_mismatch"),
         signature |-> signature]

(* verifyTrusted(): against the key the snapshot has for the id it names. *)
verifyTrusted(s, trust, purpose, now) ==
    LET v == verifyIntegrity(s, IF Known(trust, s.id) THEN {trust.keys[s.id].key} ELSE {})
    IN  [integrity |-> v.integrity, signature |-> v.signature,
         trusted |-> IF v.signature.status # "pass" THEN notChecked
                     ELSE evaluate(trust, s.id, purpose, now, Never, Never)]
=============================================================================
