------------------------------- MODULE Nvidia -------------------------------
(***************************************************************************)
(* The verifier of results of NVIDIA's remote attestation service (NRAS),  *)
(* nvidia/index.ts.  A result is an overall token and a token per GPU; a   *)
(* token says under which kid and by which key it was signed and carries   *)
(* the claims that were signed.  Base64 and JSON are left out: a result    *)
(* that does not parse says so.  An optional claim is a set of at most one *)
(* element.                                                                *)
(***************************************************************************)
EXTENDS Checks

NRAS_CHECKS == {"format", "key_chain", "signatures", "freshness", "nonce", "overall_result",
                "submods", "gpu_claims", "cpu_binding"}

NRAS_ISSUER == "nras"

cpuBindingNonce(cpuReportData) == <<"cool.gpu-binding.v1", cpuReportData>>

(* sha256hex() of a token or of its claims. *)
sha256hex(x) == <<"SHA256", x>>

(* The overall token and those of the GPUs. *)
allTokens(result) == {result.overall} \cup {result.gpus[id] : id \in DOMAIN result.gpus}

formatProblem(t, opt) ==
    firstOf(<<<<t.alg # "ES384", "unsupported_algorithm">>,
              <<t.kid \notin DOMAIN opt.jwks, "unknown_key">>, <<TRUE, "none">> >>)

(* The problems with the key of a token whose kid is known.  The issuer is *)
(* looked for among the anchors, then among the certificates that came with*)
(* the key; only an anchor will do.                                        *)
chainProblems(t, opt) ==
    LET jwk   == opt.jwks[t.kid]
        leaf  == jwk.x5c[1]
        issued(c) == leaf.issuer = c.subject /\ leaf.signedBy = c.key
        pinned   == {c \in opt.anchors : issued(c)}
        supplied == {jwk.x5c[i] : i \in {j \in 2..Len(jwk.x5c) : jwk.x5c[j].parses /\ issued(jwk.x5c[j])}}
        iat   == IF t.claims.iat = {} THEN opt.now ELSE CHOOSE x \in t.claims.iat : TRUE
    IN  IF jwk.x5c = <<>> \/ ~leaf.parses THEN {"chain_invalid"}
        ELSE (IF pinned \cup supplied = {} THEN {"chain_invalid"}
              ELSE IF pinned = {} THEN {"untrusted_root"}
              ELSE IF iat < leaf.from - opt.skew \/ iat > leaf.to + opt.skew THEN {"chain_invalid"}
              ELSE {})
             \cup (IF jwk.xy # {} /\ jwk.xy # {leaf.key} THEN {"chain_invalid"} ELSE {})

tokenSigned(t, opt) == t.signature = [by |-> opt.jwks[t.kid].x5c[1].key, over |-> t.claims]

(* format, key_chain and signatures: each needs the one before it. *)
keyChecks(tokens, opt) ==
    LET formats == {formatProblem(t, opt) : t \in tokens} \ {"none"}
        chains  == IF formats # {} THEN {} ELSE UNION {chainProblems(t, opt) : t \in tokens}
        bad     == IF formats \cup chains # {} THEN {} ELSE {t \in tokens : ~tokenSigned(t, opt)}
    IN  [format |-> IF formats = {} THEN pass
                    ELSE IF "unsupported_algorithm" \in formats THEN fail("unsupported_algorithm")
                    ELSE fail("unknown_key"),
         key_chain |-> IF formats # {} THEN notChecked
                       ELSE IF chains = {} THEN pass
                       ELSE IF "untrusted_root" \in chains THEN fail("untrusted_root")
                       ELSE fail("chain_invalid"),
         signatures |-> IF formats \cup chains # {} THEN notChecked
                        ELSE IF bad = {} THEN pass ELSE fail("signature_invalid")]

(* A token without exp counts as expired. *)
nrasFreshness(tokens, opt) ==
    firstOf(<<
        <<\E t \in tokens : \E x \in t.claims.iat : x > opt.now + opt.skew, fail("issued_in_future")>>,
        <<\E t \in tokens : ~\E x \in t.claims.exp : opt.now <= x + opt.skew,
            check("unknown", "attestation_stale")>>,
        <<TRUE, pass>> >>)

nrasNonce(tokens, opt) ==
    firstOf(<<
        <<opt.expectedNonce = {}, check("unknown", "no_nonce_policy")>>,
        <<\E t \in tokens : t.claims.eat_nonce # opt.expectedNonce, fail("nonce_mismatch")>>,
        <<TRUE, pass>> >>)

overallResult(overall, opt) ==
    firstOf(<<<<overall.claims.iss # opt.issuer, fail("wrong_issuer")>>,
              <<~overall.claims.result, fail("attestation_failed")>>, <<TRUE, pass>> >>)

(* Mutant: a GPU that is listed counts as bound. *)
submodsListed(result, opt) ==
    IF /\ DOMAIN result.gpus \subseteq DOMAIN result.overall.claims.submods
       /\ \A n \in opt.expectedGpuCount : Cardinality(DOMAIN result.gpus) = n
    THEN pass ELSE fail("submod_unbound")

(* The overall token names the digest of every GPU's token, or that of its *)
(* claims, and as many GPUs are there as are expected.                     *)
submodsBound(result, opt) ==
    LET submods == result.overall.claims.submods
        bound(id) == /\ id \in DOMAIN submods
                     /\ submods[id] \in {sha256hex(result.gpus[id]), sha256hex(result.gpus[id].claims)}
    IN  IF /\ \A id \in DOMAIN result.gpus : bound(id)
           /\ \A n \in opt.expectedGpuCount : Cardinality(DOMAIN result.gpus) = n
        THEN pass ELSE fail("submod_unbound")

(* What NVIDIA's appraisal has to say of a GPU, where it says anything. *)
APPRAISED == [arch_check |-> "true", report_signature_verified |-> "true",
              report_nonce_match |-> "true", dbgstat |-> "disabled", secboot |-> "true"]

gpuClaims(result) ==
    IF \A id \in DOMAIN result.gpus : LET c == result.gpus[id].claims IN
          /\ c.measres = "success"
          /\ \A k \in DOMAIN c.flags \cap DOMAIN APPRAISED : c.flags[k] = APPRAISED[k]
    THEN pass ELSE fail("gpu_appraisal_failed")

cpuBinding(opt) ==
    firstOf(<<<<opt.cpuReportData = {}, check("not_applicable", "no_cpu_report")>>,
              <<opt.expectedNonce # {cpuBindingNonce(d) : d \in opt.cpuReportData},
                  fail("cpu_binding_mismatch")>>,
              <<TRUE, pass>> >>)

(* verifyNrasResult() *)
verifyNrasResult(result, opt) ==
    LET tokens == allTokens(result)
        keys   == keyChecks(tokens, opt)
        checks ==
          IF ~result.parses \/ DOMAIN result.gpus = {}
          THEN [n \in NRAS_CHECKS |-> IF n = "format" THEN fail("malformed") ELSE notChecked]
          ELSE [format |-> keys.format, key_chain |-> keys.key_chain,
                signatures |-> keys.signatures, freshness |-> nrasFreshness(tokens, opt),
                nonce |-> nrasNonce(tokens, opt),
                overall_result |-> overallResult(result.overall, opt),
                submods |-> submodsBound(result, opt), gpu_claims |-> gpuClaims(result),
                cpu_binding |-> cpuBinding(opt)]
    IN  [checks |-> checks, outcome |-> classifyOutcome(checks, NRAS_CHECKS)]
=============================================================================
