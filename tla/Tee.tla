-------------------------------- MODULE Tee --------------------------------
(***************************************************************************)
(* The adapters of platform/tee.ts, one per platform, and the four claims  *)
(* nitro/normalize.ts reduces a report of Nitro or TDX to.                 *)
(***************************************************************************)
EXTENDS Nitro, Snp, Nvidia

CLAIMS == {"platform_attestation", "workload_measurement", "key_binding", "freshness"}

(* fromTdx(): what is simulated, pending or absent is never a pass. *)
fromTdx(domain, name) ==
    CASE domain.status \in {"pass", "fail"}      -> check(domain.status, name)
      [] domain.status \in {"simulated", "mock"} -> check("unknown", "simulated_not_hardware")
      [] domain.status \in {"pending", "absent"} -> check("unknown", name)

(* combine(): the first failure, else the first open question, else a pass.*)
combine(checks) ==
    LET having(S) == {i \in 1..Len(checks) : checks[i].status \in S}
        first(S)  == checks[CHOOSE i \in having(S) : \A j \in having(S) : i <= j]
    IN  CASE having({"fail"}) # {} -> first({"fail"})
          [] having({"fail"}) = {} /\ having({"unknown", "not_checked"}) # {} ->
                 first({"unknown", "not_checked"})
          [] having({"fail", "unknown", "not_checked"}) = {} ->
                 IF having({"pass"}) # {} THEN first({"pass"}) ELSE checks[1]

finish(claims) == [claims |-> claims, overall_status |-> overallOf(claims, CLAIMS)]

(* normalizeTdx(): a receipt says nothing of freshness. *)
normalizeTdx(verdict) ==
    finish([platform_attestation |-> fromTdx(verdict.checks.attestation, "attestation"),
            workload_measurement |-> fromTdx(verdict.checks.enclave, "enclave"),
            key_binding |-> fromTdx(verdict.checks.enclave, "enclave"),
            freshness |-> check("not_checked", "no_freshness_check")])

normalizeNitro(report) ==
    LET c == report.checks IN
    finish([platform_attestation |->
                combine(<<c.structure, c.trust_root, c.certificate_chain, c.cose_signature>>),
            workload_measurement |-> combine(<<c.debug_mode, c.pcr_policy, c.pcr8_signing>>),
            key_binding |-> combine(<<c.key_binding, c.public_key>>),
            freshness |-> c.freshness])

STALE_REASONS == {"attestation_stale", "certificate_expired", "trust_bundle_stale"}

(* outcomeOf(): stale only when nothing genuinely fails. *)
outcomeOf(n) ==
    LET claims == {n.claims[k] : k \in CLAIMS} IN
    IF n.overall_status = "pass" THEN "verified"
    ELSE IF \E c \in claims : c.status = "fail" /\ c.reason \notin STALE_REASONS THEN "invalid"
    ELSE IF \E c \in claims : c.reason \in STALE_REASONS THEN "stale" ELSE "indeterminate"

nitroAdapter(document, options) ==
    LET normalized == normalizeNitro(verifyNitroAttestation(document, options))
    IN  [platform |-> "aws-nitro", outcome |-> outcomeOf(normalized), normalized |-> {normalized}]

(* The verdict is that of verifyReceiptV2(). *)
tdxAdapter(verdict) ==
    LET normalized == normalizeTdx(verdict)
    IN  [platform |-> "intel-tdx", outcome |-> outcomeOf(normalized), normalized |-> {normalized}]

snpAdapter(report, options) ==
    [platform |-> "amd-sev-snp", outcome |-> verifySnpReport(report, options).outcome,
     normalized |-> {}, evidence_digest |-> snpReportDigest(report)]

nvidiaAdapter(result, options) ==
    [platform |-> "nvidia-cc", outcome |-> verifyNrasResult(result, options).outcome,
     normalized |-> {}]
=============================================================================
