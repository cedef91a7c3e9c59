------------------------------- MODULE Bundle -------------------------------
(***************************************************************************)
(* Evidence bundles, platform/bundle.ts: envelopes, the decisions they cite*)
(* and attached objects under one signed manifest, verified offline.       *)
(* The digest of a decision or of an attached body is a term over it.      *)
(***************************************************************************)
EXTENDS Envelope

hashOf(body) == <<"sha256", body>>

(* manifestOf(): what is in the bundle and how often; the sort by digest   *)
(* makes the order immaterial.                                             *)
manifestOf(envelopes, decisions, attachments) ==
    LET entries ==
          [i \in 1..Len(attachments) |-> <<"attachment", attachments[i].kind, attachments[i].digest>>]
          \o [i \in 1..Len(envelopes) |->
                <<"envelope", envelopes[i].core.event_id, envelopes[i].digest>>]
          \o [i \in 1..Len(decisions) |-> <<"decision", decisions[i], hashOf(decisions[i])>>]
    IN  [e \in {entries[i] : i \in 1..Len(entries)} |->
            Cardinality({i \in 1..Len(entries) : entries[i] = e})]

(* exportBundle() *)
exportBundle(envelopes, decisions, bodies, trust, exporter) ==
    LET attachments == [i \in 1..Len(bodies) |->
            [kind |-> bodies[i].kind, digest |-> hashOf(bodies[i].body), body |-> bodies[i].body]]
        manifest == manifestOf(envelopes, decisions, attachments)
    IN  [envelopes |-> envelopes, decisions |-> decisions, attachments |-> attachments,
         trust_snapshot |-> trust, manifest |-> manifest, signature |-> sign(exporter, manifest),
         exporter_key |-> [key_id |-> exporter.id, entry |-> exporter.key]]

(* Mutant: contiguity counts from the lowest number in the bundle. *)
gapsFromLowest(numbers) ==
    {n \in UNION {0..k : k \in numbers} : \E k \in numbers : k < n} \ numbers

(* The numbers below the highest that are missing. *)
gaps(numbers) == (UNION {0..k : k \in numbers}) \ numbers

(* The numbers in a bundle of each epoch: sequences are told apart by      *)
(* their epoch alone.                                                      *)
numbersOf(bundle, epoch) ==
    UNION {{s.number : s \in {q \in bundle.envelopes[i].core.sequence : q.epoch = epoch}} :
               i \in 1..Len(bundle.envelopes)}

epochsOf(bundle) ==
    UNION {{s.epoch : s \in bundle.envelopes[i].core.sequence} : i \in 1..Len(bundle.envelopes)}

sequenceCheck(bundle) ==
    firstOf(<<<<epochsOf(bundle) = {}, check("not_applicable", "no_sequences")>>,
              <<\E e \in epochsOf(bundle) : gaps(numbersOf(bundle, e)) # {}, fail("sequence_gap")>>,
              <<TRUE, pass>> >>)

(* What a bundle is checked for, given the reports on its envelopes. *)
bundleChecks(bundle, reports, ownTrust) ==
    LET exporterOk == /\ hybridVerify(bundle.manifest, bundle.signature, bundle.exporter_key.entry)
                      /\ bundle.signature.key_id = bundle.exporter_key.key_id
        some(status) == \E i \in DOMAIN reports : reports[i].overall = status
        decided    == {hashOf(bundle.decisions[i]) : i \in 1..Len(bundle.decisions)}
    IN  [manifest_valid |->
            IF manifestOf(bundle.envelopes, bundle.decisions, bundle.attachments) = bundle.manifest
            THEN pass ELSE fail("manifest_mismatch"),
         exporter_signature_valid |->
            IF exporterOk THEN pass ELSE fail("exporter_signature_invalid"),
         trust_source |->
            IF Given(ownTrust) THEN pass ELSE check("unknown", "self_asserted_trust"),
         envelopes_valid |->
            firstOf(<<<<some("fail"), fail("envelope_failed")>>,
                      <<some("unknown"), check("unknown", "envelope_unknown")>>,
                      <<TRUE, pass>> >>),
         evidence_complete |->
            IF \E i \in DOMAIN reports : reports[i].checks.evidence_complete.status = "fail"
            THEN fail("missing_evidence") ELSE pass,
         decisions_bound |->
            IF \A i \in 1..Len(bundle.envelopes) : bundle.envelopes[i].core.policy \subseteq decided
            THEN pass ELSE fail("decision_missing"),
         attachments_bound |->
            firstOf(<<<<\E i \in 1..Len(bundle.attachments) :
                          hashOf(bundle.attachments[i].body) # bundle.attachments[i].digest,
                          fail("attachment_mismatch")>>,
                      <<bundle.attachments = <<>>, check("not_applicable", "no_attachments")>>,
                      <<TRUE, pass>> >>),
         sequence_complete |-> sequenceCheck(bundle)]

(* verifyBundle(): ownTrust is the verifier's own trust snapshot, if any. *)
verifyBundle(bundle, opt, ownTrust) ==
    LET trust   == IF Given(ownTrust) THEN The(ownTrust) ELSE bundle.trust_snapshot
        carried == {bundle.envelopes[i].digest : i \in 1..Len(bundle.envelopes)}
        reports == [i \in 1..Len(bundle.envelopes) |->
                      verifyEnvelope(bundle.envelopes[i],
                          [opt EXCEPT !.trust = trust, !.resolve = {carried}])]
        checks  == bundleChecks(bundle, reports, ownTrust)
    IN  verdictOf(checks, DOMAIN checks)
=============================================================================
