------------------------------ MODULE Receipts ------------------------------
(***************************************************************************)
(* Receipts and their verifier: phala/types.ts, phala/structure.ts,        *)
(* phala/quote.ts, phala/witness.ts, phala/verify.ts, phala/disclose.ts.   *)
(* Hashes are what they hash, a signature says by which key over what, a   *)
(* tree head's root is the sequence of its leaves and an audit path the    *)
(* claim it proves (the module Merkle has the real ones).  An optional     *)
(* part of a receipt is a set of at most one.                              *)
(***************************************************************************)
EXTENDS Anchor

Some(set) == CHOOSE x \in set : TRUE
signed(by, id, over) == [key_id |-> id, by |-> by, over |-> over]

(* hybridVerify(): both algorithms, as one ideal signature. *)
hybridVerify(message, signature, entry) == signature.by = entry /\ signature.over = message

domain(status) == [status |-> status]
MODES == {"mock", "simulated", "hardware"}
TEE_VENDORS == {"none", "intel-tdx", "amd-sev-snp", "nvidia-cc"}

(* Checker.runtime(): a record claims hardware only with a quote digest. *)
runtimeShape(runtime) ==
    /\ runtime.tee_vendor \in TEE_VENDORS /\ runtime.mode \in MODES
    /\ runtime.mode = "hardware" => runtime.tee_quote # {}

(* validateReceiptV2Shape(): what relates fields of a well-typed receipt. *)
validateReceiptV2Shape(r) ==
    /\ runtimeShape(r.core.runtime)
    /\ r.core.schema \in {"cool.evidence.v1", "cool.change.v2"}
    /\ \A f \in DOMAIN r.core.commitments :
          LET c == r.core.commitments[f]
          IN  /\ c.hash # {} => c.salt # {}
              /\ r.core.schema = "cool.evidence.v1" /\ c.salt # {} => c.hash # {}
    /\ (r.inclusion = {}) = (r.sth = {})
    /\ \A inc \in r.inclusion : inc.tree_size >= 1
    /\ \A sth \in r.sth : sth.tree_size >= 1
    /\ \A a \in r.anchor : a.tree_size >= 1
    /\ r.attestation.mode \in MODES
    /\ DOMAIN r.key_directory # {}

-----------------------------------------------------------------------------
(* checkQuoteStructure(): simulated quotes without vendor bytes, others with. *)
checkQuoteStructure(quote) == (quote.root = "cool-sim-root") = (quote.raw = {})

(* What the bytes of report_data commit to. *)
enclaveReportData(entry) == <<"report-data", entry>>

(* simulatedQuoteVerifier(): under the simulator's root key in the receipt. *)
simulatedQuoteVerifier(directory, quote) ==
    \E s \in quote.signature :
        /\ s.key_id \in DOMAIN directory
        /\ hybridVerify(quote.body, s, directory[s.key_id])

(* Mutant: whoever sends vendor bytes is believed. *)
remoteQuoteVerifierOpen(quote, genuine) == quote.raw # {}

(* remoteQuoteVerifier(): the service sees the vendor bytes and nothing of *)
(* the body; genuine are the bytes it vouches for.  No bytes, or a service *)
(* that refuses or cannot be reached, is a refusal.                        *)
remoteQuoteVerifier(quote, genuine) == quote.raw # {} /\ quote.raw \subseteq genuine

-----------------------------------------------------------------------------
sthCore(sth) == [log_id |-> sth.log_id, tree_size |-> sth.tree_size,
                 root_hash |-> sth.root_hash, timestamp |-> sth.timestamp]

(* cosign(): a statement about one head. *)
cosign(sth, id, key) ==
    [witness_id |-> id, about |-> sthCore(sth), entry |-> key,
     witness |-> [id |-> id, external |-> TRUE, by |-> key, over |-> sthCore(sth)]]

(* Mutant: the receipt is put together again without its anchor. *)
attachWitnessBare(r, statement) ==
    LET sth == Some(r.sth)
        already == \E i \in 1..Len(sth.witnesses) : sth.witnesses[i].id = statement.witness_id
    IN  [r EXCEPT !.anchor = {},
             !.sth = {IF already THEN sth
                      ELSE [sth EXCEPT !.witnesses = Append(@, statement.witness)]},
             !.key_directory = [i \in DOMAIN @ \cup {statement.witness_id} |->
                 IF i = statement.witness_id THEN statement.entry ELSE @[i]]]

(* attachWitness(): of this very head; a witness is listed once. *)
attachWitness(r, statement) ==
    LET sth == Some(r.sth)
        already == \E i \in 1..Len(sth.witnesses) : sth.witnesses[i].id = statement.witness_id
    IN  [r EXCEPT
             !.sth = {IF already THEN sth
                      ELSE [sth EXCEPT !.witnesses = Append(@, statement.witness)]},
             !.key_directory = [i \in DOMAIN @ \cup {statement.witness_id} |->
                 IF i = statement.witness_id THEN statement.entry ELSE @[i]]]

(* countWitnesses(): the external signatures that verify. *)
countWitnesses(r) ==
    IF r.sth = {} THEN 0
    ELSE LET sth == Some(r.sth)
             valid(w) == /\ w.external /\ w.id \in DOMAIN r.key_directory
                         /\ hybridVerify(sthCore(sth), w, r.key_directory[w.id])
         IN  Cardinality({i \in 1..Len(sth.witnesses) : valid(sth.witnesses[i])})

(* attachAnchor(): throws for a proof of another head. *)
Attachable(r, anchor) ==
    \E sth \in r.sth : sth.root_hash = anchor.target /\ sth.tree_size = anchor.tree_size
attachAnchor(r, anchor) == [r EXCEPT !.anchor = {anchor}]

-----------------------------------------------------------------------------
(* verifyInclusionDomain() *)
verifyInclusionDomain(r) ==
    IF r.inclusion = {} \/ r.sth = {} THEN domain("absent")
    ELSE LET inc == Some(r.inclusion)
             sth == Some(r.sth)
             ok  == /\ inc.tree_size = sth.tree_size
                    /\ inc.leaf_index < sth.tree_size
                    /\ inc.audit_path = <<r.binding_hash, inc.leaf_index, sth.root_hash>>
                    /\ sth.signature.key_id \in DOMAIN r.key_directory
                    /\ hybridVerify(sthCore(sth), sth.signature,
                                    r.key_directory[sth.signature.key_id])
         IN  domain(IF ok THEN "pass" ELSE "fail")

(* verifyWitnessesDomain(): at least one, and as many as are asked for. *)
verifyWitnessesDomain(r, threshold) ==
    domain(IF r.sth # {} /\ countWitnesses(r) >= (IF threshold > 1 THEN threshold ELSE 1)
           THEN "pass" ELSE "absent")

(* verifyAttestationDomain(): options.quoteVerifier is {} or {the quotes   *)
(* the service vouches for}.                                               *)
verifyAttestationDomain(r, options) ==
    IF r.attestation.quote = {} THEN domain("mock")
    ELSE
    LET quote == Some(r.attestation.quote)
        simulated == quote.root = "cool-sim-root"
        verified == IF options.quoteVerifier # {}
                    THEN remoteQuoteVerifier(quote, Some(options.quoteVerifier))
                    ELSE simulatedQuoteVerifier(r.key_directory, quote)
    IN  domain(IF ~checkQuoteStructure(quote) THEN "fail"
               ELSE IF options.quoteVerifier = {} /\ ~simulated THEN "absent"
               ELSE IF ~verified THEN "fail"
               ELSE IF simulated THEN "simulated" ELSE "pass")

(* verifyEnclaveDomain(): the quote is inside the signature, agrees on the *)
(* measurement, commits to the signing key and matches what was pinned.    *)
verifyEnclaveDomain(r, options, attestation) ==
    LET runtime == r.core.runtime
        key_id  == r.signature.key_id
    IN  IF r.attestation.quote = {} \/ runtime.tee_quote = {} THEN domain("absent")
        ELSE
        LET quote == Some(r.attestation.quote)
            pin == IF options.expectedMeasurement # {} THEN options.expectedMeasurement
                   ELSE r.attestation.expected_measurement
            ok  == /\ runtime.tee_quote = {quote}
                   /\ runtime.enclave_measurement = {quote.body.measurement}
                   /\ key_id \in DOMAIN r.key_directory
                   /\ quote.body.report_data = enclaveReportData(r.key_directory[key_id])
                   /\ pin = {} \/ pin = {quote.body.measurement}
                   /\ options.requireHardware => attestation.status = "pass"
        IN  domain(IF ~ok THEN "fail"
                   ELSE IF attestation.status = "simulated" THEN "simulated" ELSE "pass")

(* verifyAnchorDomain(): options.blockHeaders is {} or {the chain}. *)
verifyAnchorDomain(r, options) ==
    IF r.anchor = {} THEN domain("absent")
    ELSE
    LET anchor == Some(r.anchor)
        parsed == parseProof(anchor.proof)
        status == verifyAnchor(anchor.target, parsed.timestamp, options.blockHeaders)
    IN  domain(IF ~Attachable(r, anchor) \/ ~parsed.ok \/ parsed.digest # anchor.target
               THEN "fail"
               ELSE [confirmed |-> "pass", fail |-> "fail", submitted |-> "pending",
                     pending |-> "pending"][status])

(* verifyReceiptV2(): the seven domains and the verdict.  Neither a failed *)
(* anchor nor missing witnesses refuse a receipt unless they are asked for.*)
verifyReceiptV2(r, options) ==
    LET entry == r.signature.key_id \in DOMAIN r.key_directory
                 /\ hybridVerify(<<r.core, r.binding_hash>>, r.signature,
                                 r.key_directory[r.signature.key_id])
        attestation == verifyAttestationDomain(r, options)
        checks == [binding |-> domain(IF r.core = r.binding_hash THEN "pass" ELSE "fail"),
                   signature |-> domain(IF entry THEN "pass" ELSE "fail"),
                   inclusion |-> verifyInclusionDomain(r),
                   witnesses |-> verifyWitnessesDomain(r, options.witnessThreshold),
                   attestation |-> attestation,
                   enclave |-> verifyEnclaveDomain(r, options, attestation),
                   anchor |-> verifyAnchorDomain(r, options)]
        judged(found) ==
            [checks |-> found,
             ok |-> /\ found.binding.status = "pass" /\ found.signature.status = "pass"
                    /\ found.inclusion.status \in {"pass", "absent"}
                    /\ found.enclave.status # "fail" /\ found.attestation.status # "fail"
                    /\ options.requireHardware => found.attestation.status = "pass"
                    /\ options.witnessThreshold > 0 => found.witnesses.status = "pass"]
    IN  IF ~validateReceiptV2Shape(r)
        THEN [ok |-> FALSE, checks |-> [d \in DOMAIN checks |->
                domain(IF d \in {"binding", "signature"} THEN "fail" ELSE "absent")]]
        ELSE judged(checks)

(* OBLIGATIONS: which records count for a clause.                          *)
OBLIGATIONS == {"eu-ai-act-12", "eu-ai-act-14", "eu-ai-act-15", "dpdp-8", "iso-42001-9",
                "rbi-dlg", "soc2-cc7"}
counts(clause, r) ==
    CASE clause \in {"eu-ai-act-12", "rbi-dlg"} -> r.core.schema = "cool.evidence.v1"
      [] clause = "eu-ai-act-14" -> \E c \in r.core.change : \E a \in c.approval : a.approvers > 0
      [] clause = "eu-ai-act-15" -> \E c \in r.core.change : c.kind \in {"model", "params", "dataset"}
      [] clause = "dpdp-8" -> r.core.runtime.tee_quote # {}
      [] clause = "iso-42001-9" -> r.inclusion # {}
      [] clause = "soc2-cc7" -> \E c \in r.core.change : c.approval # {}

(* coverage(): counted, never stored. *)
coverage(receipts) ==
    [clause \in OBLIGATIONS |-> Cardinality({r \in receipts : counts(clause, r)})]

buildAuditPack(receipts) == [records |-> receipts, obligations |-> coverage(receipts)]

(* verifyAuditPack(): what a pack says of its records is not believed. *)
verifyAuditPack(pack, options) ==
    LET verified == {r \in pack.records : verifyReceiptV2(r, options).ok}
    IN  [ok |-> verified = pack.records /\ pack.records # {},
         witnesses |-> MapThenSumSet(countWitnesses, pack.records),
         obligations |-> coverage(pack.records)]

-----------------------------------------------------------------------------
saltedCommit(salt, value) == <<salt, value>>

(* fieldOf(): the commitment of a field, if the record has one. *)
fieldOf(r, field) ==
    {r.core.commitments[f] : f \in {f \in DOMAIN r.core.commitments :
        f = field /\ r.core.commitments[f].hash # {}}}

(* disclose(): refuses a value that was not committed. *)
disclose(r, field, value) ==
    {[record_id |-> r.core.record_id, binding_hash |-> r.binding_hash, field |-> field,
      value |-> value, salt |-> Some(c.salt)] :
        c \in {c \in fieldOf(r, field) : c.hash = {saltedCommit(Some(c.salt), value)}}}

(* verifyDisclosure() *)
verifyDisclosure(r, d) ==
    /\ d.record_id = r.core.record_id /\ d.binding_hash = r.binding_hash
    /\ \E c \in fieldOf(r, d.field) :
          c.salt = {d.salt} /\ c.hash = {saltedCommit(d.salt, d.value)}
=============================================================================
