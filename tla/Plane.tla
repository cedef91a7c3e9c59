------------------------------- MODULE Plane -------------------------------
(***************************************************************************)
(* The evidence plane, phala/engine.ts, with the governance rules of       *)
(* phala/policy.ts: what start() reads of the enclave, and the receipt     *)
(* that seal() makes of an event.  The clock is the tree size, record ids  *)
(* count the records, a salt is named after its record and field.  The log *)
(* is the sequence of binding hashes (EvidenceLog has its files).          *)
(***************************************************************************)
EXTENDS Receipts

KINDS == {"prompt", "model", "policy", "params", "dataset", "agent-permission", "tool"}
SEVERITY == [rejected |-> 3, escalate |-> 2, approved |-> 1, auto |-> 0]

(* A rule: the kinds and environments it is about, the number of approvers *)
(* it asks for or tolerates, the risk (in tenths) from which it applies.   *)
Rule(id, kinds, environments, min, max, risk, decision) ==
    [id |-> id, kinds |-> kinds, environments |-> environments, minApprovers |-> min,
     maxApprovers |-> max, minRisk |-> risk, decision |-> decision]

Environments == {"dev", "test", "staging", "prod", "unknown"}
Many == 100

(* DEFAULT_POLICY *)
DEFAULT_POLICY == [fallback |-> "escalate", rules |-> <<
    Rule("POL-001", KINDS, {"dev", "test", "staging"}, 0, Many, 0, "auto"),
    Rule("POL-002", {"prompt", "model", "policy"}, {"prod"}, 2, Many, 0, "approved"),
    Rule("POL-003", {"prompt", "model", "policy"}, {"prod"}, 0, 1, 0, "escalate"),
    Rule("POL-008", {"params", "dataset"}, {"prod"}, 1, Many, 0, "approved"),
    Rule("POL-031", {"agent-permission", "tool"}, Environments, 0, Many, 0, "escalate"),
    Rule("POL-040", KINDS, Environments, 0, Many, 8, "escalate")>>]

(* matches() *)
matches(rule, input) ==
    /\ input.kind \in rule.kinds /\ input.environment \in rule.environments
    /\ input.approvers >= rule.minApprovers /\ input.approvers <= rule.maxApprovers
    /\ input.risk >= rule.minRisk

(* evaluate(): the strictest rule that matches, the first of several. *)
evaluate(policy, input) ==
    LET matched == SelectSeq(policy.rules, LAMBDA r : matches(r, input))
        worse(a, r) == IF SEVERITY[r.decision] > SEVERITY[a.decision] THEN r ELSE a
        winner == FoldLeft(worse, matched[1], Tail(matched))
    IN  IF matched = <<>> THEN [decision |-> policy.fallback, rule |-> "none"]
        ELSE [decision |-> winner.decision, rule |-> winner.id]

(* approvalFrom(): a record knows no "escalate". *)
approvalFrom(outcome, approvers) ==
    [policy_id |-> outcome.rule, approvers |-> approvers,
     decision |-> IF outcome.decision = "escalate" THEN "rejected" ELSE outcome.decision]

(* EvidencePlane.decide(): the caller's approval wins, if there is one. *)
decide(policy, event) ==
    IF event.approval # {} THEN event.approval
    ELSE {approvalFrom(evaluate(p, event), event.approvers) : p \in policy}

-----------------------------------------------------------------------------
(* Mutant: the quote binds the key of the log. *)
reportDataLog(keys) == enclaveReportData(keys.log.entry)

(* What the quote has to commit to: the public key records are signed with.*)
reportData(keys) == enclaveReportData(keys.record.entry)

(* EvidencePlane.start(): from what the guest agent answers, the enclave's *)
(* info, two keys [id, entry], a quote that binds the first, and the       *)
(* client's own directory; pin is the measurement the deployment approved. *)
start(info, keys, quote, pin, directory) ==
    [info |-> info, keys |-> keys,
     attestation |-> [mode |-> info.mode, quote |-> {quote}, expected_measurement |-> pin],
     directory |-> [id \in DOMAIN directory \cup {keys.record.id, keys.log.id} |->
                      IF id \in DOMAIN directory THEN directory[id]
                      ELSE IF id = keys.record.id THEN keys.record.entry ELSE keys.log.entry],
     runtime |-> [tee_vendor |-> info.vendor, mode |-> info.mode, tee_quote |-> {quote},
                  enclave_measurement |-> {info.measurement}]]

(* commit(): nothing for a payload that is not given. *)
commit(id, field, value) ==
    [hash |-> {saltedCommit(<<id, field>>, v) : v \in value},
     salt |-> {<<id, field>> : v \in value}]

(* changeCore(): the previous content only when it is known. *)
changeCore(plane, id, event, policy) ==
    [schema |-> "cool.change.v2", record_id |-> id, runtime |-> plane.runtime,
     change |-> {[kind |-> event.kind, environment |-> event.environment,
                  approval |-> decide(policy, event)]},
     commitments |-> [f \in {"change.before", "change.after"} |->
                        commit(id, f, IF f = "change.before" THEN event.before
                                      ELSE {event.after})]]

(* buildSTH() of the file log: the head of all leaves, without witnesses. *)
buildSTH(leaves, logKey) ==
    LET core == [log_id |-> "cool", tree_size |-> Len(leaves), root_hash |-> leaves,
                 timestamp |-> Len(leaves)]
    IN  [log_id |-> core.log_id, tree_size |-> core.tree_size, root_hash |-> core.root_hash,
         timestamp |-> core.timestamp, signature |-> signed(logKey.entry, logKey.id, core),
         witnesses |-> <<>>]

(* seal(): the record is signed, appended to the log, whose key need not be*)
(* the plane's, and proven under the new head.                             *)
seal(plane, logKey, leaves, core) ==
    LET grown == Append(leaves, core)
    IN  [core |-> core, binding_hash |-> core,
         signature |-> signed(plane.keys.record.entry, plane.keys.record.id, <<core, core>>),
         inclusion |-> {[leaf_index |-> Len(leaves), tree_size |-> Len(grown),
                         audit_path |-> <<core, Len(leaves), grown>>]},
         sth |-> {buildSTH(grown, logKey)}, attestation |-> plane.attestation, anchor |-> {},
         key_directory |-> plane.directory]
=============================================================================
