------------------------------- MODULE Checks -------------------------------
(***************************************************************************)
(* The results of platform/status.ts and how platform/outcome.ts folds     *)
(* them: every verifier returns a check per question, and a verdict.  The  *)
(* detail texts are left out; a reason is its code.                        *)
(***************************************************************************)
EXTENDS Integers, Sequences, FiniteSets

check(status, reason) == [status |-> status, reason |-> reason]

pass == check("pass", "ok")
notChecked == check("not_checked", "prerequisite_failed")
fail(reason) == check("fail", reason)

(* The first of a sequence of (condition, check) pairs that applies. *)
firstOf(cases) ==
    LET hits == {i \in 1..Len(cases) : cases[i][1]}
    IN  cases[CHOOSE i \in hits : \A j \in hits : i <= j][2]

(* overallOf(): a failure wins, anything else that is no pass is unknown. *)
overallOf(checks, required) ==
    LET open == {n \in required : checks[n].status \notin {"pass", "not_applicable"}}
    IN  IF \E n \in open : checks[n].status = "fail" THEN "fail"
        ELSE IF open # {} THEN "unknown" ELSE "pass"

Stale == {"attestation_stale", "trust_snapshot_stale", "checkpoint_stale",
          "trust_bundle_stale", "certificate_expired", "collateral_stale",
          "decision_expired", "request_expired"}
Incomplete == {"missing_evidence", "sequence_gap", "no_confirmation",
               "confirmation_unavailable", "incomplete_interval"}
Unsupported == {"unsupported_algorithm", "unsupported_schema", "unsupported_platform",
                "unexpected_critical_field", "unsupported_version"}

(* The class of a check that is no pass. *)
classOf(c) ==
    CASE c.reason \in Unsupported -> "unsupported"
      [] c.reason \in Stale       -> "stale"
      [] c.reason \in Incomplete  -> "incomplete"
      [] c.reason \notin Unsupported \cup Stale \cup Incomplete ->
             IF c.status = "fail" THEN "invalid" ELSE "indeterminate"

(* classifyOutcome(): the gravest class found. *)
classifyOutcome(checks, required) ==
    LET found == {classOf(checks[n]) : n \in
                    {n \in required : checks[n].status \notin {"pass", "not_applicable"}}}
        order == <<"invalid", "unsupported", "stale", "incomplete", "indeterminate">>
    IN  IF found = {} THEN "verified"
        ELSE firstOf([i \in 1..5 |-> <<order[i] \in found, order[i]>>])

(* A verdict over checks of which some are required. *)
verdictOf(checks, required) ==
    [checks |-> checks, overall |-> overallOf(checks, required),
     outcome |-> classifyOutcome(checks, required)]
=============================================================================
