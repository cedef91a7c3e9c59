----------------------------- MODULE MCEvidence -----------------------------
(***************************************************************************)
(* Evidence for TLC: a long log of envelopes signed and published in one   *)
(* order, a key that is withdrawn while time passes, an enclave with its   *)
(* collectors, guests whose firmware is updated, GPUs appraised again, and *)
(* stamps that are answered late.                                          *)
(***************************************************************************)
EXTENDS Evidence

Signer(id) == [id |-> id, key |-> id]

MCLogKey == Signer("log")
MCWitnesses == {Signer("witness")}
MCService == Signer("service")

MCRoot == [subject |-> "root", issuer |-> "root", key |-> "root", signedBy |-> "root",
           ca |-> TRUE, from |-> 0, to |-> 9]
MCCert == [subject |-> "nsm", issuer |-> "root", key |-> "nsm", signedBy |-> "root",
           ca |-> FALSE, from |-> 0, to |-> 2]

Nothing == [time |-> 1, leaves |-> 0, signs |-> 0, withdraw |-> FALSE, instances |-> 0,
            hosts |-> 0, runs |-> 0, seals |-> 0, firmware |-> 0, updates |-> FALSE, asks |-> 0,
            reports |-> 0, appraisals |-> 0, requests |-> 0, stamps |-> 0]

MCBudgets ==
    {[Nothing EXCEPT !.leaves = 7, !.signs = 7],
     [Nothing EXCEPT !.time = 4, !.leaves = 1, !.signs = 1, !.withdraw = TRUE],
     [Nothing EXCEPT !.instances = 2, !.hosts = 2, !.runs = 1],
     [Nothing EXCEPT !.instances = 1, !.hosts = 1, !.leaves = 1, !.seals = 3],
     [Nothing EXCEPT !.time = 3, !.instances = 1, !.hosts = 1, !.seals = 1],
     [Nothing EXCEPT !.time = 2, !.updates = TRUE, !.asks = 1, !.reports = 1],
     [Nothing EXCEPT !.time = 3, !.firmware = 2, !.asks = 2, !.reports = 2, !.appraisals = 2],
     [Nothing EXCEPT !.time = 3, !.requests = 2, !.stamps = 2]}

(* Envelopes are interchangeable: they are signed and published in order, *)
(* with nothing else signed in between when the log is long.              *)
InOrder ==
    /\ \A s \in signed : s.env.core.event_id > 1 =>
          \E t \in signed : t.env.core.event_id = s.env.core.event_id - 1 /\ t.at <= s.at
    /\ budget.leaves > 2 => Cardinality(signed) <= Len(leaves) + 1
=============================================================================
