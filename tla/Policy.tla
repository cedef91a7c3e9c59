------------------------------- MODULE Policy -------------------------------
(***************************************************************************)
(* The policy engine of platform/policy.ts: three-valued conditions over   *)
(* facts, the gravest matched rule decides.  A fact that is not known has  *)
(* the value Unknown.  A regular expression is the set of values it        *)
(* matches; texts (ids, reasons, digests of the record) are left out.      *)
(***************************************************************************)
EXTENDS Checks

CONSTANTS
    Conditions,  \* the conditions of the policies and all their parts
    Unknown

(* A decision's SEVERITY is its place in this list. *)
DECISIONS == <<"allow", "audit_only", "defer", "require_approval", "quarantine", "deny">>
SEVERITY(d) == CHOOSE i \in 1..6 : DECISIONS[i] = d
Gravest(D) == DECISIONS[CHOOSE i \in 1..6 :
                 (\E d \in D : SEVERITY(d) = i) /\ \A d \in D : SEVERITY(d) <= i]

Ops == {"eq", "neq", "in", "exists", "lt", "lte", "gt", "gte", "matches"}

Test(op, value, against) ==
    CASE op = "eq"  -> value = against
      [] op = "neq" -> value # against
      [] op \in {"in", "matches"} -> value \in against
      [] op = "lt"  -> value < against
      [] op = "lte" -> value <= against
      [] op = "gt"  -> value > against
      [] op = "gte" -> value >= against

(* Conditions are trees: the parts of all, any and not are conditions too. *)
Parts(c) == IF c.op \in {"all", "any", "not"} THEN c.of ELSE {}

ASSUME PolicyAssumption ==
    /\ IsFiniteSet(Conditions)
    /\ \A c \in Conditions :
          /\ c.op \in Ops \cup {"all", "any", "not"}
          /\ c.op = "not" => \E d \in c.of : c.of = {d}
    /\ \E depth \in [Conditions -> 0..Cardinality(Conditions)] :
          \A c \in Conditions : \A d \in Parts(c) : d \in Conditions /\ depth[d] < depth[c]

(* evaluateCondition(), in Kleene's logic: TRUE, FALSE or Unknown as a set *)
(* of the values that are still possible.  sub are those of the parts.     *)
kleene(c, sub, facts) ==
    CASE c.op = "all" ->
           IF {FALSE} \in sub THEN {FALSE} ELSE IF BOOLEAN \in sub THEN BOOLEAN ELSE {TRUE}
      [] c.op = "any" ->
           IF {TRUE} \in sub THEN {TRUE} ELSE IF BOOLEAN \in sub THEN BOOLEAN ELSE {FALSE}
      [] c.op = "not" -> {~b : b \in UNION sub}
      [] c.op = "exists" -> {facts[c.fact] # Unknown}
      [] c.op \in Ops \ {"exists"} ->
           IF facts[c.fact] = Unknown THEN BOOLEAN ELSE {Test(c.op, facts[c.fact], c.value)}

evaluateCondition(c, facts) ==
    LET ev[x \in Conditions] == kleene(x, {ev[y] : y \in Parts(x)}, facts)
    IN  ev[c]

Decisions == {DECISIONS[i] : i \in 1..6}

(* validatePolicy(): what is left of it once a policy is well typed. *)
validatePolicy(p) ==
    /\ p.default \in Decisions /\ p.on_unknown \in Decisions \cup {"none"}
    /\ \A i, j \in 1..Len(p.rules) : p.rules[i].id = p.rules[j].id => i = j
    /\ \A i \in 1..Len(p.rules) :
          LET r == p.rules[i] IN
          r.when \in Conditions /\ r.decision \in Decisions
            /\ r.on_unknown \in Decisions \cup {"none"}

(* Mutant: a rule whose inputs are missing is passed over. *)
contributionKnownOnly(p, r, facts) ==
    IF evaluateCondition(r.when, facts) = {TRUE} THEN {r.decision} ELSE {}

(* What a rule contributes when its condition cannot be told. *)
onUnknown(p, r) == IF r.on_unknown # "none" THEN r.on_unknown
                   ELSE IF p.on_unknown # "none" THEN p.on_unknown ELSE "defer"

contribution(p, r, facts) ==
    LET v == evaluateCondition(r.when, facts)
    IN  CASE v = {TRUE}  -> {r.decision}
          [] v = {FALSE} -> {}
          [] v = BOOLEAN -> {onUnknown(p, r)}

(* evaluatePolicy(): every rule that holds or may hold contributes. *)
evaluatePolicy(p, facts) ==
    LET matched == UNION {contribution(p, p.rules[i], facts) : i \in 1..Len(p.rules)}
    IN  IF matched = {} THEN p.default ELSE Gravest(matched)
=============================================================================
