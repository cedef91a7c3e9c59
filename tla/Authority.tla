------------------------------ MODULE Authority ------------------------------
(***************************************************************************)
(* Requests, decisions and their verification: authz/request.ts,           *)
(* authz/decision.ts over the directories and chains of Delegation and the *)
(* engine of Policy.  An evaluator decides requests, and verifiers whose   *)
(* directories and clocks differ judge the decisions later.  Salts, keys   *)
(* and digests are ideal: a commitment is what it commits to.              *)
(***************************************************************************)
EXTENDS Delegation, Policy, TLC

CONSTANTS
    Inputs,        \* what requests are made from
    Normal,        \* per raw parameter value: its normal form, {} if rejected
    Policies,
    FactSets,      \* what the evaluator may know
    Chains,        \* delegation chains that are presented
    Roots,         \* principals that may originate authority
    Revoked,       \* delegations on the verifiers' revocation list
    Evaluator,     \* its key id and its key
    TTL, Skew

(* The facts that a request itself states. *)
RequestFacts == {"request.principal", "request.action", "request.resource", "request.audience"}

(* Requests name resources, conditions name facts, and links scope patterns and amounts. *)
ASSUME AuthorityAssumption ==
    /\ \A i \in Inputs : i.resource \in Seq(Symbols)
    /\ \A chain \in Chains :
          /\ Len(chain) \in Nat
          /\ \A i \in 1..Len(chain) :
                /\ chain[i].body.scope.resources \subseteq Pattern
                /\ chain[i].body.scope.max_amount \in Int
    /\ \A f \in FactSets, c \in Conditions : c.op \in Ops =>
          c.fact \in RequestFacts \cup DOMAIN f

VARIABLES
    request,       \* the request under way, as a set of at most one
    decision       \* its signed decision, likewise

vars == <<pvars, request, decision>>

Init == PInit /\ request = {} /\ decision = {}

-----------------------------------------------------------------------------
(* commitValue(): the salted (or keyed) digest of a value's normal form. *)
commitValue(kind, raw, salt) == <<kind, Normal[raw], salt>>

(* createAuthorizationRequest(): throws when the parameters are rejected. *)
createAuthorizationRequest(input) ==
    /\ request = {} /\ Normal[input.params] # {}
    /\ request' = {[principal |-> input.principal, action |-> input.action,
                    resource |-> input.resource, audience |-> input.audience,
                    delegation |-> input.delegation,
                    params_commitment |-> commitValue("params", input.params, input.salt),
                    issued |-> now, expires |-> now + TTL]}
    /\ UNCHANGED <<pvars, decision>>

(* The request's own fields win over the caller's facts. *)
field(r, name) == CASE name = "request.principal" -> r.principal
                    [] name = "request.action"    -> r.action
                    [] name = "request.resource"  -> r.resource
                    [] name = "request.audience"  -> r.audience

decisionFacts(r, facts) ==
    [n \in RequestFacts \cup DOMAIN facts |->
        IF n \in RequestFacts THEN field(r, n) ELSE facts[n]]

MAP(d) == CASE d \in {"allow", "audit_only"} -> "permit"
            [] d \in {"deny", "quarantine"} -> "deny"
            [] d \in {"require_approval", "defer"} -> "indeterminate"

(* Mutant: the clock at the time of the replay is used. *)
evaluatedNow(r, p, facts, at) ==
    IF now > r.expires THEN "deny" ELSE MAP(evaluatePolicy(p, facts))

(* What the engine says of a request at a time. *)
evaluated(r, p, facts, at) ==
    IF at > r.expires THEN "deny" ELSE MAP(evaluatePolicy(p, facts))

(* decide(): evaluate and sign; an invalid policy is an error. *)
decide(r, p, facts) ==
    /\ r \in request /\ decision = {}
    /\ LET known == decisionFacts(r, facts)
           body  == [decision |-> IF validatePolicy(p) THEN evaluated(r, p, known, now)
                                  ELSE "error",
                     request |-> r, facts |-> known, decided |-> now,
                     policy |-> IF validatePolicy(p) THEN <<p>> ELSE <<"invalid", p>>,
                     valid_until |-> r.expires]
       IN  decision' = {signObject(body, Evaluator.id, Evaluator.key)}
    /\ UNCHANGED <<pvars, request>>

Next ==
    \/ \E v \in Verifiers :
          \/ \E s \in Records : enroll(v, s) /\ UNCHANGED <<request, decision>>
          \/ \E s \in Events : apply(v, s) /\ UNCHANGED <<request, decision>>
    \/ Tick /\ UNCHANGED <<request, decision>>
    \/ \E i \in Inputs : createAuthorizationRequest(i)
    \/ \E r \in request, p \in Policies, f \in FactSets : decide(r, p, f)

Spec == Init /\ [][Next]_vars

-----------------------------------------------------------------------------
(***************************************************************************)
(* verifyDecision() by verifier v at its time t, with the policies and     *)
(* facts it holds (sets of at most one), its directory, and a chain.       *)
(***************************************************************************)
verifyDecision(v, s, r, mode, t, policy, facts, chain, amount) ==
    LET d  == s.body
        tr == verifyTrusted(s, TrustOf[v], "evaluator", t)
        binding == IF policy = {} THEN check("not_checked", "no_policy")
                   ELSE IF \E p \in policy : <<p>> = d.policy THEN pass
                   ELSE fail("policy_mismatch")
        again(p, f) == evaluated(r, p, decisionFacts(r, f), d.decided)
        reproduced ==
            IF policy = {} \/ facts = {} THEN check("not_checked", "no_replay_inputs")
            ELSE IF binding.status # "pass" THEN notChecked
            ELSE LET p == CHOOSE p \in policy : TRUE
                     f == CHOOSE f \in facts : TRUE
                 IN  firstOf(<<
                       <<decisionFacts(r, f) # d.facts, fail("input_mismatch")>>,
                       <<again(p, f) # d.decision, fail("replay_mismatch")>>,
                       <<TRUE, pass>> >>)
        freshness == firstOf(<<
            <<d.decided < r.issued - Skew, fail("decided_before_request")>>,
            <<d.valid_until > r.expires, fail("validity_exceeds_request")>>,
            <<mode = "enforcement" /\ t > d.valid_until, fail("decision_expired")>>,
            <<TRUE, pass>> >>)
        delegation ==
            IF r.delegation = "none" THEN check("not_applicable", "no_delegation")
            ELSE IF chain = <<>> THEN check("not_checked", "no_chain")
            ELSE IF chain[Len(chain)].body.id # r.delegation THEN fail("wrong_delegation")
            ELSE verifyDelegationChain(v, chain, r, amount, Roots, d.decided, Revoked)
        checks == [integrity |-> tr.integrity, signature |-> tr.signature,
                   evaluator_trusted |-> tr.trusted,
                   request_binding |-> IF d.request = r THEN pass
                                       ELSE fail("request_mismatch"),
                   policy_binding |-> binding, reproduced |-> reproduced,
                   freshness |-> freshness, delegation |-> delegation,
                   principal_state |-> checkPrincipal(v, r.principal, d.decided)]
    IN  [checks |-> checks, outcome |-> classifyOutcome(checks, DOMAIN checks),
         assurance |-> IF reproduced.status = "pass" THEN "reproducible" ELSE "trusted"]

-----------------------------------------------------------------------------
(* Authority only narrows ("a child scope must be a subset of its parent", *)
(* delegation.ts): what an accepted chain authorises, every one of its     *)
(* links authorises by itself, in each verifier's view and at every time.  *)
AuthorityNarrows ==
    \A v \in Verifiers, chain \in Chains, r \in request, amount \in {Never, 1} :
        verifyDelegationChain(v, chain, r, amount, Roots, now, Revoked) = pass =>
            \A i \in 1..Len(chain) :
                LET d == chain[i].body IN
                /\ r.action \in d.scope.actions
                /\ \E p \in d.scope.resources : covers(p, r.resource)
                /\ ~Exceeds(amount, d.scope.max_amount)
                /\ now <= d.expires

(* "anyone holding the policy and facts can re-run it and must get the     *)
(* same result" (decision.ts): at any later time, also after the request   *)
(* has expired, a decision of the evaluator replays.                       *)
DecisionsReplay ==
    \A v \in Verifiers, s \in decision, p \in Policies, f \in FactSets :
        <<p>> = s.body.policy /\ decisionFacts(s.body.request, f) = s.body.facts =>
            verifyDecision(v, s, s.body.request, "enforcement", now, {p}, {f}, <<>>, Never)
                .assurance = "reproducible"

(* Conditions that, parts included, do not ask whether a fact is there. *)
WithoutExists(C) == \A c \in C : c.op # "exists" /\ Parts(c) \subseteq C

(* "we could not tell" never becomes "safe" (policy.ts): of a policy that  *)
(* permits nothing on missing input, and does not ask whether a fact is    *)
(* there, a permit stays a permit however the missing facts turn out.      *)
PermitSurvivesFacts ==
    \A s \in decision, p \in Policies :
        LET d == s.body
            rules == {p.rules[i] : i \in 1..Len(p.rules)}
            completions == {g \in FactSets :
                \A n \in DOMAIN g : d.facts[n] \in {Unknown, g[n]}}
        IN  /\ d.policy = <<p>> /\ d.decision = "permit"
            /\ \A r \in rules : MAP(onUnknown(p, r)) # "permit"
            /\ \E C \in SUBSET Conditions : WithoutExists(C) /\ \A r \in rules : r.when \in C
            => \A g \in completions :
                   evaluated(d.request, p, decisionFacts(d.request, g), d.decided) = "permit"
=============================================================================
