----------------------------- MODULE MCAuthority -----------------------------
EXTENDS Authority

key(id, k) == [id |-> id, key |-> k]

MCRecords ==
    LET rec(p, k, issuer) ==
          [principal |-> p, issuer |-> issuer, created |-> 0,
           expires |-> IF p = "B" THEN 1 ELSE Never, keys |-> {key(p, k)}]
    IN  {signObject(rec("H", "kH", "J"), "J", "kJ"),
         signObject(rec("A", "kA", "I"), "I", "kI"),
         signObject(rec("B", "kB", "J"), "J", "kJ")}

MCEvents ==
    LET ev(kind, at, k) == [principal |-> "A", kind |-> kind, at |-> at, key |-> k]
        none == key("none", "none")
    IN  {signObject(ev("suspended", 1, none), "I", "kI"),
         signObject(ev("reinstated", 1, none), "I", "kI"),
         signObject(ev("revoked", 0, none), "I", "kI"),
         signObject(ev("key_retired", 1, key("A", "kA")), "I", "kI"),
         \* not by the principal's issuer, and altered after it was signed
         signObject(ev("reinstated", 2, none), "J", "kJ"),
         [signObject(ev("suspended", 1, none), "I", "kI") EXCEPT !.body.kind = "reinstated"]}

MCTrustOf ==
    LET k(pub, use) == [key |-> pub, purposes |-> use, valid_from |-> 0,
                        valid_until |-> Never, status |-> "active", since |-> Never]
        issuers == "I" :> k("kI", {"identity_issuer"}) @@ "E" :> k("kE", {"evaluator"})
    IN  "v1" :> [keys |-> "J" :> k("kJ", {"identity_issuer"}) @@ issuers,
                 as_of |-> 0, max_age |-> 0]
     @@ "v2" :> [keys |-> "J" :> k("kJ", {"evaluator"}) @@ issuers,
                 as_of |-> 0, max_age |-> 1]

exact(text) == [text |-> text, wild |-> FALSE]
below(text) == [text |-> text, wild |-> TRUE]

MCDelegations ==
    LET d(id, from, to, parent, resources, amount, expires) ==
          [id |-> id, delegator |-> from, delegate |-> to, parent |-> parent,
           issued |-> 0, not_before |-> 0, expires |-> expires, audience |-> "*",
           scope |-> [actions |-> {"pay"}, resources |-> resources, max_amount |-> amount]]
    IN  [root   |-> signObject(d("root", "H", "A", "none", {below(<<"a">>)}, 2, 2), "H", "kH"),
         exact  |-> signObject(d("exact", "H", "A", "none", {exact(<<"a">>)}, Never, 2), "H", "kH"),
         sub    |-> signObject(d("sub", "A", "B", "root", {exact(<<"a", "b">>)}, 1, 1), "A", "kA"),
         wide   |-> signObject(d("wide", "A", "B", "exact", {exact(<<"a", "b">>)}, Never, 2), "A", "kA"),
         forged |-> signObject(d("forged", "H", "A", "none", {below(<<>>)}, Never, 2), "H", "kA")]

MCChains == LET d == MCDelegations
            IN  {<<d.root>>, <<d.root, d.sub>>, <<d.exact, d.wide>>, <<d.forged>>}

MCInputs ==
    LET i(p, resource, params, delegation) ==
          [principal |-> p, action |-> "pay", resource |-> resource, audience |-> "bank",
           params |-> params, salt |-> "s", delegation |-> delegation]
    IN  {i("B", <<"a", "b">>, "one", "sub"),
         i("A", <<"a", "b">>, "nan", "none")}

MCNormal == "one" :> {"1"} @@ "nan" :> {}

lowRisk == [op |-> "lt", fact |-> "risk", value |-> 2]
highRisk == [op |-> "not", of |-> {lowRisk}]
rated == [op |-> "exists", fact |-> "risk"]
forB == [op |-> "eq", fact |-> "request.principal", value |-> "B"]
MCConditions == {lowRisk, highRisk, rated, forB, [op |-> "all", of |-> {highRisk, forB}]}

MCPolicies ==
    LET rule(id, when, dec, unknown) ==
          [id |-> id, when |-> when, decision |-> dec, on_unknown |-> unknown]
        who == rule("who", forB, "audit_only", "none")
        strict == <<rule("high", highRisk, "deny", "none"), who>>
        \* a missing rating is waved through, by one rule and by the other
        lenient == <<rule("high", [op |-> "all", of |-> {highRisk, forB}], "deny", "allow"),
                     rule("rated", rated, "deny", "none"), who>>
    IN  {[rules |-> strict, default |-> "allow", on_unknown |-> "deny"],
         [rules |-> strict \o strict, default |-> "allow", on_unknown |-> "none"],
         [rules |-> lenient, default |-> "allow", on_unknown |-> "deny"]}

MCEvaluator == [id |-> "E", key |-> "kE"]

CONSTANT NoFact
MCFactSets == {"risk" :> r : r \in {1, 3, NoFact}}
=============================================================================
