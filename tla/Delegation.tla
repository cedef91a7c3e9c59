------------------------------ MODULE Delegation ------------------------------
(***************************************************************************)
(* Delegation chains of authz/delegation.ts, judged by a verifier's        *)
(* directory at the time of an event.  A resource id is a sequence of      *)
(* symbols; a pattern is such a sequence, exact or with a final wildcard.  *)
(***************************************************************************)
EXTENDS Principals

CONSTANT Symbols

MaxDepth == 4

Pattern == [text : Seq(Symbols), wild : BOOLEAN]

startsWith(s, p) == Len(p) <= Len(s) /\ SubSeq(s, 1, Len(p)) = p

(* Does a pattern cover a resource? *)
covers(p, value) == IF p.wild THEN startsWith(value, p.text) ELSE value = p.text

(* Mutant: an exact parent is treated as a prefix. *)
withinPrefix(r, p) == startsWith(r.text, p.text)

(* Is the pattern r within the pattern p? *)
within(r, p) == IF p.wild THEN startsWith(r.text, p.text)
                ELSE ~r.wild /\ r.text = p.text

(* max_amount: a number, or Never for no ceiling. *)
Exceeds(amount, ceiling) == ceiling # Never /\ (amount = Never \/ amount > ceiling)

(* scopeExcess(child, parent) is null. *)
scopeWithin(child, parent) ==
    /\ child.actions \subseteq parent.actions
    /\ \A r \in child.resources : \E p \in parent.resources : within(r, p)
    /\ ~Exceeds(child.max_amount, parent.max_amount)

(* A link by itself: signed by a key bound to the delegator when it was    *)
(* issued, both parties usable, not revoked, within its validity.          *)
linkValid(v, s, at, revoked) ==
    LET d   == s.body
        key == keyAt(v, d.delegator, s.id, d.issued)
        i   == verifyIntegrity(s, key)
    IN  /\ key # {}
        /\ {i.integrity.status, i.signature.status} = {"pass"}
        /\ checkPrincipal(v, d.delegator, d.issued).status = "pass"
        /\ checkPrincipal(v, d.delegator, at).status = "pass"
        /\ checkPrincipal(v, d.delegate, at).status = "pass"
        /\ d.id \notin revoked
        /\ at >= d.not_before /\ at <= d.expires

(* A link continues its parent and narrows it. *)
linkContinues(child, parent) ==
    /\ child.parent = parent.id /\ child.delegator = parent.delegate
    /\ scopeWithin(child.scope, parent.scope)
    /\ child.expires <= parent.expires

(* No delegation and no principal occurs twice. *)
acyclic(chain) ==
    LET n == Len(chain)
        path == <<chain[1].body.delegator>> \o [i \in 1..n |-> chain[i].body.delegate]
    IN  /\ \A i, j \in 1..n : chain[i].body.id = chain[j].body.id => i = j
        /\ \A i, j \in 1..(n + 1) : path[i] = path[j] => i = j

(* The leaf authorises this request. *)
leafAuthorises(leaf, request, amount) ==
    /\ leaf.delegate = request.principal
    /\ leaf.audience \in {"*", request.audience}
    /\ request.action \in leaf.scope.actions
    /\ \E p \in leaf.scope.resources : covers(p, request.resource)
    /\ ~Exceeds(amount, leaf.scope.max_amount)

(* verifyDelegationChain(), root first; any problem is a failure. *)
verifyDelegationChain(v, chain, request, amount, roots, at, revoked) ==
    LET body(i) == chain[i].body
        ok == /\ chain # <<>> /\ Len(chain) <= MaxDepth
              /\ acyclic(chain)
              /\ \A i \in 1..Len(chain) : linkValid(v, chain[i], at, revoked)
              /\ body(1).parent = "none" /\ body(1).delegator \in roots
              /\ \A i \in 2..Len(chain) : linkContinues(body(i), body(i - 1))
              /\ leafAuthorises(body(Len(chain)), request, amount)
    IN  IF ok THEN pass ELSE fail("delegation_refused")
=============================================================================
