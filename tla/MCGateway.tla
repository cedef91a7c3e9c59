----------------------------- MODULE MCGateway -----------------------------
(***************************************************************************)
(* Gateway for TLC: two gateways, three invocations, and two requests, of  *)
(* which one is made with an authority that was delegated in two links and *)
(* the other commits to other parameters and plans no execution; and the   *)
(* three cases of interest, each with the bounds it needs.                 *)
(***************************************************************************)
EXTENDS Gateway, TLC, FiniteSets

CONSTANTS g1, g2, i1, i2, i3, r1, r2, n1, n2, p1, p2

MCHost == i1 :> g1 @@ i2 :> g1 @@ i3 :> g2

MCPrincipals == {"owner", "agent", "helper"}
MCPrincipal == [p \in MCPrincipals |->
                 [created |-> 0, expires |-> IF p = "agent" THEN 1 ELSE 9]]
MCTool == "pay" :> [action |-> "pay", covers |-> {"account"}]
       @@ "read" :> [action |-> "read", covers |-> {"account", "ledger"}]

MCRequest ==
    r1 :> [nonce |-> n1, params |-> p1, audience |-> "here", principal |-> "helper",
           action |-> "pay", resource |-> "account", delegation |-> "sub",
           issued |-> 0, expires |-> 2, execution |-> "planned"]
    @@
    r2 :> [nonce |-> n2, params |-> p2, audience |-> "here", principal |-> "agent",
           action |-> "read", resource |-> "ledger", delegation |-> "none",
           issued |-> 1, expires |-> 3, execution |-> "unbound"]

(* owner -> agent -> helper, of which the second link ends at 1. *)
link(id, from, to, until1) == [id |-> id, delegator |-> from, delegate |-> to,
                               issued |-> 0, from |-> 0, until |-> until1]
subChain == [leaf |-> "sub", sound |-> TRUE, grants |-> {<<r1, p1>>},
             links |-> {link("root", "owner", "agent", 3), link("sub", "agent", "helper", 1)}]
otherChain == [subChain EXCEPT !.leaf = "root", !.links = {link("root", "owner", "agent", 3)}]
MCChains == {subChain, otherChain}

(* A permit for each request, one made when the link had ended, a denial,  *)
(* and one whose facts give another answer.                                *)
decision(r, value, at) ==
    [request |-> r, value |-> value, trusted |-> 0..3, decided |-> at,
     validUntil |-> MCRequest[r].expires, supported |-> TRUE,
     policy |-> "policy", facts |-> "facts", again |-> value]
permit1 == decision(r1, "permit", 0)
late1 == decision(r1, "permit", 2)
permit2 == decision(r2, "permit", 1)
deny2 == decision(r2, "deny", 1)
false2 == [permit2 EXCEPT !.again = "deny"]
MCDecisions == {permit1, late1, permit2, deny2, false2}

offer(r, d, c) ==
    [tool |-> MCRequest[r].action, request |-> r, params |-> MCRequest[r].params,
     decision |-> d, chain |-> c, policy |-> None, facts |-> None]
offer1 == offer(r1, permit1, subChain)
offer2 == offer(r2, permit2, None)
replayed(o) == [o EXCEPT !.policy = "policy", !.facts = "facts"]

(* Good ones, with and without the replay, and one defect at a time. *)
JudgedOffers ==
    {offer1, replayed(offer1), replayed(offer2),
     [offer1 EXCEPT !.tool = "erase"], [offer1 EXCEPT !.tool = "read"],
     [offer1 EXCEPT !.params = p2], [offer1 EXCEPT !.policy = "other"],
     offer(r1, late1, subChain), offer(r1, permit1, None), offer(r1, permit1, otherChain),
     offer(r1, permit2, subChain), offer(r2, permit1, None),
     offer(r2, deny2, None), replayed(offer(r2, false2, None))}

FileOffers == {offer1, offer2, [offer2 EXCEPT !.params = p1], offer(r2, deny2, None)}
MCOffers == JudgedOffers \cup FileOffers

(* A link is revoked, and the agent suspended from 1 on. *)
MCNotices == {[subject |-> "root", at |-> 0], [subject |-> "agent", at |-> 1]}

-----------------------------------------------------------------------------
(***************************************************************************)
(* A behaviour is one of three cases, each large where one question lies:  *)
(*   races   three submissions of one request, an entry that expires within*)
(*           the behaviour, a crash and a signer that fails;               *)
(*   judged  two submissions of anything, while notices are heard;         *)
(*   file    the same gateways over a file store, with two requests, a     *)
(*           denial and wrong parameters.  Time ends here at most a timeout*)
(*           after any request has expired, as a shared store would see to.*)
(***************************************************************************)
VARIABLE case

File == INSTANCE Gateway WITH Store <- "file"

MCInit == Init /\ case \in {"races", "judged", "file"}

RacesNext ==
    \/ \E i \in Invocations : Invoke(i, offer1) \/ Step(i)
    \/ \E g \in Gateways : Crash(g)
    \/ Tick

JudgedNext ==
    \/ \E i \in {i1, i2} :
          \/ \E o \in JudgedOffers : Invoke(i, o)
          \/ Apply(i) \/ Consumed(i) \/ Replayed(i) \/ Unavailable(i)
          \/ ToolReturns(i) \/ ToolThrows(i) \/ Confirm(i)
    \/ \E n \in MCNotices : Hear(g1, n)
    \/ now < 3 /\ Tick

FileNext ==
    \/ \E i \in {i \in Invocations : i = i3 \/ \A k \in {i1, i2} \ {i} : pc[k] = "idle"} :
          (\E o \in FileOffers : File!Invoke(i, o)) \/ File!Step(i)
    \/ \E g \in Gateways : File!Crash(g)
    \/ now < 3 /\ Tick

MCNext ==
    /\ case' = case
    /\ \/ case = "races" /\ RacesNext
       \/ case = "judged" /\ JudgedNext
       \/ case = "file" /\ FileNext

MCSpec == MCInit /\ [][MCNext]_<<vars, case>>

(* i1 and i2 are made on the same gateway and are interchangeable. *)
Symmetric == Permutations({i1, i2})
=============================================================================
