SPECIFICATION MCSpec
CONSTANTS
    g1 = g1 g2 = g2 i1 = i1 i2 = i2 i3 = i3
    r1 = r1 r2 = r2 n1 = n1 n2 = n2 p1 = p1 p2 = p2
    Gateways = {g1, g2}
    Principals <- MCPrincipals
    Delegations = {"root", "sub"}
    Audience = "here"
    Tool <- MCTool
    Principal <- MCPrincipal
    Directory = TRUE
    Observed = "planned"
    Skew = 0
    Chains <- MCChains
    TTL = 3
    Timeout = 1
    None = None
    SignerFails = TRUE
    Store = "shared"
    MaxTime = 4
    MaxCrashes = 1
    Invocations = {i1, i2, i3}
    Requests = {r1, r2}
    Nonces = {n1, n2}
    Params = {p1, p2}
    Host <- MCHost
    Request <- MCRequest
    Decisions <- MCDecisions
    Offers <- MCOffers
    Notices <- MCNotices
INVARIANTS
    AtMostOnce
    
    ConfirmationsHonest
SYMMETRY Symmetric
CHECK_DEADLOCK FALSE
