CONSTANTS
    Verifiers = {"v1", "v2"}
    Records <- MCRecords
    Events <- MCEvents
    TrustOf <- MCTrustOf
    MaxEvents = 2
    MaxTime = 2
    Symbols = {"a", "b"}
    Conditions <- MCConditions
    NoFact = NoFact
    Unknown = NoFact
    Inputs <- MCInputs
    Normal <- MCNormal
    Policies <- MCPolicies
    FactSets <- MCFactSets
    Chains <- MCChains
    Roots = {"H"}
    Revoked = {}
    Evaluator <- MCEvaluator
    TTL = 1
    Skew = 0
SPECIFICATION Spec
INVARIANTS SameAnswerUnlessTied RevokedForGood AuthorityNarrows DecisionsReplay PermitSurvivesFacts
CHECK_DEADLOCK FALSE
