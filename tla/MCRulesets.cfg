SPECIFICATION RulesetsSpec
CONSTANTS
    FlagKeys = {checkout, banner, beta}
    SegmentKeys = {"s1", "s2"}
    Variations = {"on", "off"}
    Ghost = ghost
    Trees <- MCTrees
    Rules <- MCRules
    Contexts <- MCContexts
    BucketSpace = 3
    MaxDepth = 2
    Attributes = {"plan", "age"}
    Operators = {"eq", "in", "gte"}
    TextLength = 1
    NestLimit = 1
    MaxEdits = 3
SYMMETRY FlagSymmetry
INVARIANTS
    RulesetsTypeOK
    EvaluationNeverErrs
    NoLeak
    ClientMatchesServer
    CyclesAreFound
    RolloutShares
    EditsAreLocal
    EditsStayValid
CHECK_DEADLOCK FALSE
