SPECIFICATION Spec
CONSTANTS
    Docs = {"x", "y", "z"}
    Chunks <- MCChunks
    DocOf <- MCDocOf
    PathOf <- MCPathOf
    TypeOf <- MCTypeOf
    Queries = {"q", "v"}
    Original = "q"
    Variants <- MCVariants
    Nearness <- MCNearness
    Keyness <- MCKeyness
    Threshold = 2
    K = 2
    Mult = 2
    TopN = 3
    Shapes <- AskShapes
    Searches = {"s1"}
    Patches = {"p1"}
    Callers = {"ann", "trusted"}
    Trusted = "trusted"
    FirstRows <- MCFirstRows
    RuleSet <- MCRules
    FirstRules <- MCFirstRules
    MaxEvents = 1
INVARIANT AskAnswers
CHECK_DEADLOCK FALSE
