\* Two processes on one run of two phases, either of which may die.
SPECIFICATION Spec
CONSTANTS
    Process = {p1, p2}
    Flow <- PairFlow
    Required <- PairRequired
    Evidence = {}
    SpecArtifact = {}
    Config <- PairConfigs
    TotalBudget = 1
    Tokens = {1}
    MaxTokens = 2
    Fault = {"crash"}
SYMMETRY Symmetry
INVARIANTS
    NextFitsPhases
    LedgerKeepsAll
