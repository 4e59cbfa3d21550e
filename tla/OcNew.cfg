\* One process on a run of three phases, with crashes and lost leases.
SPECIFICATION Spec
CONSTANTS
    Process = {p1}
    Flow <- ShortFlow
    Required <- ShortRequired
    Evidence <- ShortEvidence
    SpecArtifact <- ShortSpecs
    Config <- SomeConfigs
    TotalBudget = 1
    Tokens = {1}
    MaxTokens = 2
    Fault = {"crash", "lease"}
INVARIANTS
    TypeOK
    NextFitsPhases
    ApplyUnlocked
    SpawnedIsLeased
PROPERTY
    NoLostCompletion
