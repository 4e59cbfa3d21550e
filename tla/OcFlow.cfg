\* Two files, two repair attempts of three strategies, a step limit that strikes after the last repair.
SPECIFICATION Spec
CONSTANTS
    File = {source, test}
    TestFile = {test}
    MaxAttempts = 2
    Strategies = 3
    MaxSteps = 12
INVARIANTS
    TypeOK
    CompletedIsHonest
    StrictNeedsRed
    ViolationExits6
    NeedsLeaveNoTrace
    BlockedPassUndone
    ChangesReported
    PassCanBeUndone
    RepairBounded
PROPERTY PolicyBlockFreezes
