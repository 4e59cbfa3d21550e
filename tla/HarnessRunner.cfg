\* Two runs of the track, two files, two fix rounds.
CONSTANTS
    Phases <- Track
    File = {f, g}
    Tested = {f}
    MaxLoops = 2
    MaxRuns = 2
SPECIFICATION Spec
INVARIANTS TypeOK PassedIsGreen BlockedApplyWritesNothing SkippedHasArtifact
CHECK_DEADLOCK FALSE
