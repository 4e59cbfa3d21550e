\* What the fix loop reports as recovered.
CONSTANTS
    Phases <- Track
    File = {f, g}
    Tested = {f}
    MaxLoops = 2
    MaxRuns = 1
SPECIFICATION Spec
INVARIANT RecoveredIsTested
CHECK_DEADLOCK FALSE
