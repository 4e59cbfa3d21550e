\* Two processes, two runs, two files, three calls.  The durable artifacts are
\* on: without them nothing happens that cannot happen with them, since the
\* setting is only ever a guard.
CONSTANTS
    Process = {p1, p2}
    Run = {r1, r2}
    File = {f, g}
    Calls = 3
    Durability = {TRUE}
    None = None
SPECIFICATION Spec
SYMMETRY Symmetry
INVARIANTS TypeOK ActiveRunLoads RunningIsDriven CompletedHasEvidence AllOrNothing
PROPERTY ImplementsFile
CHECK_DEADLOCK FALSE
