\* What acquire's docstring promises, against two overlapping acquires.
SPECIFICATION Spec
CONSTANTS
    Agent = {a1, a2}
    Run = {r1}
    Phase = {apply}
    LeaseId = {l1, l2}
    Duration = {1}
    MaxTime = 1
    NoSlot = NoSlot
INVARIANT
    ActiveLeaseExclusive
