\* Two processes, two runs with one phase, three lease ids, short leases.
SPECIFICATION Spec
CONSTANTS
    Agent = {a1, a2}
    Run = {r1, r2}
    Phase = {apply}
    LeaseId = {l1, l2, l3}
    Duration = {1}
    MaxTime = 2
    NoSlot = NoSlot
SYMMETRY Symmetry
INVARIANTS
    TypeOK
PROPERTIES
    ImplementsBoard
    NoEarlyExpiry
    NoResurrection
