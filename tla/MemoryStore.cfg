\* Two processes, two texts, one topic, three rows, three calls, on an empty store or one with two rows.
CONSTANTS
    Old = Old
    Fresh = Fresh
    Topic1 = Topic1
    Process = {p1, p2}
    Text = {Old, Fresh}
    Topic = {Topic1}
    None = None
    Rows = 3
    Relations = 1
    Calls = 3
SPECIFICATION MCSpec
SYMMETRY Processes
INVARIANTS TypeOK ActsOnFacts Findable
PROPERTY NoResurrection
CHECK_DEADLOCK FALSE
