\* One process, three texts: the id a save returns.
CONSTANTS
    Process = {p1}
    Text = {a, b, c}
    Topic = {t}
    None = None
    Rows = 3
    Relations = 1
    Calls = 3
SPECIFICATION Spec
INVARIANT ReturnsOriginalId
CHECK_DEADLOCK FALSE
