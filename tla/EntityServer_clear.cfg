\* Packets arrive while SLS_Clear runs.
CONSTANTS
    Ids = {e1, e2, e3, e4, e5}
    Clients = {c1, c2}
    Server = Server
    Nobody = Nobody
    None = None
    Items = {"gun"}
    MaxCorpses = 0
    MaxRounds = 1
    QuietClear = FALSE
SPECIFICATION Spec
INVARIANT DestroysRoots
SYMMETRY Symmetry
CHECK_DEADLOCK FALSE
