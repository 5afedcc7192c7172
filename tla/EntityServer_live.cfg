\* One player under the scheduling of the main loop; no symmetry.
CONSTANTS
    Ids = {e1, e2, e3}
    Clients = {c1}
    Server = Server
    Nobody = Nobody
    None = None
    Items = {"gun", "ammo"}
    MaxCorpses = 1
    MaxRounds = 0
    QuietClear = TRUE
SPECIFICATION FairSpec
PROPERTY BodiesGo
CHECK_DEADLOCK FALSE
