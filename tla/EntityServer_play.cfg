\* Two players: respawns, deaths, looting, disconnections, a round change.
CONSTANTS
    Ids = {e1, e2, e3, e4}
    Clients = {c1, c2}
    Server = Server
    Nobody = Nobody
    None = None
    Items = {"gun", "ammo"}
    MaxCorpses = 0
    MaxRounds = 1
    QuietClear = TRUE
SPECIFICATION Spec
INVARIANTS TypeOK VerifyEntities IteratorHits BareIdsAreLive AssertionsHold OneGun BodiesLeaveTheirItems
SYMMETRY Symmetry
CHECK_DEADLOCK FALSE
