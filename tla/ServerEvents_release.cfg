\* Release finds an event: refuted by the rejection of a profile.
CONSTANTS
    s1 = s1
    s2 = s2
    Slots <- MCSlots
    FirstUnused <- MCFirstUnused
    Events <- MCEvents
    NoEvent = NoEvent
    Clients = {c1}
    PruneAbove = 0
    PublicServer = TRUE
    MaxHits = 0
    MaxRounds = 0
    MaxPlays = 0
SPECIFICATION Spec
INVARIANTS ReleaseFindsAnEvent
CHECK_DEADLOCK FALSE
