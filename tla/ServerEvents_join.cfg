\* A client that may be rejected, hit, and blocked by a round change, fairly scheduled; slots are pruned at once.
CONSTANTS
    s1 = s1
    s2 = s2
    Slots <- MCSlots
    FirstUnused <- MCFirstUnused
    Events <- MCEvents
    NoEvent = NoEvent
    Clients = {c1}
    PruneAbove = 0
    PublicServer = TRUE
    MaxHits = 1
    MaxRounds = 1
    MaxPlays = 1
SPECIFICATION FairSpec
PROPERTIES ImplementsLog BlockedIsHeardAgain JoinedIsAttached
INVARIANTS TypeOK SlotsOnce FrontIsCurrent
CHECK_DEADLOCK FALSE
