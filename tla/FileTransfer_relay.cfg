\* One administrator, one player, two requests, files of two parts.
CONSTANTS
    Admins = {a1}
    Cheaters = {c1}
    NoClient = NoClient
    Proxies = {1, 2}
    FileSize = 2
    GarbageSizes = {2}
    MaxRequests = 2
    MaxInFlight = 2
SPECIFICATION FairSpec
INVARIANTS TypeOK FilesAreWhole RelaysStayInBuffer
PROPERTIES TransfersEnd
CHECK_DEADLOCK FALSE
