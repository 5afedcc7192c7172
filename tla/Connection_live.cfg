\* Two clients and the key service, a round change, a secret message; no symmetry.
CONSTANTS
    Clients = {c1, c2}
    NoClient = NoClient
    CDKeyServer = TRUE
    AuthCheck = TRUE
    EarlySecrets = FALSE
    MaxSecrets = 1
    MaxRoundEnds = 1
SPECIFICATION FairSpec
PROPERTIES NobodyHangs
INVARIANTS TypeOK KeysAgree OnlyTheAdmitted DelayedIsFront
CHECK_DEADLOCK FALSE
